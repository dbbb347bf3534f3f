SPECIFICATION Spec
CONSTANTS
  Groups <- MCGroups
  Rules <- MCRules
  Content <- MCContent
  Selected <- MCSelected
  Clusters <- MCClusters
  Applicable <- MCApplicable
  RuleRole <- MCRuleRole
  Weight <- MCWeight
  Check <- MCCheck
  Checks <- MCChecks
  Profiles <- MCProfiles
  Selectors <- MCSelectors
  Answers <- MCAnswers
  MaxSelects = 2
INVARIANTS
  SelectionExact
  RulesReported
  ComplexVerdict
  ScoreSound
CHECK_DEADLOCK FALSE
