------------------------ MODULE ProbeProtocolProofs ------------------------
(***************************************************************************)
(* Replies reach the query they answer, and the unlocked trees of a probe  *)
(* are used by one thread at a time: for any objects, references between   *)
(* them and probes, and any number of queries.                             *)
(***************************************************************************)
EXTENDS ProbeProtocol, FiniteSetTheorems, SequenceTheorems, TLAPS

-----------------------------------------------------------------------------
(***************************************************************************)
(* Queues.                                                                 *)
(***************************************************************************)
\* Queues of at most one packet.
LEMMA OnePacket ==
  ASSUME NEW x
  PROVE  /\ Append(<<>>, x) = <<x>> /\ <<x>> # <<>>
         /\ Head(<<x>>) = x /\ Tail(<<x>>) = <<>>
OBVIOUS

\* A packet put while all queues are empty is the only one ...
LEMMA PutSilent ==
  ASSUME NEW queue, DOMAIN queue = Probes, Silent(queue), NEW p \in Probes, NEW x
  PROVE  Only(Put(queue, p, x), p, x) /\ DOMAIN Put(queue, p, x) = Probes
<1>1. \A q \in Probes : Put(queue, p, x)[q] = IF q = p THEN Append(queue[p], x) ELSE queue[q]
  BY DEF Put
<1> QED
  BY <1>1, OnePacket DEF Silent, Only, Put

\* ... and when it is taken they are empty again.
LEMMA TakeOnly ==
  ASSUME NEW queue, DOMAIN queue = Probes, NEW p \in Probes, NEW x, Only(queue, p, x)
  PROVE  Silent(Take(queue, p)) /\ DOMAIN Take(queue, p) = Probes
<1>1. \A q \in Probes : Take(queue, p)[q] = IF q = p THEN Tail(queue[p]) ELSE queue[q]
  BY DEF Take
<1> QED
  BY <1>1, OnePacket DEF Silent, Only, Take

-----------------------------------------------------------------------------
(***************************************************************************)
(* Who carries the innermost query.                                        *)
(***************************************************************************)
\* There is a worker slot for every message sent.
LEMMA EnoughIds ==
  ASSUME NEW n \in Nat, NEW k \in 0 .. MaxQueries, NEW S \in SUBSET Objects, n <= k + Cardinality(S)
  PROVE  1 .. n \subseteq Messages
<1>1. /\ IsFiniteSet(Objects) /\ MaxQueries \in Nat
  BY ProtocolAssumption
<1>2. /\ Cardinality(S) <= Cardinality(Objects)
      /\ Cardinality(S) \in Nat /\ Cardinality(Objects) \in Nat
  BY <1>1, FS_Subset, FS_CardinalityType
<1>3. n <= MaxQueries + Cardinality(Objects)
  BY <1>1, <1>2
<1> QED
  BY <1>1, <1>2, <1>3 DEF Messages

LEMMA EnoughMessages ==
  ASSUME TypeInv, SentInv
  PROVE  1 .. sent \subseteq Messages
<1>1. {o \in Objects : syschar[o] # "none"} \in SUBSET Objects
  OBVIOUS
<1> QED
  BY <1>1, EnoughIds DEF TypeInv, SentInv

\* The innermost query is well typed and its message has a worker slot.
LEMMA InnermostType ==
  ASSUME ProtocolInv, lib # <<>>
  PROVE  /\ Innermost.id \in Messages /\ Innermost.obj \in Objects
         /\ ProbeOf[Innermost.obj] \in Probes
         /\ Innermost.id \in 1 .. sent
         /\ Len(lib) \in Nat \ {0} /\ lib[Len(lib)] \in QueryRecords
<1>1. lib \in Seq(QueryRecords) /\ Len(lib) \in Nat \ {0}
  BY DEF ProtocolInv, TypeInv
<1>2. lib[Len(lib)] \in QueryRecords /\ lib[Len(lib)].id \in 1 .. sent
  BY <1>1 DEF ProtocolInv, LibInv
<1> QED
  BY <1>1, <1>2, EnoughMessages, ProtocolAssumption DEF ProtocolInv, Innermost, QueryRecords

\* A worker that does not wait is the one of the innermost query.
LEMMA RunningWorker ==
  ASSUME ProtocolInv, NEW m \in Messages, worker[m].pc \in RunStates
  PROVE  /\ lib # <<>> /\ Innermost.id = m
         /\ InWorker(m, Innermost.obj)
<1>1. worker[m] # NoWorker
  <2>1. NoWorker.pc = "none"
    BY DEF NoWorker
  <2> QED
    BY <2>1 DEF RunStates
<1>2. PICK k \in 1 .. Len(lib) : lib[k].id = m
  BY <1>1 DEF ProtocolInv, LibInv
<1>3. Len(lib) \in Nat /\ lib # <<>>
  BY <1>2 DEF ProtocolInv, TypeInv
<1>4. k \notin Outer
  BY <1>2 DEF ProtocolInv, LibInv, Waits, WaitStates, RunStates
<1>5. k = Len(lib) /\ Innermost.id = m
  BY <1>2, <1>3, <1>4 DEF Outer, Innermost
<1>6. Stage(m, Innermost.obj)
  BY <1>3, <1>5 DEF ProtocolInv, StageInv
<1>7. InWorker(m, Innermost.obj)
  BY <1>1, <1>6 DEF Stage, InMessage, InHandler, InCommand, InAnswer, InSignal, InReply,
                    Waits, WaitStates, RunStates
<1> QED
  BY <1>3, <1>5, <1>7

\* A handler that is busy with a packet has one of the innermost query.
LEMMA BusyHandler ==
  ASSUME ProtocolInv, NEW p \in Probes, ~HandlerRests(p)
  PROVE  /\ lib # <<>> /\ ProbeOf[Innermost.obj] = p
         /\ \/ InHandler(Innermost.id, Innermost.obj)
            \/ InSignal(Innermost.id, Innermost.obj)
<1>1. lib # <<>>
  BY DEF ProtocolInv, StageInv
<1>2. Stage(Innermost.id, Innermost.obj)
  BY <1>1 DEF ProtocolInv, StageInv
<1> QED
  BY <1>1, <1>2 DEF Stage, InMessage, InHandler, InWorker, InCommand, InAnswer, InSignal,
                    InReply, OnlyHandler

\* A packet on its way to a probe belongs to the innermost query ...
LEMMA PacketToProbe ==
  ASSUME ProtocolInv, NEW p \in Probes, toProbe[p] # <<>>
  PROVE  /\ lib # <<>> /\ ProbeOf[Innermost.obj] = p
         /\ \/ InMessage(Innermost.id, Innermost.obj)
            \/ InAnswer(Innermost.id, Innermost.obj)
<1>1. lib # <<>>
  BY DEF ProtocolInv, StageInv, Silent
<1>2. Stage(Innermost.id, Innermost.obj)
  BY <1>1 DEF ProtocolInv, StageInv
<1> QED
  BY <1>1, <1>2 DEF Stage, InMessage, InHandler, InWorker, InCommand, InAnswer, InSignal,
                    InReply, Only, Silent

\* ... and so does one on its way to the library.
LEMMA PacketFromProbe ==
  ASSUME ProtocolInv, NEW p \in Probes, fromProbe[p] # <<>>
  PROVE  /\ lib # <<>> /\ ProbeOf[Innermost.obj] = p
         /\ \/ InCommand(Innermost.id, Innermost.obj)
            \/ InReply(Innermost.id, Innermost.obj)
<1>1. lib # <<>>
  BY DEF ProtocolInv, StageInv, Silent
<1>2. Stage(Innermost.id, Innermost.obj)
  BY <1>1 DEF ProtocolInv, StageInv
<1> QED
  BY <1>1, <1>2 DEF Stage, InMessage, InHandler, InWorker, InCommand, InAnswer, InSignal,
                    InReply, Only, Silent

-----------------------------------------------------------------------------
(***************************************************************************)
(* Frames: what a step leaves alone.                                       *)
(***************************************************************************)
\* The other workers go on waiting as long as nobody touches them or removes
\* a command.
LEMMA OuterKept ==
  ASSUME ProtocolInv, lib # <<>>, UNCHANGED <<lib, sent>>,
         \A n \in Messages : n # Innermost.id => worker'[n] = worker[n],
         \A q \in Probes : commands[q] \subseteq commands'[q]
  PROVE  LibInv'
<1>1. TypeInv /\ LibInv
  BY DEF ProtocolInv
<1>2. Len(lib) \in Nat \ {0} /\ Innermost = lib[Len(lib)]
  BY InnermostType DEF Innermost
<1>3. ASSUME NEW k \in Outer
      PROVE  /\ Waits(lib[k].id, lib[k].obj)'
             /\ CommandId(lib[k].id)' = CommandId(lib[k].id)
  <2>1. k \in 1 .. Len(lib) /\ k # Len(lib) /\ Len(lib) \in 1 .. Len(lib)
    BY <1>2 DEF Outer
  <2>2. lib[k].id # Innermost.id
    BY <1>1, <1>2, <2>1 DEF LibInv
  <2>3. Waits(lib[k].id, lib[k].obj)
    BY <1>1 DEF LibInv
  <2>4. lib[k].id \in Messages /\ ProbeOf[lib[k].obj] \in Probes
    BY <2>3, ProtocolAssumption DEF Waits, Works, WorkerRecords
  <2>5. worker'[lib[k].id] = worker[lib[k].id]
    BY <2>2, <2>4
  <2> QED
    BY <2>3, <2>4, <2>5 DEF Waits, Works, CommandId
<1>4. \A n \in Messages : worker'[n] # NoWorker => \E k \in 1 .. Len(lib) : lib[k].id = n
  BY <1>1, <1>2 DEF LibInv
<1> QED
  BY <1>1, <1>3, <1>4 DEF LibInv, Outer

\* A worker that ends, or goes on without forgetting its last answer.
Later(n) == \/ worker'[n] = worker[n]
            \/ worker'[n] = NoWorker
            \/ /\ worker[n] \in WorkerRecords /\ worker'[n] \in WorkerRecords
               /\ \/ worker'[n].need > worker[n].need
                  \/ /\ worker'[n].need = worker[n].need
                     /\ worker[n].answer # "none" => worker'[n].answer # "none"

\* Then no command that is about to be removed becomes one it waits for.
LEMMA PastKept ==
  ASSUME NEW id, Past(id), id[1] \in Messages, Later(id[1]),
         sent \in Nat, sent' \in Nat, sent <= sent'
  PROVE  Past(id)'
<1>1. id \in Nat \X Nat /\ id[1] \in 1 .. sent'
  BY DEF Past
<1>2. CASE worker'[id[1]] = worker[id[1]] \/ worker'[id[1]] = NoWorker
  BY <1>1, <1>2 DEF Past
<1>3. CASE worker[id[1]] \in WorkerRecords /\ worker'[id[1]] \in WorkerRecords
           /\ ~(worker'[id[1]] = worker[id[1]] \/ worker'[id[1]] = NoWorker)
  <2>1. worker[id[1]] # NoWorker
    <3>1. NoWorker.pc = "none" /\ worker[id[1]].pc \in RunStates \cup WaitStates
      BY <1>3 DEF NoWorker, WorkerRecords
    <3> QED
      BY <3>1 DEF RunStates, WaitStates
  <2>2. worker[id[1]].need \in Nat /\ worker'[id[1]].need \in Nat /\ id[2] \in Nat
    BY <1>1, <1>3 DEF WorkerRecords
  <2>3. \/ worker[id[1]].need > id[2]
        \/ worker[id[1]].need = id[2] /\ worker[id[1]].answer # "none"
    BY <2>1 DEF Past
  <2>4. \/ worker'[id[1]].need > worker[id[1]].need
        \/ /\ worker'[id[1]].need = worker[id[1]].need
           /\ worker[id[1]].answer # "none" => worker'[id[1]].answer # "none"
    BY <1>3 DEF Later
  <2>5. \/ worker'[id[1]].need > id[2]
        \/ worker'[id[1]].need = id[2] /\ worker'[id[1]].answer # "none"
    BY <2>2, <2>3, <2>4
  <2> QED
    BY <1>1, <2>5 DEF Past
<1> QED
  BY <1>2, <1>3 DEF Later

LEMMA DeleteKeptAt ==
  ASSUME ProtocolInv, sent' \in Nat, sent <= sent', \A n \in Messages : Later(n) \/ Fresh(n),
         NEW q \in Probes, handler[q].pc = "delete_command", handler'[q] = handler[q]
  PROVE  /\ handler'[q] = [pc |-> "delete_command", packet |-> handler'[q].packet]
         /\ \E id : id = handler'[q].packet.id /\ Past(id)'
<1>1. PICK id : id = handler[q].packet.id
  OBVIOUS
<1>2. Past(id) /\ handler[q] = [pc |-> "delete_command", packet |-> handler[q].packet]
  BY <1>1 DEF ProtocolInv, DeleteInv
<1>3. id[1] \in 1 .. sent /\ sent \in Nat /\ id[1] \in Messages
  BY <1>2, EnoughMessages DEF Past, ProtocolInv, TypeInv
<1>4. Later(id[1])
  BY <1>1, <1>3 DEF Fresh
<1>5. Past(id)'
  BY <1>2, <1>3, <1>4, PastKept
<1> QED
  BY <1>1, <1>2, <1>5

LEMMA DeleteKept ==
  ASSUME ProtocolInv, sent' \in Nat, sent <= sent', \A n \in Messages : Later(n) \/ Fresh(n),
         \A q \in Probes : handler'[q].pc = "delete_command" => handler'[q] = handler[q]
  PROVE  DeleteInv'
<1>1. ASSUME NEW q \in Probes, handler'[q].pc = "delete_command"
      PROVE  /\ handler'[q] = [pc |-> "delete_command", packet |-> handler'[q].packet]
             /\ \E id : id = handler'[q].packet.id /\ Past(id)'
  <2>1. handler[q].pc = "delete_command" /\ handler'[q] = handler[q]
    BY <1>1
  <2> QED
    BY <2>1, DeleteKeptAt
<1> QED
  BY <1>1 DEF DeleteInv, Past

-----------------------------------------------------------------------------
(***************************************************************************)
(* Steps of the threads of the probes.  m and o are the message and the    *)
(* object of the innermost query.                                          *)
(***************************************************************************)
\* A step that takes the innermost query from one stage to another, and has
\* no part in the other queries.
LEMMA CarryOn ==
  ASSUME ProtocolInv, lib # <<>>, UNCHANGED library, NEW m, NEW o,
         m = Innermost.id, o = Innermost.obj, TypeInv', Stage(m, o)',
         \A n \in Messages : n # m => worker'[n] = worker[n],
         \A q \in Probes : commands[q] \subseteq commands'[q],
         \A q \in Probes : handler'[q].pc = "delete_command" => handler'[q] = handler[q],
         Later(m) \/ Fresh(m)
  PROVE  ProtocolInv'
<1>1. sent' = sent /\ sent \in Nat /\ lib' = lib /\ queries' = queries /\ syschar' = syschar
  BY DEF library, ProtocolInv, TypeInv
<1>2. SentInv'
  BY <1>1 DEF ProtocolInv, SentInv
<1>3. StageInv'
  BY <1>1 DEF StageInv, Innermost
<1>4. LibInv'
  BY <1>1, OuterKept
<1>5. DeleteInv'
  <2>1. \A n \in Messages : Later(n) \/ Fresh(n)
    <3>1. \A n \in Messages : n # m => Later(n)
      BY DEF Later
    <3> QED
      BY <3>1
  <2>2. sent <= sent' /\ sent' \in Nat
    BY <1>1
  <2> QED
    BY <2>1, <2>2, DeleteKept
<1> QED
  BY <1>2, <1>3, <1>4, <1>5 DEF ProtocolInv

\* The handler receives the message of the innermost query, or an answer.
LEMMA ReceiveStep ==
  ASSUME ProtocolInv, NEW p \in Probes, Receive(p)
  PROVE  ProtocolInv'
<1>1. PICK m, o : m = Innermost.id /\ o = Innermost.obj
  OBVIOUS
<1>2. /\ lib # <<>> /\ ProbeOf[o] = p
      /\ InMessage(m, o) \/ InAnswer(m, o)
  BY <1>1, PacketToProbe DEF Receive
<1>3. DOMAIN toProbe = Probes /\ DOMAIN handler = Probes /\ TypeInv
  BY DEF ProtocolInv, TypeInv
<1>4. PICK x : Only(toProbe, p, x) /\ (\/ InMessage(m, o) /\ x = Msg(m, o)
                                       \/ \E ok \in BOOLEAN : InAnswer(m, o) /\ x = Answer(m, ok))
  BY <1>2 DEF InMessage, InAnswer
<1>5. Head(toProbe[p]) = x
  BY <1>4, OnePacket DEF Only
<1>6. Silent(toProbe') /\ DOMAIN toProbe' = Probes
  BY <1>3, <1>4, TakeOnly DEF Receive
<1>7. /\ handler' = [handler EXCEPT ![p] = [pc |-> IF x.type = "MSG" THEN "get_result" ELSE "get_command",
                                            packet |-> x]]
      /\ UNCHANGED <<lib, syschar, sent, queries, fromProbe, worker, workers, rcache, commands>>
  BY <1>5 DEF Receive, library, trees
<1>8. TypeInv'
  BY <1>3, <1>6, <1>7 DEF TypeInv, Messages
<1>9. \A q \in Probes : q # p => handler'[q] = handler[q]
  BY <1>3, <1>7
<1>10. \A q \in Probes : HandlerRests(q)
  BY <1>2 DEF InMessage, InAnswer
<1>11. Stage(m, o)'
  <2>1. CASE InMessage(m, o) /\ x = Msg(m, o)
    <3>1. handler'[p] = [pc |-> "get_result", packet |-> Msg(m, o)]
      BY <1>3, <1>7, <2>1 DEF Msg
    <3>2. handler'[p].pc = "get_result"
      BY <3>1
    <3>3. Fresh(m)' /\ worker'[m] = NoWorker
      BY <1>7, <1>9, <3>2, <2>1 DEF InMessage, Fresh
    <3>4. OnlyHandler(p, {"get_result", "add_result", "add_worker"}, Msg(m, o))'
      BY <1>9, <1>10, <3>1, <3>2 DEF OnlyHandler, HandlerRests, Msg
    <3>5. InHandler(m, o)'
      BY <1>2, <1>6, <1>7, <2>1, <3>3, <3>4 DEF InHandler, InMessage, Silent
    <3> QED
      BY <3>5 DEF Stage
  <2>2. ASSUME NEW ok \in BOOLEAN, InAnswer(m, o), x = Answer(m, ok)
        PROVE  Stage(m, o)'
    <3>1. handler'[p] = [pc |-> "get_command", packet |-> Answer(m, ok)]
      BY <1>3, <1>7, <2>2 DEF Answer
    <3>2. Waits(m, o)' /\ Answer(m, ok)' = Answer(m, ok)
      BY <1>7, <2>2 DEF InAnswer, Waits, Works, CommandId, Answer, Messages
    <3>3. OnlyHandler(p, {"get_command", "signal"}, Answer(m, ok))'
      BY <1>9, <1>10, <3>1, <3>2 DEF OnlyHandler, HandlerRests
    <3>4. InSignal(m, o)'
      BY <1>2, <1>6, <1>7, <2>2, <3>2, <3>3 DEF InSignal, InAnswer, Silent
    <3> QED
      BY <3>4 DEF Stage
  <2> QED
    BY <1>4, <2>1, <2>2
<1>12. \A q \in Probes : handler'[q].pc = "delete_command" => handler'[q] = handler[q]
  BY <1>3, <1>7, <1>9
<1> QED
  BY <1>1, <1>2, <1>7, <1>8, <1>11, <1>12, CarryOn DEF Later, library

\* The handler of message m: what each of its steps starts from.
LEMMA HandlerOfMessage ==
  ASSUME ProtocolInv, NEW p \in Probes, handler[p].pc \in {"get_result", "add_result", "add_worker"}
  PROVE  \E m \in Messages, o \in Objects :
            /\ m = Innermost.id /\ o = Innermost.obj
            /\ lib # <<>> /\ ProbeOf[o] = p /\ InHandler(m, o)
            /\ Packet(p) = Msg(m, o) /\ Msg(m, o).id = m /\ Msg(m, o).obj = o
<1>1. ~HandlerRests(p)
  BY DEF HandlerRests
<1>2. /\ lib # <<>> /\ ProbeOf[Innermost.obj] = p
      /\ InHandler(Innermost.id, Innermost.obj) \/ InSignal(Innermost.id, Innermost.obj)
  BY <1>1, BusyHandler
<1>3. PICK m \in Messages, o \in Objects : m = Innermost.id /\ o = Innermost.obj
  BY <1>2, InnermostType
<1>4. InHandler(m, o)
  BY <1>2, <1>3 DEF InSignal, OnlyHandler
<1>5. handler[p] = [pc |-> handler[p].pc, packet |-> Msg(m, o)]
  BY <1>2, <1>3, <1>4 DEF InHandler, OnlyHandler
<1>6. Packet(p) = Msg(m, o)
  BY <1>5 DEF Packet
<1> QED
  BY <1>2, <1>3, <1>4, <1>6 DEF Msg

\* The handlers while one of them finishes with its packet.
LEMMA HandlerFinishes ==
  ASSUME DOMAIN handler = Probes, NEW p \in Probes, HandlerDone(p),
         \A q \in Probes : q # p => HandlerRests(q)
  PROVE  /\ DOMAIN handler' = Probes
         /\ \A q \in Probes : HandlerRests(q)'
         /\ \A q \in Probes : handler'[q].pc = "delete_command" => handler'[q] = handler[q]
<1>1. handler' = [handler EXCEPT ![p] = Idle] /\ Idle.pc = "receive"
  BY DEF HandlerDone, Idle
<1> QED
  BY <1>1 DEF HandlerRests

\* A reply of the handler or of a worker.
LEMMA ReplyStage ==
  ASSUME ProtocolInv, NEW m \in Messages, NEW o \in Objects, NEW type \in {"MSG", "ERR"},
         Silent(fromProbe), Silent(toProbe), toProbe' = toProbe,
         fromProbe' = Put(fromProbe, ProbeOf[o], FinalReply(m, type)),
         \A q \in Probes : HandlerRests(q)',
         worker'[m] = NoWorker
  PROVE  Stage(m, o)' /\ DOMAIN fromProbe' = Probes
<1>1. ProbeOf[o] \in Probes /\ DOMAIN fromProbe = Probes
  BY ProtocolAssumption DEF ProtocolInv, TypeInv
<1>2. Only(fromProbe', ProbeOf[o], FinalReply(m, type)) /\ DOMAIN fromProbe' = Probes
  BY <1>1, PutSilent
<1>3. InReply(m, o)'
  BY <1>2 DEF InReply, Silent, Only, FinalReply
<1> QED
  BY <1>2, <1>3 DEF Stage

LEMMA LookupStep ==
  ASSUME ProtocolInv, NEW p \in Probes, Lookup(p)
  PROVE  ProtocolInv'
<1>1. PICK m \in Messages, o \in Objects :
            /\ m = Innermost.id /\ o = Innermost.obj
            /\ lib # <<>> /\ ProbeOf[o] = p /\ InHandler(m, o)
            /\ Packet(p) = Msg(m, o) /\ Msg(m, o).id = m /\ Msg(m, o).obj = o
  BY HandlerOfMessage DEF Lookup, HandlerAt
<1>2. TypeInv /\ DOMAIN handler = Probes /\ DOMAIN fromProbe = Probes
  BY DEF ProtocolInv, TypeInv
<1>3. /\ UNCHANGED <<lib, syschar, sent, queries, toProbe, worker, workers, rcache, commands>>
      /\ UNCHANGED library
  BY DEF Lookup, library, trees
<1>4. /\ Silent(toProbe) /\ Silent(fromProbe) /\ worker[m] = NoWorker /\ Fresh(m)
      /\ \A q \in Probes : q # p => HandlerRests(q)
      /\ handler[p] = [pc |-> handler[p].pc, packet |-> Msg(m, o)]
  BY <1>1 DEF InHandler, OnlyHandler
<1>5. CASE o \in rcache[p]
  <2>1. HandlerDone(p) /\ fromProbe' = Put(fromProbe, p, FinalReply(m, "MSG"))
    BY <1>1, <1>5 DEF Lookup, FinalReply
  <2>2. /\ DOMAIN handler' = Probes
        /\ \A q \in Probes : HandlerRests(q)'
        /\ \A q \in Probes : handler'[q].pc = "delete_command" => handler'[q] = handler[q]
    BY <1>2, <1>4, <2>1, HandlerFinishes
  <2>3. Stage(m, o)' /\ DOMAIN fromProbe' = Probes
    BY <1>1, <1>3, <1>4, <2>1, <2>2, ReplyStage
  <2>4. TypeInv'
    BY <1>2, <1>3, <2>2, <2>3 DEF TypeInv, Messages
  <2> QED
    BY <1>1, <1>3, <1>4, <2>2, <2>3, <2>4, CarryOn
<1>6. CASE o \notin rcache[p]
  <2>1. PICK pc \in {"add_result", "add_worker"} :
           handler' = [handler EXCEPT ![p].pc = pc] /\ fromProbe' = fromProbe
    BY <1>1, <1>6 DEF Lookup, HandlerGoes
  <2>2. /\ handler'[p] = [pc |-> pc, packet |-> Msg(m, o)]
        /\ \A q \in Probes : q # p => handler'[q] = handler[q]
    BY <1>2, <1>4, <2>1
  <2>3. OnlyHandler(p, {"get_result", "add_result", "add_worker"}, Msg(m, o))'
    BY <1>4, <2>1, <2>2 DEF OnlyHandler, HandlerRests, Msg
  <2>4. Fresh(m)'
    BY <1>4, <2>1, <2>2 DEF Fresh
  <2>5. Stage(m, o)'
    <3>1. InHandler(m, o)'
      BY <1>1, <1>3, <1>4, <2>1, <2>3, <2>4 DEF InHandler, Silent
    <3> QED
      BY <3>1 DEF Stage
  <2>6. TypeInv'
    BY <1>2, <1>3, <2>1 DEF TypeInv, Messages
  <2>7. \A q \in Probes : handler'[q].pc = "delete_command" => handler'[q] = handler[q]
    BY <2>1, <2>2
  <2> QED
    BY <1>1, <1>3, <1>4, <2>5, <2>6, <2>7, CarryOn
<1> QED
  BY <1>5, <1>6

LEMMA SkipEvalStep ==
  ASSUME ProtocolInv, NEW p \in Probes, SkipEval(p)
  PROVE  ProtocolInv'
<1>1. PICK m \in Messages, o \in Objects :
            /\ m = Innermost.id /\ o = Innermost.obj
            /\ lib # <<>> /\ ProbeOf[o] = p /\ InHandler(m, o)
            /\ Packet(p) = Msg(m, o) /\ Msg(m, o).id = m /\ Msg(m, o).obj = o
  BY HandlerOfMessage DEF SkipEval, HandlerAt
<1>2. TypeInv /\ DOMAIN handler = Probes /\ DOMAIN rcache = Probes
  BY DEF ProtocolInv, TypeInv
<1>3. /\ UNCHANGED <<lib, syschar, sent, queries, toProbe, worker, workers, commands>>
      /\ UNCHANGED library
      /\ HandlerDone(p) /\ fromProbe' = Put(fromProbe, p, FinalReply(m, "MSG"))
      /\ DOMAIN rcache' = Probes
  BY <1>1, <1>2 DEF SkipEval, library, FinalReply
<1>4. /\ Silent(toProbe) /\ Silent(fromProbe) /\ worker[m] = NoWorker /\ Fresh(m)
      /\ \A q \in Probes : q # p => HandlerRests(q)
  BY <1>1 DEF InHandler, OnlyHandler
<1>5. /\ DOMAIN handler' = Probes
      /\ \A q \in Probes : HandlerRests(q)'
      /\ \A q \in Probes : handler'[q].pc = "delete_command" => handler'[q] = handler[q]
  BY <1>2, <1>3, <1>4, HandlerFinishes
<1>6. Stage(m, o)' /\ DOMAIN fromProbe' = Probes
  BY <1>1, <1>3, <1>4, <1>5, ReplyStage
<1>7. TypeInv'
  BY <1>2, <1>3, <1>5, <1>6 DEF TypeInv, Messages
<1> QED
  BY <1>1, <1>3, <1>4, <1>5, <1>6, <1>7, CarryOn

LEMMA StartWorkerStep ==
  ASSUME ProtocolInv, NEW p \in Probes, StartWorker(p)
  PROVE  ProtocolInv'
<1>1. PICK m \in Messages, o \in Objects :
            /\ m = Innermost.id /\ o = Innermost.obj
            /\ lib # <<>> /\ ProbeOf[o] = p /\ InHandler(m, o)
            /\ Packet(p) = Msg(m, o) /\ Msg(m, o).id = m /\ Msg(m, o).obj = o
  BY HandlerOfMessage DEF StartWorker, HandlerAt
<1>2. TypeInv /\ DOMAIN handler = Probes
  BY DEF ProtocolInv, TypeInv
<1>3. /\ UNCHANGED <<lib, syschar, sent, queries, toProbe, fromProbe, rcache, commands>>
      /\ UNCHANGED library
      /\ HandlerDone(p)
      /\ workers' = [workers EXCEPT ![p] = @ \cup {m}]
      /\ worker' = [worker EXCEPT ![m] = [pc |-> "run", obj |-> o, need |-> 1, answer |-> "none", ret |-> 0]]
  BY <1>1 DEF StartWorker, library
<1>4. /\ Silent(toProbe) /\ Silent(fromProbe) /\ worker[m] = NoWorker /\ Fresh(m)
      /\ \A q \in Probes : q # p => HandlerRests(q)
  BY <1>1 DEF InHandler, OnlyHandler
<1>5. /\ DOMAIN handler' = Probes
      /\ \A q \in Probes : HandlerRests(q)'
      /\ \A q \in Probes : handler'[q].pc = "delete_command" => handler'[q] = handler[q]
  BY <1>2, <1>3, <1>4, HandlerFinishes
<1>6. [pc |-> "run", obj |-> o, need |-> 1, answer |-> "none", ret |-> 0] \in WorkerRecords
  BY DEF WorkerRecords, RunStates
<1>7. TypeInv'
  BY <1>2, <1>3, <1>5, <1>6 DEF TypeInv, Messages
<1>8. /\ worker'[m] = [pc |-> "run", obj |-> o, need |-> 1, answer |-> "none", ret |-> 0]
      /\ \A n \in Messages : n # m => worker'[n] = worker[n]
  BY <1>2, <1>3 DEF TypeInv
<1>9. Stage(m, o)'
  <2>1. InWorker(m, o)'
    BY <1>3, <1>4, <1>5, <1>6, <1>8 DEF InWorker, Works, Silent, RunStates, Messages
  <2> QED
    BY <2>1 DEF Stage
<1> QED
  BY <1>1, <1>3, <1>4, <1>5, <1>7, <1>8, <1>9, CarryOn


\* The handler of an answer: what each of its steps starts from.
LEMMA HandlerOfAnswer ==
  ASSUME ProtocolInv, NEW p \in Probes, handler[p].pc \in {"get_command", "signal"}
  PROVE  \E m \in Messages, o \in Objects, ok \in BOOLEAN :
            /\ m = Innermost.id /\ o = Innermost.obj
            /\ lib # <<>> /\ ProbeOf[o] = p /\ InSignal(m, o)
            /\ handler[p] = [pc |-> handler[p].pc, packet |-> Answer(m, ok)]
            /\ Packet(p).id = CommandId(m) /\ Packet(p).ok = ok
            /\ \A q \in Probes : q # p => HandlerRests(q)
<1>1. ~HandlerRests(p)
  BY DEF HandlerRests
<1>2. /\ lib # <<>> /\ ProbeOf[Innermost.obj] = p
      /\ InHandler(Innermost.id, Innermost.obj) \/ InSignal(Innermost.id, Innermost.obj)
  BY <1>1, BusyHandler
<1>3. PICK m \in Messages, o \in Objects : m = Innermost.id /\ o = Innermost.obj
  BY <1>2, InnermostType
<1>4. InSignal(m, o)
  BY <1>2, <1>3 DEF InHandler, OnlyHandler
<1>5. PICK ok \in BOOLEAN : OnlyHandler(p, {"get_command", "signal"}, Answer(m, ok))
  BY <1>2, <1>3, <1>4 DEF InSignal
<1>6. /\ handler[p] = [pc |-> handler[p].pc, packet |-> Answer(m, ok)]
      /\ \A q \in Probes : q # p => HandlerRests(q)
  BY <1>5 DEF OnlyHandler
<1>7. Packet(p) = Answer(m, ok)
  BY <1>6 DEF Packet
<1>8. Packet(p).id = CommandId(m) /\ Packet(p).ok = ok
  BY <1>7 DEF Answer
<1> QED
  BY <1>2, <1>3, <1>4, <1>6, <1>8

\* The command of a worker that waits is registered.
LEMMA FindCommandStep ==
  ASSUME ProtocolInv, NEW p \in Probes, FindCommand(p)
  PROVE  ProtocolInv'
<1>1. PICK m \in Messages, o \in Objects, ok \in BOOLEAN :
            /\ m = Innermost.id /\ o = Innermost.obj
            /\ lib # <<>> /\ ProbeOf[o] = p /\ InSignal(m, o)
            /\ handler[p] = [pc |-> handler[p].pc, packet |-> Answer(m, ok)]
            /\ Packet(p).id = CommandId(m) /\ Packet(p).ok = ok
            /\ \A q \in Probes : q # p => HandlerRests(q)
  BY HandlerOfAnswer DEF FindCommand, HandlerAt
<1>2. TypeInv /\ DOMAIN handler = Probes
  BY DEF ProtocolInv, TypeInv
<1>3. /\ UNCHANGED <<lib, syschar, sent, queries, toProbe, fromProbe, worker, workers, rcache, commands>>
      /\ UNCHANGED library
  BY DEF FindCommand, library, trees
<1>4. Waits(m, o) /\ Silent(toProbe) /\ Silent(fromProbe)
  BY <1>1 DEF InSignal
<1>5. handler' = [handler EXCEPT ![p].pc = "signal"]
  BY <1>1, <1>4 DEF FindCommand, HandlerGoes, Waits
<1>6. /\ handler'[p] = [pc |-> "signal", packet |-> Answer(m, ok)]
      /\ \A q \in Probes : q # p => handler'[q] = handler[q]
  BY <1>1, <1>2, <1>5
<1>7. Waits(m, o)' /\ Answer(m, ok)' = Answer(m, ok)
  BY <1>3, <1>4 DEF Waits, Works, CommandId, Answer, Messages
<1>8. OnlyHandler(p, {"get_command", "signal"}, Answer(m, ok))'
  BY <1>1, <1>6, <1>7 DEF OnlyHandler, HandlerRests
<1>9. Stage(m, o)'
  <2>1. InSignal(m, o)'
    BY <1>1, <1>3, <1>4, <1>7, <1>8 DEF InSignal, Silent
  <2> QED
    BY <2>1 DEF Stage
<1>10. TypeInv'
  BY <1>2, <1>3, <1>5 DEF TypeInv, Messages
<1>11. \A q \in Probes : handler'[q].pc = "delete_command" => handler'[q] = handler[q]
  BY <1>6
<1>12. Later(m)
  BY <1>3 DEF Later
<1> QED
  BY <1>1, <1>3, <1>9, <1>10, <1>11, <1>12, CarryOn

\* The worker is woken up, and its command is still registered.
LEMMA SignalStep ==
  ASSUME ProtocolInv, NEW p \in Probes, Signal(p)
  PROVE  ProtocolInv'
<1>1. PICK m \in Messages, o \in Objects, ok \in BOOLEAN :
            /\ m = Innermost.id /\ o = Innermost.obj
            /\ lib # <<>> /\ ProbeOf[o] = p /\ InSignal(m, o)
            /\ handler[p] = [pc |-> handler[p].pc, packet |-> Answer(m, ok)]
            /\ Packet(p).id = CommandId(m) /\ Packet(p).ok = ok
            /\ \A q \in Probes : q # p => HandlerRests(q)
  BY HandlerOfAnswer DEF Signal, HandlerAt
<1>2. TypeInv /\ DOMAIN handler = Probes /\ sent \in Nat
  BY DEF ProtocolInv, TypeInv
<1>3. /\ UNCHANGED <<lib, syschar, sent, queries, toProbe, fromProbe, workers, rcache, commands>>
      /\ UNCHANGED library
  BY DEF Signal, library, trees
<1>4. Works(m, o) /\ worker[m].answer = "none" /\ Silent(toProbe) /\ Silent(fromProbe)
  BY <1>1 DEF InSignal, Waits
<1>5. Packet(p).id[1] = m
  BY <1>1 DEF CommandId
<1>6. /\ worker' = Woken(m, ok)
      /\ handler' = [handler EXCEPT ![p].pc = "delete_command"]
  BY <1>1, <1>5 DEF Signal, HandlerGoes
<1>7. /\ worker'[m] \in WorkerRecords /\ worker'[m].pc = "awake" /\ worker'[m].obj = o
      /\ worker'[m].answer # "none" /\ worker'[m].need = worker[m].need
      /\ \A n \in Messages : n # m => worker'[n] = worker[n]
      /\ DOMAIN worker' = Messages
  <2>1. worker[m] \in WorkerRecords /\ worker[m].obj = o
    BY <1>4 DEF Works
  <2>2. PICK answer \in {"ok", "NULL"} :
           worker' = [worker EXCEPT ![m].pc = "awake", ![m].answer = answer]
    BY <1>6 DEF Woken
  <2> QED
    BY <1>2, <2>1, <2>2 DEF TypeInv, WorkerRecords, RunStates
<1>8. worker' \in [Messages -> WorkerRecords \cup {NoWorker}]
  BY <1>2, <1>6, <1>7 DEF TypeInv, Woken
<1>9. /\ handler'[p] = [pc |-> "delete_command", packet |-> Answer(m, ok)]
      /\ \A q \in Probes : q # p => handler'[q] = handler[q]
  BY <1>1, <1>2, <1>6
<1>10. \A q \in Probes : HandlerRests(q)'
  BY <1>1, <1>9 DEF HandlerRests
<1>11. TypeInv'
  BY <1>2, <1>3, <1>6, <1>8 DEF TypeInv, Messages
<1>12. StageInv'
  <2>1. InWorker(m, o)'
    BY <1>3, <1>4, <1>7, <1>10 DEF InWorker, Works, Silent, RunStates, Messages
  <2> QED
    BY <1>1, <1>3, <2>1 DEF StageInv, Stage, Innermost
<1>13. SentInv'
  BY <1>3 DEF ProtocolInv, SentInv
<1>14. LibInv'
  BY <1>1, <1>3, <1>7, OuterKept
<1>15. \A n \in Messages : Later(n)
  <2>1. Later(m)
    BY <1>4, <1>7 DEF Later, Works
  <2> QED
    BY <1>7, <2>1 DEF Later
<1>16. Past(CommandId(m))'
  <2>1. CommandId(m)' = <<m, worker[m].need>>
    BY <1>7 DEF CommandId
  <2>2. m \in 1 .. sent /\ worker[m].need \in Nat
    BY <1>1, <1>4, InnermostType DEF Works, WorkerRecords
  <2>3. m \in Nat
    BY <2>2
  <2> QED
    BY <1>3, <1>7, <2>1, <2>2, <2>3 DEF Past
<1>17. DeleteInv'
  <2>1. ASSUME NEW q \in Probes, handler'[q].pc = "delete_command", q # p
        PROVE  /\ handler'[q] = [pc |-> "delete_command", packet |-> handler'[q].packet]
               /\ \E id : id = handler'[q].packet.id /\ Past(id)'
    <3>1. handler'[q] = handler[q] /\ handler[q].pc = "delete_command"
      BY <1>9, <2>1
    <3>2. sent' \in Nat /\ sent <= sent'
      BY <1>2, <1>3
    <3> QED
      BY <1>15, <3>1, <3>2, DeleteKeptAt
  <2>2. PICK id : id = CommandId(m) /\ id = CommandId(m)'
    BY <1>7 DEF CommandId
  <2>3. Past(id)'
    BY <1>16, <2>2 DEF Past
  <2>4. /\ handler'[p] = [pc |-> "delete_command", packet |-> handler'[p].packet]
        /\ id = handler'[p].packet.id
    BY <1>9, <2>2 DEF Answer
  <2> QED
    BY <2>1, <2>3, <2>4 DEF DeleteInv, Past
<1> QED
  BY <1>11, <1>12, <1>13, <1>14, <1>17 DEF ProtocolInv


\* A step that does not change what any query waits for.
LEMMA NobodyDisturbed ==
  ASSUME ProtocolInv, UNCHANGED <<library, toProbe, fromProbe>>, TypeInv',
         \A n \in Messages, o \in Objects : Waits(n, o) => Waits(n, o)',
         \A n \in Messages : /\ worker[n].pc \in RunStates => worker'[n] = worker[n]
                             /\ worker[n] = NoWorker <=> worker'[n] = NoWorker
                             /\ CommandId(n)' = CommandId(n) /\ Need(n)' = Need(n)
                             /\ Later(n),
         \A q \in Probes : /\ HandlerRests(q) => HandlerRests(q)'
                           /\ ~HandlerRests(q) => handler'[q] = handler[q]
                           /\ handler'[q].pc = "delete_command" => handler'[q] = handler[q]
  PROVE  ProtocolInv'
<1>1. /\ UNCHANGED <<lib, syschar, sent, queries, toProbe, fromProbe>> /\ sent \in Nat
      /\ TypeInv /\ LibInv /\ SentInv
  BY DEF library, ProtocolInv, TypeInv
<1>2. SentInv'
  BY <1>1 DEF SentInv
<1>3. ASSUME NEW m \in Messages, NEW o \in Objects, Stage(m, o)
      PROVE  Stage(m, o)'
  <2>1. Fresh(m) => Fresh(m)'
    BY DEF Fresh
  <2>2. /\ \A x : Only(toProbe, ProbeOf[o], x) => Only(toProbe', ProbeOf[o], x)
        /\ \A x : Only(fromProbe, ProbeOf[o], x) => Only(fromProbe', ProbeOf[o], x)
        /\ Silent(toProbe) => Silent(toProbe')
        /\ Silent(fromProbe) => Silent(fromProbe')
    BY <1>1
  <2>3. (\A q \in Probes : HandlerRests(q)) => \A q \in Probes : HandlerRests(q)'
    OBVIOUS
  <2>4. ASSUME NEW pcs, NEW x, OnlyHandler(ProbeOf[o], pcs, x), "receive" \notin pcs, "delete_command" \notin pcs
        PROVE  OnlyHandler(ProbeOf[o], pcs, x)'
    <3>1. ProbeOf[o] \in Probes /\ ~HandlerRests(ProbeOf[o])
      BY <2>4, ProtocolAssumption DEF OnlyHandler, HandlerRests
    <3> QED
      BY <2>4, <3>1 DEF OnlyHandler
  <2>5. CASE InMessage(m, o)
    <3>1. InMessage(m, o)'
      BY <2>1, <2>2, <2>3, <2>5 DEF InMessage, Msg, Silent, Only
    <3> QED
      BY <3>1 DEF Stage
  <2>6. CASE InHandler(m, o)
    <3>1. OnlyHandler(ProbeOf[o], {"get_result", "add_result", "add_worker"}, Msg(m, o))'
      BY <2>4, <2>6 DEF InHandler, Msg
    <3>2. InHandler(m, o)'
      BY <2>1, <2>2, <2>6, <3>1 DEF InHandler, Silent
    <3> QED
      BY <3>2 DEF Stage
  <2>7. CASE InWorker(m, o)
    <3>1. worker'[m] = worker[m] /\ \A q \in Probes : HandlerRests(q)'
      BY <2>7 DEF InWorker
    <3>2. InWorker(m, o)'
      BY <2>2, <2>7, <3>1 DEF InWorker, Works, Silent, Messages
    <3> QED
      BY <3>2 DEF Stage
  <2>8. CASE InCommand(m, o)
    <3>1. Cmd(m, o)' = Cmd(m, o)
      BY DEF Cmd
    <3>2. Waits(m, o)' /\ \A q \in Probes : HandlerRests(q)'
      BY <2>8 DEF InCommand
    <3>3. InCommand(m, o)'
      BY <2>2, <2>8, <3>1, <3>2 DEF InCommand, Silent, Only
    <3> QED
      BY <3>3 DEF Stage
  <2>9. CASE InAnswer(m, o)
    <3>1. \A ok \in BOOLEAN : Answer(m, ok)' = Answer(m, ok)
      BY DEF Answer
    <3>2. Waits(m, o)' /\ \A q \in Probes : HandlerRests(q)'
      BY <2>9 DEF InAnswer
    <3>3. InAnswer(m, o)'
      BY <2>2, <2>9, <3>1, <3>2 DEF InAnswer, Silent, Only
    <3> QED
      BY <3>3 DEF Stage
  <2>10. CASE InSignal(m, o)
    <3>1. PICK ok \in BOOLEAN : OnlyHandler(ProbeOf[o], {"get_command", "signal"}, Answer(m, ok))
      BY <2>10 DEF InSignal
    <3>2. PICK x : x = Answer(m, ok) /\ x = Answer(m, ok)'
      BY DEF Answer
    <3>3. OnlyHandler(ProbeOf[o], {"get_command", "signal"}, x)'
      BY <2>4, <3>1, <3>2
    <3>4. InSignal(m, o)'
      BY <2>2, <2>10, <3>2, <3>3 DEF InSignal, Silent
    <3> QED
      BY <3>4 DEF Stage
  <2>11. CASE InReply(m, o)
    <3>1. InReply(m, o)'
      BY <2>2, <2>3, <2>11 DEF InReply, Silent, Only, FinalReply
    <3> QED
      BY <3>1 DEF Stage
  <2> QED
    BY <1>3, <2>5, <2>6, <2>7, <2>8, <2>9, <2>10, <2>11 DEF Stage
<1>4. StageInv'
  <2>1. CASE lib = <<>>
    BY <1>1, <2>1 DEF StageInv, ProtocolInv, Silent
  <2>2. CASE lib # <<>>
    <3>1. PICK m \in Messages, o \in Objects : m = Innermost.id /\ o = Innermost.obj
      BY <2>2, InnermostType
    <3>2. Stage(m, o)'
      BY <1>3, <2>2, <3>1 DEF ProtocolInv, StageInv
    <3> QED
      BY <1>1, <2>2, <3>1, <3>2 DEF StageInv, Innermost
  <2> QED
    BY <2>1, <2>2
<1>5. LibInv'
  <2>1. ASSUME NEW k \in Outer
        PROVE  /\ Waits(lib[k].id, lib[k].obj)'
               /\ CommandId(lib[k].id)' = CommandId(lib[k].id)
    <3>1. Waits(lib[k].id, lib[k].obj)
      BY <1>1 DEF LibInv
    <3>2. PICK n \in Messages, o \in Objects : n = lib[k].id /\ o = lib[k].obj
      BY <3>1 DEF Waits, Works, WorkerRecords
    <3>3. Waits(n, o)' /\ CommandId(n)' = CommandId(n)
      BY <3>1, <3>2
    <3> QED
      BY <1>1, <3>2, <3>3
  <2> QED
    BY <1>1, <2>1 DEF LibInv, Outer, Messages
<1>6. DeleteInv'
  <2>1. sent' \in Nat /\ sent <= sent'
    BY <1>1
  <2> QED
    BY <2>1, DeleteKept
<1> QED
  BY <1>2, <1>4, <1>5, <1>6 DEF ProtocolInv


\* The command that is removed is not one that a worker waits for.
LEMMA DeleteCommandStep ==
  ASSUME ProtocolInv, NEW p \in Probes, DeleteCommand(p)
  PROVE  ProtocolInv'
<1>1. TypeInv /\ DOMAIN handler = Probes
  BY DEF ProtocolInv, TypeInv
<1>2. PICK id : id = Packet(p).id
  OBVIOUS
<1>3. /\ handler[p].pc = "delete_command" /\ HandlerDone(p)
      /\ UNCHANGED <<library, toProbe, fromProbe, lib, syschar, sent, queries, worker, workers, rcache>>
      /\ commands' = [commands EXCEPT ![p] = @ \ {id}]
  BY <1>2 DEF DeleteCommand, HandlerAt, library
<1>4. Past(id)
  BY <1>2, <1>3 DEF ProtocolInv, DeleteInv, Packet
<1>5. /\ handler' = [handler EXCEPT ![p] = Idle] /\ Idle.pc = "receive"
  BY <1>3 DEF HandlerDone, Idle
<1>6. \A q \in Probes : /\ HandlerRests(q) => HandlerRests(q)'
                        /\ ~HandlerRests(q) => handler'[q] = handler[q]
                        /\ handler'[q].pc = "delete_command" => handler'[q] = handler[q]
  BY <1>1, <1>3, <1>5 DEF HandlerRests
<1>7. TypeInv'
  BY <1>1, <1>3, <1>5 DEF TypeInv, Messages
<1>8. ASSUME NEW n \in Messages, NEW o \in Objects, Waits(n, o)
      PROVE  Waits(n, o)'
  <2>1. worker[n] \in WorkerRecords /\ worker[n].answer = "none" /\ CommandId(n) \in commands[ProbeOf[o]]
    BY <1>8 DEF Waits, Works
  <2>2. worker[n] # NoWorker /\ worker[n].need \in Nat
    <3>1. NoWorker.pc = "none" /\ worker[n].pc \in RunStates \cup WaitStates
      BY <2>1 DEF NoWorker, WorkerRecords
    <3>2. worker[n] # NoWorker
      BY <3>1 DEF RunStates, WaitStates
    <3> QED
      BY <2>1, <3>2 DEF WorkerRecords
  <2>3. id # <<n, worker[n].need>>
    BY <1>4, <2>1, <2>2 DEF Past
  <2>4. CommandId(n) # id
    BY <2>3 DEF CommandId
  <2>5. CommandId(n) \in commands'[ProbeOf[o]]
    BY <1>1, <1>3, <2>1, <2>4, ProtocolAssumption DEF TypeInv
  <2> QED
    BY <1>3, <1>8, <2>5 DEF Waits, Works, CommandId
<1>9. \A n \in Messages : /\ worker'[n] = worker[n] /\ CommandId(n)' = CommandId(n)
                          /\ Need(n)' = Need(n) /\ Later(n)
  BY <1>3 DEF CommandId, Need, Later
<1> QED
  BY <1>3, <1>6, <1>7, <1>8, <1>9, NobodyDisturbed

\* The worker of m starts to wait; the library may already be busy with its
\* command.
LEMMA WaitStep ==
  ASSUME ProtocolInv, NEW m \in Messages, Wait(m)
  PROVE  ProtocolInv'
<1>1. TypeInv
  BY DEF ProtocolInv
<1>2. /\ worker[m].pc = "sent" /\ worker' = [worker EXCEPT ![m].pc = "wait"]
      /\ UNCHANGED <<library, toProbe, fromProbe, lib, syschar, sent, queries, handler, workers, rcache, commands>>
  BY DEF Wait, WorkerAt, WorkerGoes, library, trees
<1>3. worker[m] \in WorkerRecords
  <2>1. NoWorker.pc = "none"
    BY DEF NoWorker
  <2> QED
    BY <1>1, <1>2, <2>1 DEF TypeInv
<1>4. /\ worker'[m] \in WorkerRecords /\ worker'[m].pc = "wait" /\ worker'[m].obj = worker[m].obj
      /\ worker'[m].need = worker[m].need /\ worker'[m].answer = worker[m].answer
      /\ \A n \in Messages : n # m => worker'[n] = worker[n]
      /\ worker' \in [Messages -> WorkerRecords \cup {NoWorker}]
  BY <1>1, <1>2, <1>3 DEF TypeInv, WorkerRecords, WaitStates
<1>5. TypeInv'
  BY <1>1, <1>2, <1>4 DEF TypeInv, Messages
<1>6. \A n \in Messages : CommandId(n)' = CommandId(n) /\ Need(n)' = Need(n)
  BY <1>4 DEF CommandId, Need
<1>7. ASSUME NEW n \in Messages, NEW o \in Objects, Waits(n, o)
      PROVE  Waits(n, o)'
  <2>1. worker'[n].pc \in WaitStates
    BY <1>4, <1>7 DEF Waits, WaitStates
  <2>2. worker'[n] \in WorkerRecords /\ worker'[n].obj = o /\ worker'[n].answer = "none"
    BY <1>4, <1>7 DEF Waits, Works
  <2> QED
    BY <1>2, <1>6, <1>7, <2>1, <2>2 DEF Waits, Works, Messages
<1>8. \A n \in Messages : Later(n)
  BY <1>3, <1>4 DEF Later
<1>9. /\ worker[m].pc \notin RunStates
      /\ worker[m] # NoWorker /\ worker'[m] # NoWorker
  BY <1>2, <1>4 DEF RunStates, NoWorker
<1>10. \A n \in Messages : /\ worker[n].pc \in RunStates => worker'[n] = worker[n]
                           /\ worker[n] = NoWorker <=> worker'[n] = NoWorker
  BY <1>4, <1>9
<1>11. \A q \in Probes : /\ HandlerRests(q) => HandlerRests(q)'
                         /\ ~HandlerRests(q) => handler'[q] = handler[q]
                         /\ handler'[q].pc = "delete_command" => handler'[q] = handler[q]
  BY <1>2 DEF HandlerRests
<1> QED
  BY <1>2, <1>5, <1>6, <1>7, <1>8, <1>10, <1>11, NobodyDisturbed

\* The worker of the innermost query, and the frame of its steps.
LEMMA WorkerOfMessage ==
  ASSUME ProtocolInv, NEW m \in Messages, worker[m].pc \in RunStates
  PROVE  \E o \in Objects :
            /\ m = Innermost.id /\ o = Innermost.obj
            /\ lib # <<>> /\ InWorker(m, o) /\ Probe(m) = ProbeOf[o] /\ ProbeOf[o] \in Probes
            /\ worker[m] \in WorkerRecords /\ worker[m].obj = o
            /\ Silent(toProbe) /\ Silent(fromProbe) /\ \A q \in Probes : HandlerRests(q)
<1>1. lib # <<>> /\ Innermost.id = m /\ InWorker(m, Innermost.obj)
  BY RunningWorker
<1>2. PICK o \in Objects : o = Innermost.obj
  BY <1>1, InnermostType
<1> QED
  BY <1>1, <1>2, ProtocolAssumption DEF InWorker, Works, Probe

\* The worker of m goes on and neither sends nor ends.
LEMMA WorkerGoesOn ==
  ASSUME ProtocolInv, NEW m \in Messages, worker[m].pc \in RunStates, NEW w \in WorkerRecords,
         worker' = [worker EXCEPT ![m] = w], w.pc \in RunStates, w.obj = worker[m].obj,
         w.pc = "add_command" => w.answer = "none",
         \/ w.need > worker[m].need
         \/ /\ w.need = worker[m].need
            /\ worker[m].answer # "none" => w.answer # "none",
         UNCHANGED <<library, toProbe, fromProbe, handler, commands>>,
         workers' \in [Probes -> SUBSET Messages], DOMAIN rcache' = Probes
  PROVE  ProtocolInv'
<1>1. PICK o \in Objects :
            /\ m = Innermost.id /\ o = Innermost.obj
            /\ lib # <<>> /\ InWorker(m, o) /\ Probe(m) = ProbeOf[o] /\ ProbeOf[o] \in Probes
            /\ worker[m] \in WorkerRecords /\ worker[m].obj = o
            /\ Silent(toProbe) /\ Silent(fromProbe) /\ \A q \in Probes : HandlerRests(q)
  BY WorkerOfMessage
<1>2. TypeInv /\ UNCHANGED <<lib, syschar, sent, queries>>
  BY DEF ProtocolInv, library
<1>3. /\ worker'[m] = w /\ \A n \in Messages : n # m => worker'[n] = worker[n]
      /\ worker' \in [Messages -> WorkerRecords \cup {NoWorker}]
  BY <1>2 DEF TypeInv
<1>4. TypeInv'
  BY <1>2, <1>3 DEF TypeInv, Messages
<1>5. Stage(m, o)'
  <2>1. InWorker(m, o)'
    BY <1>1, <1>3 DEF InWorker, Works, Silent, HandlerRests, Messages
  <2> QED
    BY <2>1 DEF Stage
<1>6. Later(m)
  BY <1>1, <1>3 DEF Later
<1> QED
  BY <1>1, <1>3, <1>4, <1>5, <1>6, CarryOn


\* A worker that turns to what it looks up next.
Advanced(r, pc) == [r EXCEPT !.pc = pc, !.need = @ + 1, !.answer = "none"]
LEMMA NextNeed ==
  ASSUME NEW r \in WorkerRecords, NEW pc \in RunStates
  PROVE  /\ Advanced(r, pc) \in WorkerRecords /\ Advanced(r, pc).pc = pc
         /\ Advanced(r, pc).obj = r.obj /\ Advanced(r, pc).need > r.need
<1>1. /\ r = [pc |-> r.pc, obj |-> r.obj, need |-> r.need, answer |-> r.answer, ret |-> r.ret]
      /\ r.obj \in Objects /\ r.need \in Nat /\ r.ret \in {0, 1}
  BY DEF WorkerRecords
<1>2. Advanced(r, pc) = [pc |-> pc, obj |-> r.obj, need |-> r.need + 1, answer |-> "none", ret |-> r.ret]
  <2>1. ASSUME NEW w, w = [r EXCEPT !.pc = pc, !.need = @ + 1, !.answer = "none"]
        PROVE  w = [pc |-> pc, obj |-> r.obj, need |-> r.need + 1, answer |-> "none", ret |-> r.ret]
    BY <1>1, <2>1
  <2> QED
    BY <2>1, Zenon DEF Advanced
<1>3. r.need + 1 \in Nat \ {0} /\ r.need + 1 > r.need
  BY <1>1
<1> QED
  BY <1>1, <1>2, <1>3 DEF WorkerRecords

\* The steps of a worker between a command and its answer, or its end.
LEMMA LocalSteps ==
  ASSUME ProtocolInv, NEW m \in Messages,
         \/ Run(m) \/ GetResult(m) \/ Awake(m) \/ AddStates(m) \/ LeaveOut(m)
         \/ DeleteWorker(m) \/ AddResult(m)
  PROVE  ProtocolInv'
<1>1. worker[m].pc \in RunStates
  BY DEF Run, GetResult, Awake, AddStates, LeaveOut, DeleteWorker, AddResult, WorkerAt, RunStates
<1>2. worker[m] \in WorkerRecords /\ Probe(m) \in Probes
  BY <1>1, WorkerOfMessage
<1>3. /\ workers \in [Probes -> SUBSET Messages] /\ DOMAIN rcache = Probes
      /\ DOMAIN worker = Messages
  BY DEF ProtocolInv, TypeInv
<1>4. /\ worker[m].pc \in RunStates \cup WaitStates /\ worker[m].obj \in Objects
      /\ worker[m].need \in Nat \ {0} /\ worker[m].answer \in {"none", "ok", "NULL"}
      /\ worker[m].ret \in {0, 1}
      /\ worker[m] = [pc |-> worker[m].pc, obj |-> worker[m].obj, need |-> worker[m].need,
                      answer |-> worker[m].answer, ret |-> worker[m].ret]
  BY <1>2 DEF WorkerRecords
<1>5. ASSUME NEW pc \in RunStates, pc = "add_command" => worker[m].answer = "none", WorkerGoes(m, pc),
             UNCHANGED <<library, toProbe, fromProbe, handler, commands>>,
             workers' \in [Probes -> SUBSET Messages], DOMAIN rcache' = Probes
      PROVE  ProtocolInv'
  <2>1. PICK w : w = [worker[m] EXCEPT !.pc = pc]
    OBVIOUS
  <2>2. /\ w \in WorkerRecords /\ w.pc = pc /\ w.obj = worker[m].obj
        /\ w.need = worker[m].need /\ w.answer = worker[m].answer
    BY <1>2, <1>5, <2>1 DEF WorkerRecords
  <2>3. worker' = [worker EXCEPT ![m] = w]
    BY <1>5, <2>1 DEF WorkerGoes
  <2> QED
    BY <1>1, <1>5, <2>2, <2>3, WorkerGoesOn
<1>6. ASSUME NEW pc \in RunStates, pc # "add_command",
             worker' = [worker EXCEPT ![m].pc = pc, ![m].need = @ + 1, ![m].answer = "none"],
             UNCHANGED <<library, toProbe, fromProbe, handler, commands>>,
             workers' \in [Probes -> SUBSET Messages], DOMAIN rcache' = Probes
      PROVE  ProtocolInv'
  <2>0. PICK r \in WorkerRecords : r = worker[m]
    BY <1>2
  <2>1. PICK w : w = Advanced(r, pc)
    OBVIOUS
  <2>2. w \in WorkerRecords /\ w.pc = pc /\ w.obj = r.obj /\ w.need > r.need
    BY <2>0, <2>1, NextNeed
  <2>3. worker' = [worker EXCEPT ![m] = w]
    BY <1>6, <2>0, <2>1 DEF Advanced
  <2> QED
    BY <1>1, <1>6, <2>0, <2>2, <2>3, WorkerGoesOn
<1>7. CASE Run(m)
  <2>1. CASE worker[m].need <= Len(Needs[worker[m].obj])
    <3>1. /\ WorkerGoes(m, "get_result") /\ UNCHANGED <<library, toProbe, fromProbe, handler, commands>>
          /\ workers' = workers /\ rcache' = rcache
      BY <1>7, <2>1 DEF Run, trees
    <3> QED
      BY <1>3, <1>5, <3>1 DEF RunStates
  <2>2. CASE ~(worker[m].need <= Len(Needs[worker[m].obj]))
    <3>1. PICK ret \in {0, 1} : worker' = [worker EXCEPT ![m].pc = "delete_worker", ![m].ret = ret]
      BY <1>7, <2>2 DEF Run
    <3>2. PICK w : w = [worker[m] EXCEPT !.pc = "delete_worker", !.ret = ret]
      OBVIOUS
    <3>3. /\ w \in WorkerRecords /\ w.pc = "delete_worker" /\ w.obj = worker[m].obj
          /\ w.need = worker[m].need /\ w.answer = worker[m].answer
      BY <1>2, <3>1, <3>2 DEF WorkerRecords, RunStates
    <3>4. worker' = [worker EXCEPT ![m] = w]
      BY <3>1, <3>2
    <3>5. /\ UNCHANGED <<library, toProbe, fromProbe, handler, commands>>
          /\ workers' = workers /\ rcache' = rcache
      BY <1>7 DEF Run, trees
    <3>6. w.pc \in RunStates /\ w.pc # "add_command"
      BY <3>3 DEF RunStates
    <3> QED
      BY <1>1, <1>3, <3>3, <3>4, <3>5, <3>6, WorkerGoesOn
  <2> QED
    BY <2>1, <2>2
<1>8. CASE GetResult(m)
  <2>1. /\ UNCHANGED <<library, toProbe, fromProbe, handler, commands>>
        /\ workers' = workers /\ rcache' = rcache
    BY <1>8 DEF GetResult, trees
  <2>2. CASE Need(m) \in rcache[Probe(m)]
    <3>1. worker' = [worker EXCEPT ![m].pc = "run", ![m].need = @ + 1, ![m].answer = "none"]
      BY <1>8, <2>2 DEF GetResult
    <3> QED
      BY <1>3, <1>6, <2>1, <3>1 DEF RunStates
  <2>3. CASE Need(m) \notin rcache[Probe(m)]
    <3>1. PICK pc : pc = IF worker[m].answer = "none" THEN "add_command" ELSE "delete_worker"
      OBVIOUS
    <3>2. WorkerGoes(m, pc)
      BY <1>8, <2>3, <3>1 DEF GetResult
    <3>3. pc \in RunStates /\ (pc = "add_command" => worker[m].answer = "none")
      BY <3>1 DEF RunStates
    <3> QED
      BY <1>3, <1>5, <2>1, <3>2, <3>3
  <2> QED
    BY <2>2, <2>3
<1>9. CASE Awake(m)
  <2>1. /\ UNCHANGED <<library, toProbe, fromProbe, handler, commands>>
        /\ workers' = workers /\ rcache' = rcache
    BY <1>9 DEF Awake, trees
  <2>2. PICK pc \in {"get_result", "delete_worker", "add_states", "leave_out"} : WorkerGoes(m, pc)
    BY <1>9 DEF Awake
  <2>3. pc \in RunStates /\ pc # "add_command"
    BY DEF RunStates
  <2> QED
    BY <1>3, <1>5, <2>1, <2>2, <2>3
<1>10. CASE AddStates(m)
  <2>1. /\ UNCHANGED <<library, toProbe, fromProbe, handler, commands>>
        /\ workers' = workers /\ DOMAIN rcache' = Probes
        /\ worker' = [worker EXCEPT ![m].pc = "run", ![m].need = @ + 1, ![m].answer = "none"]
    BY <1>3, <1>10 DEF AddStates
  <2> QED
    BY <1>3, <1>6, <2>1 DEF RunStates
<1>11. CASE LeaveOut(m)
  <2>1. /\ UNCHANGED <<library, toProbe, fromProbe, handler, commands>>
        /\ workers' = workers /\ rcache' = rcache
    BY <1>11 DEF LeaveOut, trees
  <2>2. PICK pc \in {"run", "delete_worker"} :
           worker' = [worker EXCEPT ![m].pc = pc, ![m].need = @ + 1, ![m].answer = "none"]
    <3>1. PICK pc \in {"run", "delete_worker"} :
             worker' = [worker EXCEPT ![m].need = @ + 1, ![m].answer = "none", ![m].pc = pc]
      BY <1>11 DEF LeaveOut
    <3>2. worker' = [worker EXCEPT ![m].pc = pc, ![m].need = @ + 1, ![m].answer = "none"]
      BY <1>3, <1>4, <3>1
    <3> QED
      BY <3>2
  <2>3. pc \in RunStates /\ pc # "add_command"
    BY DEF RunStates
  <2> QED
    BY <1>3, <1>6, <2>1, <2>2, <2>3
<1>12. CASE DeleteWorker(m)
  <2>1. /\ UNCHANGED <<library, toProbe, fromProbe, handler, commands>>
        /\ workers' \in [Probes -> SUBSET Messages] /\ rcache' = rcache
        /\ WorkerGoes(m, "add_result")
    BY <1>2, <1>3, <1>12 DEF DeleteWorker
  <2> QED
    BY <1>3, <1>5, <2>1 DEF RunStates
<1>13. CASE AddResult(m)
  <2>1. /\ UNCHANGED <<library, toProbe, fromProbe, handler, commands>>
        /\ workers' = workers /\ DOMAIN rcache' = Probes
    BY <1>3, <1>13 DEF AddResult
  <2>2. PICK pc \in {"aborted", "reply"} : WorkerGoes(m, pc)
    BY <1>13 DEF AddResult
  <2>3. pc \in RunStates /\ pc # "add_command"
    BY DEF RunStates
  <2> QED
    BY <1>3, <1>5, <2>1, <2>2, <2>3
<1> QED
  BY <1>7, <1>8, <1>9, <1>10, <1>11, <1>12, <1>13

LEMMA SendCommandStep ==
  ASSUME ProtocolInv, NEW m \in Messages, SendCommand(m)
  PROVE  ProtocolInv'
<1>1. worker[m].pc = "add_command" /\ worker[m].pc \in RunStates
  BY DEF SendCommand, WorkerAt, RunStates
<1>2. PICK o \in Objects :
            /\ m = Innermost.id /\ o = Innermost.obj
            /\ lib # <<>> /\ InWorker(m, o) /\ Probe(m) = ProbeOf[o] /\ ProbeOf[o] \in Probes
            /\ worker[m] \in WorkerRecords /\ worker[m].obj = o
            /\ Silent(toProbe) /\ Silent(fromProbe) /\ \A q \in Probes : HandlerRests(q)
  BY <1>1, WorkerOfMessage
<1>3. TypeInv /\ DOMAIN fromProbe = Probes
  BY DEF ProtocolInv, TypeInv
<1>4. PICK id, x : id = CommandId(m) /\ x = Cmd(m, o)
  OBVIOUS
<1>5. /\ UNCHANGED library /\ UNCHANGED <<lib, syschar, sent, queries, toProbe, handler, workers, rcache>>
      /\ worker' = [worker EXCEPT ![m].pc = "sent"]
      /\ fromProbe' = Put(fromProbe, ProbeOf[o], x)
      /\ commands' = [commands EXCEPT ![ProbeOf[o]] = @ \cup {id}]
  BY <1>2, <1>4 DEF SendCommand, WorkerGoes, library, Cmd
<1>6. worker[m].answer = "none"
  BY <1>1, <1>2 DEF InWorker
<1>7. /\ worker'[m] \in WorkerRecords /\ worker'[m].pc = "sent" /\ worker'[m].obj = o
      /\ worker'[m].need = worker[m].need /\ worker'[m].answer = "none"
      /\ \A n \in Messages : n # m => worker'[n] = worker[n]
      /\ worker' \in [Messages -> WorkerRecords \cup {NoWorker}]
  BY <1>2, <1>3, <1>5, <1>6 DEF TypeInv, WorkerRecords, WaitStates
<1>8. CommandId(m)' = id /\ Cmd(m, o)' = x
  BY <1>4, <1>7, <1>2 DEF CommandId, Cmd, Need
<1>9. id \in Nat \X Nat
  <2>1. m \in Nat /\ worker[m].need \in Nat
    BY <1>2, InnermostType DEF WorkerRecords
  <2> QED
    BY <1>4, <2>1 DEF CommandId
<1>10. /\ \A q \in Probes : commands[q] \subseteq commands'[q]
       /\ id \in commands'[ProbeOf[o]]
       /\ commands' \in [Probes -> SUBSET (Nat \X Nat)]
  BY <1>2, <1>3, <1>5, <1>9 DEF TypeInv
<1>11. Only(fromProbe', ProbeOf[o], x) /\ DOMAIN fromProbe' = Probes
  BY <1>2, <1>3, <1>5, PutSilent
<1>12. TypeInv'
  BY <1>3, <1>5, <1>7, <1>10, <1>11 DEF TypeInv, Messages
<1>13. Stage(m, o)'
  <2>1. Waits(m, o)'
    BY <1>7, <1>8, <1>10 DEF Waits, Works, WaitStates, Messages
  <2>2. InCommand(m, o)'
    BY <1>2, <1>5, <1>8, <1>11, <2>1 DEF InCommand, Silent, Only, HandlerRests
  <2> QED
    BY <2>2 DEF Stage
<1>14. Later(m)
  BY <1>2, <1>6, <1>7 DEF Later
<1>15. \A q \in Probes : handler'[q].pc = "delete_command" => handler'[q] = handler[q]
  BY <1>5
<1> QED
  BY <1>2, <1>5, <1>7, <1>10, <1>12, <1>13, <1>14, <1>15, CarryOn

LEMMA ReplyStep ==
  ASSUME ProtocolInv, NEW m \in Messages, Reply(m)
  PROVE  ProtocolInv'
<1>1. worker[m].pc \in RunStates
  BY DEF Reply, WorkerAt, RunStates
<1>2. PICK o \in Objects :
            /\ m = Innermost.id /\ o = Innermost.obj
            /\ lib # <<>> /\ InWorker(m, o) /\ Probe(m) = ProbeOf[o] /\ ProbeOf[o] \in Probes
            /\ worker[m] \in WorkerRecords /\ worker[m].obj = o
            /\ Silent(toProbe) /\ Silent(fromProbe) /\ \A q \in Probes : HandlerRests(q)
  BY <1>1, WorkerOfMessage
<1>3. TypeInv
  BY DEF ProtocolInv
<1>4. PICK type \in {"MSG", "ERR"} : fromProbe' = Put(fromProbe, ProbeOf[o], FinalReply(m, type))
  BY <1>2 DEF Reply, FinalReply
<1>5. /\ UNCHANGED library
      /\ UNCHANGED <<lib, syschar, sent, queries, toProbe, handler, workers, rcache, commands>>
      /\ worker' = [worker EXCEPT ![m] = NoWorker]
  BY DEF Reply, library, trees
<1>6. /\ worker'[m] = NoWorker /\ \A n \in Messages : n # m => worker'[n] = worker[n]
      /\ worker' \in [Messages -> WorkerRecords \cup {NoWorker}]
  BY <1>3, <1>5 DEF TypeInv
<1>7. \A q \in Probes : HandlerRests(q)'
  BY <1>2, <1>5 DEF HandlerRests
<1>8. Stage(m, o)' /\ DOMAIN fromProbe' = Probes
  BY <1>2, <1>4, <1>5, <1>6, <1>7, ReplyStage
<1>9. TypeInv'
  BY <1>3, <1>5, <1>6, <1>8 DEF TypeInv, Messages
<1>10. Later(m)
  BY <1>6 DEF Later
<1>11. \A q \in Probes : handler'[q].pc = "delete_command" => handler'[q] = handler[q]
  BY <1>5
<1> QED
  BY <1>2, <1>5, <1>6, <1>8, <1>9, <1>10, <1>11, CarryOn


-----------------------------------------------------------------------------
(***************************************************************************)
(* Steps of the library.                                                   *)
(***************************************************************************)
\* The objects with system characteristics.
Characterised == {o \in Objects : syschar[o] # "none"}

LEMMA CharacterisedGrows ==
  ASSUME Characterised \subseteq Characterised'
  PROVE  /\ Cardinality(Characterised) \in Nat /\ Cardinality(Characterised') \in Nat
         /\ Cardinality(Characterised) <= Cardinality(Characterised')
         /\ Characterised # Characterised' => Cardinality(Characterised) < Cardinality(Characterised')
<1>1. IsFiniteSet(Characterised')
  BY ProtocolAssumption, FS_Subset DEF Characterised
<1> QED
  BY <1>1, FS_Subset, FS_CardinalityType

\* A query that has ended is forgotten.
LEMMA FrontOfSeq ==
  ASSUME NEW S, NEW s \in Seq(S), s # <<>>
  PROVE  /\ Front(s) \in Seq(S) /\ Len(Front(s)) = Len(s) - 1
         /\ \A k \in 1 .. Len(s) - 1 : Front(s)[k] = s[k]
         /\ Front(s) = <<>> <=> Len(s) = 1
<1>1. PICK n : n = Len(s) - 1
  OBVIOUS
<1>2. n \in Nat /\ 1 \in Int /\ n \in Int /\ Len(s) = n + 1 /\ \A i \in 1 .. n : s[i] \in S
  BY <1>1
<1>3. Front(s) = SubSeq(s, 1, n)
  BY <1>1 DEF Front
<1>4. /\ Front(s) \in Seq(S)
      /\ Len(Front(s)) = IF 1 <= n THEN n - 1 + 1 ELSE 0
      /\ \A i \in 1 .. n - 1 + 1 : Front(s)[i] = s[1 + i - 1]
  <2>1. /\ SubSeq(s, 1, n) \in Seq(S)
        /\ Len(SubSeq(s, 1, n)) = IF 1 <= n THEN n - 1 + 1 ELSE 0
        /\ \A i \in 1 .. n - 1 + 1 : SubSeq(s, 1, n)[i] = s[1 + i - 1]
    BY <1>2, SubSeqProperties
  <2> QED
    BY <1>3, <2>1
<1>5. Len(Front(s)) = n /\ \A k \in 1 .. n : Front(s)[k] = s[k]
  BY <1>2, <1>4
<1> QED
  BY <1>1, <1>2, <1>4, <1>5

\* The library asks for an object that nobody else is busy with.
LEMMA AskStep ==
  ASSUME ProtocolInv, NEW o \in Objects, NEW cmd \in CommandRecords, Ask(o, cmd, toProbe),
         Silent(toProbe), Silent(fromProbe'), DOMAIN fromProbe' = Probes,
         \A q \in Probes : HandlerRests(q), UNCHANGED <<handler, worker, trees>>,
         queries' \in 0 .. MaxQueries,
         \/ queries' = queries + 1
         \/ queries' = queries /\ syschar[o] = "none",
         lib = <<>> => cmd = NoCommand,
         lib # <<>> => /\ Waits(Innermost.id, Innermost.obj)
                       /\ cmd = [id |-> CommandId(Innermost.id), from |-> ProbeOf[Innermost.obj]]
  PROVE  ProtocolInv'
<1>1. PICK m : m = sent + 1
  OBVIOUS
<1>2. /\ TypeInv /\ SentInv /\ LibInv /\ sent \in Nat /\ lib \in Seq(QueryRecords) /\ Len(lib) \in Nat
      /\ queries \in 0 .. MaxQueries /\ DOMAIN toProbe = Probes
      /\ syschar \in [Objects -> {"none", "UNKNOWN", "known"}]
  BY DEF ProtocolInv, TypeInv
<1>3. PICK r : r = [obj |-> o, id |-> m, cmd |-> cmd]
  OBVIOUS
<1>4. /\ sent' = m /\ sent' \in Nat /\ sent < m /\ m \in Nat
      /\ syschar' = [syschar EXCEPT ![o] = "UNKNOWN"]
      /\ lib' = Append(lib, r)
      /\ toProbe' = Put(toProbe, ProbeOf[o], Msg(m, o))
      /\ UNCHANGED <<handler, worker, workers, rcache, commands>>
  BY <1>1, <1>2, <1>3 DEF Ask, Msg, trees
<1>5. r \in QueryRecords /\ r.obj = o /\ r.id = m /\ r.cmd = cmd
  BY <1>3, <1>4 DEF QueryRecords
<1>6. /\ lib' \in Seq(QueryRecords) /\ Len(lib') = Len(lib) + 1 /\ lib'[Len(lib) + 1] = r
      /\ \A k \in 1 .. Len(lib) : lib'[k] = lib[k]
      /\ lib' # <<>>
  BY <1>2, <1>4, <1>5
<1>7. ProbeOf[o] \in Probes
  BY ProtocolAssumption
<1>8. Only(toProbe', ProbeOf[o], Msg(m, o)) /\ DOMAIN toProbe' = Probes
  BY <1>2, <1>4, <1>7, PutSilent
<1>9. TypeInv'
  BY <1>2, <1>4, <1>6, <1>8 DEF TypeInv, Messages
<1>10. SentInv'
  <2>1. Characterised \subseteq Characterised' /\ o \in Characterised'
    BY <1>2, <1>4 DEF Characterised
  <2>2. sent <= queries + Cardinality(Characterised)
    BY <1>2 DEF SentInv, Characterised
  <2>3. syschar[o] = "none" => Characterised # Characterised'
    BY <2>1 DEF Characterised
  <2>4. PICK c, d : c = Cardinality(Characterised) /\ d = Cardinality(Characterised')
    OBVIOUS
  <2>5. c \in Nat /\ d \in Nat /\ c <= d /\ (syschar[o] = "none" => c < d)
    BY <2>1, <2>3, <2>4, CharacterisedGrows
  <2>6. m <= queries' + d
    BY <1>1, <1>2, <2>2, <2>4, <2>5
  <2> QED
    BY <1>4, <2>4, <2>6 DEF SentInv, Characterised
<1>11. m \in Messages /\ worker[m] = NoWorker
  <2>1. {x \in Objects : syschar'[x] # "none"} \in SUBSET Objects
    OBVIOUS
  <2>2. 1 .. m \subseteq Messages
    BY <1>4, <1>9, <1>10, <2>1, EnoughIds DEF TypeInv, SentInv
  <2>3. \A k \in 1 .. Len(lib) : lib[k].id # m
    BY <1>2, <1>4 DEF LibInv
  <2> QED
    BY <1>1, <1>2, <2>2, <2>3 DEF LibInv
<1>12. Fresh(m)
  <2>1. ASSUME NEW q \in Probes, handler[q].pc = "delete_command"
        PROVE  handler[q].packet.id[1] # m
    <3>1. Past(handler[q].packet.id)
      BY <2>1 DEF ProtocolInv, DeleteInv
    <3>2. handler[q].packet.id[1] \in 1 .. sent
      BY <3>1 DEF Past
    <3> QED
      BY <1>2, <1>4, <3>2
  <2> QED
    BY <2>1 DEF Fresh
<1>13. Stage(m, o)'
  <2>1. InMessage(m, o)'
    BY <1>4, <1>8, <1>11, <1>12 DEF InMessage, Silent, Only, HandlerRests, Fresh, Msg
  <2> QED
    BY <2>1 DEF Stage
<1>14. StageInv'
  <2>1. Innermost' = r
    BY <1>6 DEF Innermost
  <2> QED
    BY <1>5, <1>6, <1>13, <2>1 DEF StageInv
<1>15. LibInv'
  <2>1. \A k \in 1 .. Len(lib') : lib'[k].id \in 1 .. sent'
    BY <1>2, <1>4, <1>5, <1>6 DEF LibInv
  <2>2. \A j, k \in 1 .. Len(lib') : lib'[j].id = lib'[k].id => j = k
    <3>1. \A k \in 1 .. Len(lib) : lib[k].id # m
      BY <1>2, <1>4 DEF LibInv
    <3>2. \A j, k \in 1 .. Len(lib) : lib[j].id = lib[k].id => j = k
      BY <1>2 DEF LibInv
    <3> QED
      BY <1>2, <1>5, <1>6, <3>1, <3>2
  <2>3. lib'[1].cmd = NoCommand
    <3>1. CASE lib = <<>>
      BY <1>2, <1>5, <1>6, <3>1
    <3>2. CASE lib # <<>>
      BY <1>2, <1>6, <3>2 DEF LibInv
    <3> QED
      BY <3>1, <3>2
  <2>4. ASSUME NEW k \in 1 .. Len(lib)
        PROVE  /\ Waits(lib[k].id, lib[k].obj)
               /\ lib'[k + 1].cmd = [id   |-> CommandId(lib[k].id), from |-> ProbeOf[lib[k].obj]]
    <3>1. CASE k \in Outer
      <4>1. lib'[k + 1] = lib[k + 1]
        BY <1>2, <1>6, <3>1 DEF Outer
      <4> QED
        BY <1>2, <3>1, <4>1 DEF LibInv
    <3>2. CASE k \notin Outer
      <4>1. k = Len(lib) /\ lib # <<>>
        BY <1>2, <3>2 DEF Outer
      <4> QED
        BY <1>5, <1>6, <4>1 DEF Innermost
    <3> QED
      BY <3>1, <3>2
  <2>5. Outer' = 1 .. Len(lib)
    BY <1>2, <1>6 DEF Outer
  <2>6. ASSUME NEW k \in Outer'
        PROVE  /\ Waits(lib[k].id, lib[k].obj)'
               /\ lib'[k + 1].cmd = [id   |-> CommandId(lib[k].id)', from |-> ProbeOf[lib'[k].obj]]
    BY <1>4, <1>6, <2>4, <2>5 DEF Waits, Works, CommandId, Messages
  <2>7. \A n \in Messages : worker'[n] # NoWorker => \E k \in 1 .. Len(lib') : lib'[k].id = n
    BY <1>2, <1>4, <1>6 DEF LibInv
  <2> QED
    BY <2>1, <2>2, <2>3, <2>6, <2>7 DEF LibInv, Messages
<1>16. DeleteInv'
  <2>1. \A n \in Messages : Later(n)
    BY <1>4 DEF Later
  <2>2. sent <= sent' /\ \A q \in Probes : handler'[q].pc = "delete_command" => handler'[q] = handler[q]
    BY <1>2, <1>4
  <2> QED
    BY <1>4, <2>1, <2>2, DeleteKept
<1> QED
  BY <1>9, <1>10, <1>14, <1>15, <1>16 DEF ProtocolInv

LEMMA QueryStep ==
  ASSUME ProtocolInv, NEW o \in Objects, Query(o)
  PROVE  ProtocolInv'
<1>1. /\ lib = <<>> /\ queries' = queries + 1 /\ queries < MaxQueries /\ Ask(o, NoCommand, toProbe)
      /\ UNCHANGED <<handler, worker, trees>> /\ fromProbe' = fromProbe
  BY DEF Query
<1>2. /\ queries' \in 0 .. MaxQueries /\ DOMAIN fromProbe' = Probes
  BY <1>1, ProtocolAssumption DEF ProtocolInv, TypeInv
<1>3. Silent(toProbe) /\ Silent(fromProbe') /\ \A q \in Probes : HandlerRests(q)
  BY <1>1 DEF ProtocolInv, StageInv
<1>4. NoCommand \in CommandRecords
  BY DEF CommandRecords
<1> QED
  BY <1>1, <1>2, <1>3, <1>4, AskStep


\* What the library receives is from the worker or the handler of the
\* innermost query, and nothing else is under way.
LEMMA Received ==
  ASSUME ProtocolInv, NEW type, NEW packet, Receives(type, packet)
  PROVE  \E m \in Messages, o \in Objects :
            /\ m = Innermost.id /\ o = Innermost.obj /\ lib # <<>> /\ ProbeOf[o] \in Probes
            /\ m \in 1 .. sent
            /\ Silent(fromProbe') /\ DOMAIN fromProbe' = Probes
            /\ Silent(toProbe) /\ \A q \in Probes : HandlerRests(q)
            /\ \/ type = "CMD" /\ InCommand(m, o) /\ packet = Cmd(m, o)
               \/ type \in {"MSG", "ERR"} /\ InReply(m, o)
<1>1. lib # <<>>
  BY DEF Receives
<1>2. PICK m \in Messages, o \in Objects : m = Innermost.id /\ o = Innermost.obj /\ ProbeOf[o] \in Probes
                                           /\ m \in 1 .. sent
  BY <1>1, InnermostType
<1>3. /\ fromProbe[ProbeOf[o]] # <<>> /\ Head(fromProbe[ProbeOf[o]]) = packet /\ packet.type = type
      /\ fromProbe' = Take(fromProbe, ProbeOf[o])
  BY <1>2 DEF Receives
<1>4. InCommand(m, o) \/ InReply(m, o)
  BY <1>2, <1>3, PacketFromProbe
<1>5. PICK x : /\ Only(fromProbe, ProbeOf[o], x)
               /\ \/ InCommand(m, o) /\ x = Cmd(m, o)
                  \/ \E t \in {"MSG", "ERR"} : InReply(m, o) /\ x = FinalReply(m, t)
  BY <1>4 DEF InCommand, InReply
<1>6. packet = x
  BY <1>3, <1>5, OnePacket DEF Only
<1>7. Silent(fromProbe') /\ DOMAIN fromProbe' = Probes
  <2>1. DOMAIN fromProbe = Probes
    BY DEF ProtocolInv, TypeInv
  <2> QED
    BY <1>2, <1>3, <1>5, <2>1, TakeOnly
<1>8. \/ type = "CMD" /\ InCommand(m, o) /\ packet = Cmd(m, o)
      \/ type \in {"MSG", "ERR"} /\ InReply(m, o)
  BY <1>3, <1>5, <1>6 DEF Cmd, FinalReply
<1>9. Silent(toProbe) /\ \A q \in Probes : HandlerRests(q)
  BY <1>4 DEF InCommand, InReply
<1> QED
  BY <1>1, <1>2, <1>7, <1>8, <1>9

LEMMA LibAsksStep ==
  ASSUME ProtocolInv, LibAsks
  PROVE  ProtocolInv'
<1>1. PICK packet : /\ Receives("CMD", packet)
                    /\ packet.need \in Objects /\ syschar[packet.need] = "none"
                    /\ Ask(packet.need, [id |-> packet.id, from |-> packet.from], toProbe)
                    /\ UNCHANGED <<queries, handler, worker, trees>>
  BY DEF LibAsks
<1>2. PICK m \in Messages, o \in Objects :
            /\ m = Innermost.id /\ o = Innermost.obj /\ lib # <<>> /\ ProbeOf[o] \in Probes
            /\ m \in 1 .. sent
            /\ Silent(fromProbe') /\ DOMAIN fromProbe' = Probes
            /\ Silent(toProbe) /\ \A q \in Probes : HandlerRests(q)
            /\ InCommand(m, o) /\ packet = Cmd(m, o)
  BY <1>1, Received
<1>3. packet.id = CommandId(m) /\ packet.from = ProbeOf[o]
  BY <1>2 DEF Cmd
<1>4. PICK cmd : cmd = [id |-> packet.id, from |-> packet.from]
  OBVIOUS
<1>5. cmd = [id |-> CommandId(m), from |-> ProbeOf[o]]
  BY <1>3, <1>4
<1>6. Waits(m, o)
  BY <1>2 DEF InCommand
<1>7. cmd \in CommandRecords
  <2>1. m \in Nat /\ worker[m].need \in Nat
    BY <1>2, <1>6 DEF Waits, Works, WorkerRecords
  <2>2. CommandId(m) \in Nat \X Nat
    BY <2>1 DEF CommandId
  <2> QED
    BY <1>2, <1>5, <2>2 DEF CommandRecords
<1>8. queries' \in 0 .. MaxQueries /\ queries' = queries
  BY <1>1 DEF ProtocolInv, TypeInv
<1>9. PICK n \in Objects : n = packet.need
  BY <1>1
<1>10. Ask(n, cmd, toProbe) /\ syschar[n] = "none" /\ UNCHANGED <<handler, worker, trees>>
  BY <1>1, <1>4, <1>9
<1> QED
  BY <1>2, <1>5, <1>6, <1>7, <1>8, <1>10, AskStep

\* The library answers a command.
LEMMA AnswerStage ==
  ASSUME ProtocolInv, NEW m \in Messages, NEW o \in Objects, NEW ok \in BOOLEAN, ProbeOf[o] \in Probes,
         Waits(m, o), Silent(fromProbe'), Silent(toProbe), \A q \in Probes : HandlerRests(q),
         UNCHANGED <<handler, worker, commands>>,
         toProbe' = Put(toProbe, ProbeOf[o], Answer(m, ok))
  PROVE  Stage(m, o)' /\ DOMAIN toProbe' = Probes
<1>1. DOMAIN toProbe = Probes
  BY DEF ProtocolInv, TypeInv
<1>2. PICK x : x = Answer(m, ok)
  OBVIOUS
<1>3. Only(toProbe', ProbeOf[o], x) /\ DOMAIN toProbe' = Probes
  BY <1>1, <1>2, PutSilent
<1>4. Waits(m, o)' /\ Answer(m, ok)' = x
  BY <1>2 DEF Waits, Works, CommandId, Answer, Messages
<1>5. InAnswer(m, o)'
  BY <1>3, <1>4 DEF InAnswer, Silent, Only, HandlerRests
<1> QED
  BY <1>3, <1>5 DEF Stage

\* An answer or a reply may set the flag of an object; no flag is cleared.
LEMMA SentKept ==
  ASSUME ProtocolInv, UNCHANGED <<sent, queries>>,
         \A o \in Objects : syschar[o] # "none" => syschar'[o] # "none"
  PROVE  SentInv'
<1>1. PICK c, d : c = Cardinality(Characterised) /\ d = Cardinality(Characterised')
  OBVIOUS
<1>2. Characterised \subseteq Characterised'
  BY DEF Characterised
<1>3. c \in Nat /\ d \in Nat /\ c <= d
  BY <1>1, <1>2, CharacterisedGrows
<1>4. sent <= queries + c /\ sent \in Nat /\ queries \in 0 .. MaxQueries
  BY <1>1 DEF ProtocolInv, SentInv, TypeInv, Characterised
<1>5. sent <= queries + d
  BY <1>3, <1>4
<1> QED
  BY <1>1, <1>5 DEF SentInv, Characterised

LEMMA LibAnswersStep ==
  ASSUME ProtocolInv, LibAnswers
  PROVE  ProtocolInv'
<1>0. PICK packet \in Incoming :
            /\ Receives("CMD", packet)
            /\ \E ok \in BOOLEAN : toProbe' = Put(toProbe, packet.from, [type |-> "ANSWER", id |-> packet.id, ok |-> ok])
            /\ syschar' = [o \in Objects |-> IF o = packet.need /\ syschar[o] = "none" THEN "UNKNOWN" ELSE syschar[o]]
            /\ UNCHANGED <<lib, sent, queries, handler, worker, trees>>
  BY DEF LibAnswers
<1>1. PICK ok \in BOOLEAN :
            /\ Receives("CMD", packet)
            /\ toProbe' = Put(toProbe, packet.from, [type |-> "ANSWER", id |-> packet.id, ok |-> ok])
            /\ syschar' = [o \in Objects |-> IF o = packet.need /\ syschar[o] = "none" THEN "UNKNOWN" ELSE syschar[o]]
            /\ UNCHANGED <<lib, sent, queries, handler, worker, trees>>
  BY <1>0
<1>2. PICK m \in Messages, o \in Objects :
            /\ m = Innermost.id /\ o = Innermost.obj /\ lib # <<>> /\ ProbeOf[o] \in Probes
            /\ m \in 1 .. sent
            /\ Silent(fromProbe') /\ DOMAIN fromProbe' = Probes
            /\ Silent(toProbe) /\ \A q \in Probes : HandlerRests(q)
            /\ InCommand(m, o) /\ packet = Cmd(m, o)
  BY <1>1, Received
<1>3. packet.id = CommandId(m) /\ packet.from = ProbeOf[o]
  BY <1>2 DEF Cmd
<1>4. /\ toProbe' = Put(toProbe, ProbeOf[o], Answer(m, ok))
      /\ UNCHANGED <<lib, sent, queries, handler, worker, workers, rcache, commands>>
  BY <1>1, <1>3 DEF Answer, trees
<1>5. Stage(m, o)' /\ DOMAIN toProbe' = Probes
  <2>1. Waits(m, o)
    BY <1>2 DEF InCommand
  <2> QED
    BY <1>2, <1>4, <2>1, AnswerStage
<1>6. TypeInv /\ sent \in Nat /\ syschar \in [Objects -> {"none", "UNKNOWN", "known"}]
  BY DEF ProtocolInv, TypeInv
<1>7. /\ syschar' \in [Objects -> {"none", "UNKNOWN", "known"}]
      /\ \A x \in Objects : syschar[x] # "none" => syschar'[x] # "none"
  BY <1>1, <1>6
<1>8. TypeInv'
  BY <1>2, <1>4, <1>5, <1>6, <1>7 DEF TypeInv, Messages
<1>9. SentInv'
  BY <1>4, <1>7, SentKept
<1>10. StageInv'
  BY <1>2, <1>4, <1>5 DEF StageInv, Innermost
<1>11. LibInv'
  BY <1>2, <1>4, OuterKept
<1>12. DeleteInv'
  <2>1. \A n \in Messages : Later(n)
    BY <1>4 DEF Later
  <2>2. sent <= sent' /\ sent' \in Nat
        /\ \A q \in Probes : handler'[q].pc = "delete_command" => handler'[q] = handler[q]
    BY <1>4, <1>6
  <2> QED
    BY <2>1, <2>2, DeleteKept
<1> QED
  BY <1>8, <1>9, <1>10, <1>11, <1>12 DEF ProtocolInv

\* The innermost query ends, and the library goes on with the one around it:
\* the answer is for its command.
LEMMA QueryEndsStep ==
  ASSUME ProtocolInv, NEW type \in {"MSG", "ERR"}, NEW packet, NEW ok \in BOOLEAN,
         Receives(type, packet), QueryEnds(ok)
  PROVE  ProtocolInv'
<1>1. PICK m \in Messages, o \in Objects :
            /\ m = Innermost.id /\ o = Innermost.obj /\ lib # <<>> /\ ProbeOf[o] \in Probes
            /\ m \in 1 .. sent
            /\ Silent(fromProbe') /\ DOMAIN fromProbe' = Probes
            /\ Silent(toProbe) /\ \A q \in Probes : HandlerRests(q)
            /\ InReply(m, o)
  BY Received
<1>2. /\ UNCHANGED <<sent, queries, handler, worker, workers, rcache, commands>>
      /\ lib' = Front(lib)
  BY DEF QueryEnds, trees
<1>3. /\ TypeInv /\ LibInv /\ sent \in Nat /\ lib \in Seq(QueryRecords) /\ Len(lib) \in Nat \ {0}
      /\ syschar \in [Objects -> {"none", "UNKNOWN", "known"}] /\ DOMAIN toProbe = Probes
  BY <1>1, InnermostType DEF ProtocolInv, TypeInv
<1>4. /\ lib' \in Seq(QueryRecords) /\ Len(lib') = Len(lib) - 1
      /\ \A k \in 1 .. Len(lib) - 1 : lib'[k] = lib[k]
      /\ lib' = <<>> <=> Len(lib) = 1
  BY <1>1, <1>2, <1>3, FrontOfSeq
<1>5. worker[m] = NoWorker
  BY <1>1 DEF InReply
<1>6. /\ syschar' \in [Objects -> {"none", "UNKNOWN", "known"}]
      /\ \A x \in Objects : syschar[x] # "none" => syschar'[x] # "none"
  <2>1. syschar' = syschar \/ syschar' = [syschar EXCEPT ![o] = "known"]
    BY <1>1 DEF QueryEnds
  <2> QED
    BY <1>3, <2>1
<1>7. SentInv'
  BY <1>2, <1>6, SentKept
<1>8. DeleteInv'
  <2>1. \A n \in Messages : Later(n)
    BY <1>2 DEF Later
  <2>2. sent <= sent' /\ sent' \in Nat
        /\ \A q \in Probes : handler'[q].pc = "delete_command" => handler'[q] = handler[q]
    BY <1>2, <1>3
  <2> QED
    BY <2>1, <2>2, DeleteKept
<1>9. LibInv'
  <2>1. \A k \in 1 .. Len(lib') : k \in 1 .. Len(lib) /\ lib'[k] = lib[k]
    BY <1>3, <1>4
  <2>2. /\ \A k \in 1 .. Len(lib') : lib'[k].id \in 1 .. sent'
        /\ \A j, k \in 1 .. Len(lib') : lib'[j].id = lib'[k].id => j = k
    BY <1>2, <1>3, <2>1 DEF LibInv
  <2>3. lib' # <<>> => lib'[1].cmd = NoCommand
    BY <1>1, <1>3, <1>4 DEF LibInv
  <2>4. ASSUME NEW k \in Outer'
        PROVE  /\ Waits(lib[k].id, lib[k].obj)'
               /\ lib'[k + 1].cmd = [id   |-> CommandId(lib[k].id)', from |-> ProbeOf[lib'[k].obj]]
    <3>1. k \in Outer /\ lib'[k] = lib[k] /\ lib'[k + 1] = lib[k + 1]
      BY <1>3, <1>4 DEF Outer
    <3> QED
      BY <1>2, <1>3, <3>1 DEF LibInv, Waits, Works, CommandId, Messages
  <2>5. ASSUME NEW n \in Messages, worker'[n] # NoWorker
        PROVE  \E k \in 1 .. Len(lib') : lib'[k].id = n
    <3>1. PICK k \in 1 .. Len(lib) : lib[k].id = n
      BY <1>2, <1>3, <2>5 DEF LibInv
    <3>2. k # Len(lib)
      BY <1>1, <1>2, <1>5, <2>5, <3>1 DEF Innermost
    <3> QED
      BY <1>3, <1>4, <3>1, <3>2
  <2> QED
    BY <2>2, <2>3, <2>4, <2>5 DEF LibInv, Messages
<1>10. StageInv' /\ DOMAIN toProbe' = Probes
  <2>1. CASE Len(lib) = 1
    <3>1. lib' = <<>> /\ Innermost.cmd = NoCommand
      BY <1>1, <1>3, <1>4, <2>1 DEF LibInv, Innermost
    <3>2. toProbe' = toProbe
      BY <3>1 DEF QueryEnds
    <3> QED
      BY <1>1, <1>2, <1>3, <3>1, <3>2 DEF StageInv, Silent, HandlerRests
  <2>2. CASE Len(lib) # 1
    <3>1. PICK k : k = Len(lib) - 1
      OBVIOUS
    <3>2. k \in Outer /\ k + 1 = Len(lib) /\ k = Len(lib') /\ lib'[k] = lib[k]
      BY <1>3, <1>4, <2>2, <3>1 DEF Outer
    <3>3. Waits(lib[k].id, lib[k].obj)
      BY <1>3, <3>2 DEF LibInv
    <3>4. PICK n \in Messages, x \in Objects : n = lib[k].id /\ x = lib[k].obj /\ Waits(n, x)
      BY <3>3 DEF Waits, Works, WorkerRecords
    <3>5. Innermost.cmd = [id |-> CommandId(n), from |-> ProbeOf[x]]
      BY <1>3, <3>2, <3>4 DEF LibInv, Innermost
    <3>6. Innermost.cmd.id = CommandId(n) /\ Innermost.cmd.from = ProbeOf[x]
      BY <3>5
    <3>7. Innermost.cmd # NoCommand
      <4>1. n \in 1 .. sent
        BY <1>3, <3>2, <3>4 DEF LibInv, Outer
      <4>2. CommandId(n) # <<0, 0>>
        BY <1>3, <4>1 DEF CommandId
      <4> QED
        BY <3>6, <4>2 DEF NoCommand
    <3>8. toProbe' = Put(toProbe, ProbeOf[x], Answer(n, ok))
      BY <3>6, <3>7 DEF QueryEnds, Answer
    <3>9. Stage(n, x)' /\ DOMAIN toProbe' = Probes
      <4>1. ProbeOf[x] \in Probes
        BY ProtocolAssumption
      <4> QED
        BY <1>1, <1>2, <3>4, <3>8, <4>1, AnswerStage
    <3>10. lib' # <<>> /\ Innermost' = lib[k]
      BY <1>4, <2>2, <3>2 DEF Innermost
    <3> QED
      BY <3>4, <3>9, <3>10 DEF StageInv
  <2> QED
    BY <2>1, <2>2
<1>11. TypeInv'
  BY <1>1, <1>2, <1>3, <1>4, <1>6, <1>10 DEF TypeInv, Messages
<1> QED
  BY <1>7, <1>8, <1>9, <1>10, <1>11 DEF ProtocolInv

-----------------------------------------------------------------------------
(***************************************************************************)
(* The invariant, and what follows from it.                                *)
(***************************************************************************)
LEMMA InitEstablishes ==
  ASSUME Init
  PROVE  ProtocolInv
<1>1. TypeInv
  BY ProtocolAssumption DEF Init, TypeInv
<1>2. SentInv
  <2>1. {o \in Objects : syschar[o] # "none"} = {}
    BY DEF Init
  <2> QED
    <3>1. Cardinality({o \in Objects : syschar[o] # "none"}) = 0
      BY <2>1, FS_EmptySet
    <3>2. sent = 0 /\ queries = 0
      BY DEF Init
    <3> QED
      BY <3>1, <3>2 DEF SentInv
<1>3. StageInv
  BY DEF Init, StageInv, Silent, HandlerRests, Idle
<1>4. LibInv
  BY DEF Init, LibInv, Outer
<1>5. DeleteInv
  BY DEF Init, DeleteInv, Idle
<1> QED
  BY <1>1, <1>2, <1>3, <1>4, <1>5 DEF ProtocolInv

LEMMA NextKeeps ==
  ASSUME ProtocolInv, [Next]_vars
  PROVE  ProtocolInv'
<1>1. CASE UNCHANGED vars
  <2>1. UNCHANGED <<lib, syschar, sent, queries, toProbe, fromProbe, handler, worker, workers, rcache, commands>>
    BY <1>1 DEF vars
  <2>2. UNCHANGED <<library, toProbe, fromProbe>>
    BY <2>1 DEF library
  <2>3. TypeInv'
    BY <2>1 DEF ProtocolInv, TypeInv, Messages
  <2>4. \A n \in Messages, o \in Objects : Waits(n, o) => Waits(n, o)'
    BY <2>1 DEF Waits, Works, CommandId, Messages
  <2>5. \A n \in Messages : /\ CommandId(n)' = CommandId(n) /\ Need(n)' = Need(n) /\ Later(n)
                            /\ worker'[n] = worker[n]
    BY <2>1 DEF CommandId, Need, Later
  <2>6. \A q \in Probes : /\ HandlerRests(q) => HandlerRests(q)'
                          /\ handler'[q] = handler[q]
    BY <2>1 DEF HandlerRests
  <2> QED
    BY <2>2, <2>3, <2>4, <2>5, <2>6, NobodyDisturbed
<1>2. ASSUME NEW o \in Objects, Query(o)
      PROVE  ProtocolInv'
  BY <1>2, QueryStep
<1>3. CASE Library
  <2>1. CASE LibReply
    BY <2>1, QueryEndsStep DEF LibReply
  <2>2. CASE LibError
    BY <2>2, QueryEndsStep DEF LibError
  <2> QED
    BY <1>3, <2>1, <2>2, LibAnswersStep, LibAsksStep DEF Library
<1>4. ASSUME NEW p \in Probes, Handler(p)
      PROVE  ProtocolInv'
  BY <1>4, ReceiveStep, LookupStep, SkipEvalStep, StartWorkerStep, FindCommandStep, SignalStep,
     DeleteCommandStep DEF Handler
<1>5. ASSUME NEW m \in Messages, Worker(m)
      PROVE  ProtocolInv'
  BY <1>5, LocalSteps, SendCommandStep, WaitStep, ReplyStep DEF Worker
<1> QED
  BY <1>1, <1>2, <1>3, <1>4, <1>5 DEF Next

\* At any time one thread or packet carries the innermost query on, and the
\* workers of the queries around it wait for registered commands.
THEOREM ProtocolInvariance == Spec => []ProtocolInv
<1>1. Init => ProtocolInv
  BY InitEstablishes
<1>2. ProtocolInv /\ [Next]_vars => ProtocolInv'
  BY NextKeeps
<1> QED
  BY <1>1, <1>2, PTL DEF Spec


\* A message or an error that the library receives answers the query it is
\* taken for, although no reply-id is compared.
THEOREM RepliesMatch == Spec => []ReplyMatches
<1>1. ProtocolInv => ReplyMatches
  <2> SUFFICES ASSUME ProtocolInv, NEW p \in Probes, NEW k \in DOMAIN fromProbe[p],
                      fromProbe[p][k].type # "CMD"
               PROVE  /\ lib # <<>>
                      /\ fromProbe[p][k].id = Innermost.id
                      /\ ProbeOf[Innermost.obj] = p
    BY DEF ReplyMatches
  <2>1. fromProbe[p] # <<>>
    OBVIOUS
  <2>2. /\ lib # <<>> /\ ProbeOf[Innermost.obj] = p
        /\ InCommand(Innermost.id, Innermost.obj) \/ InReply(Innermost.id, Innermost.obj)
    BY <2>1, PacketFromProbe
  <2>3. PICK x : /\ fromProbe[p] = <<x>>
                 /\ \/ x = Cmd(Innermost.id, Innermost.obj)
                    \/ \E type \in {"MSG", "ERR"} : x = FinalReply(Innermost.id, type)
    BY <2>2 DEF InCommand, InReply, Only
  <2>4. fromProbe[p][k] = x
    BY <2>3
  <2>5. x.id = Innermost.id
    BY <2>3, <2>4 DEF Cmd, FinalReply
  <2> QED
    BY <2>2, <2>4, <2>5
<1> QED
  BY <1>1, ProtocolInvariance, PTL

\* The threads of a probe are inside its trees one at a time when one of them
\* writes, although no tree is locked.
THEOREM TreesAreExclusive == Spec => []TreesExclusive
<1>1. ASSUME ProtocolInv, NEW p \in Probes
      PROVE  /\ Exclusive(HandlersAt(p, {"add_worker"}) \cup WorkersAt(p, {"delete_worker"}), {})
             /\ Exclusive(HandlersAt(p, {"add_result"}) \cup WorkersAt(p, {"add_result", "add_states"}),
                          HandlersAt(p, {"get_result"}) \cup WorkersAt(p, {"get_result"}))
  <2>1. CASE \E m \in Messages : worker[m].pc \in RunStates
    <3>1. PICK m \in Messages : worker[m].pc \in RunStates
      BY <2>1
    <3>2. \A n \in Messages : worker[n].pc \in RunStates => n = m
      BY <1>1, <3>1, RunningWorker
    <3>3. HandlerRests(p)
      BY <1>1, <3>1, WorkerOfMessage
    <3>4. /\ HandlersAt(p, {"add_worker"}) = {} /\ HandlersAt(p, {"add_result"}) = {}
          /\ HandlersAt(p, {"get_result"}) = {}
      BY <3>3 DEF HandlersAt, HandlerRests
    <3>5. /\ WorkersAt(p, {"delete_worker"}) \subseteq {m}
          /\ WorkersAt(p, {"add_result", "add_states"}) \subseteq {m}
          /\ WorkersAt(p, {"get_result"}) \subseteq {m}
      BY <3>2 DEF WorkersAt, RunStates
    <3>6. m \in WorkersAt(p, {"add_result", "add_states"}) => m \notin WorkersAt(p, {"get_result"})
      BY DEF WorkersAt
    <3>7. Cardinality({m}) = 1
      BY FS_Singleton
    <3> QED
      BY <3>4, <3>5, <3>6, <3>7 DEF Exclusive
  <2>2. CASE ~\E m \in Messages : worker[m].pc \in RunStates
    <3>1. /\ WorkersAt(p, {"delete_worker"}) = {}
          /\ WorkersAt(p, {"add_result", "add_states"}) = {}
          /\ WorkersAt(p, {"get_result"}) = {}
      BY <2>2 DEF WorkersAt, RunStates
    <3>2. /\ HandlersAt(p, {"add_worker"}) \in {{}, {0}}
          /\ HandlersAt(p, {"add_result"}) \in {{}, {0}}
          /\ HandlersAt(p, {"add_result"}) # {} => HandlersAt(p, {"get_result"}) = {}
      BY DEF HandlersAt
    <3>3. Cardinality({0}) = 1
      BY FS_Singleton
    <3> QED
      BY <3>1, <3>2, <3>3 DEF Exclusive
  <2> QED
    BY <2>1, <2>2
<1>2. ProtocolInv => TreesExclusive
  BY <1>1 DEF TreesExclusive
<1> QED
  BY <1>2, ProtocolInvariance, PTL


=============================================================================
