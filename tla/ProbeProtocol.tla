---------------------------- MODULE ProbeProtocol ----------------------------
(***************************************************************************)
(* The library and its probes: oval_probe_comm and the command handlers of *)
(* oval_probe_ext.c, the probe's input handler (probe/input_handler.c), its*)
(* workers (probe/worker.c) and synchronous commands (SEAP/seap-command.c).*)
(*                                                                         *)
(* Every probe runs in threads of its own and is reached through two FIFO  *)
(* queues (SEAP/sch_queue.c).  The library has one thread.  It sends the   *)
(* object to be collected and receives until a message or an error comes;  *)
(* commands that come first are served at once, and serving one may send   *)
(* the next object, to the same probe too.  The input handler answers from *)
(* the result cache or starts a worker; it also receives the answers to    *)
(* the commands of the workers and wakes them up.                          *)
(*                                                                         *)
(* None of the red-black trees these threads share is locked (rbt_wlock is *)
(* empty), so an operation on a tree is a state of its thread: the thread  *)
(* is inside, and its next step leaves with the effect.                    *)
(*                                                                         *)
(* Abstracted: what is collected (SetObject).  Not modelled: allocation    *)
(* failures, a thread that cannot be created, spurious wake-ups, states    *)
(* whose variables need objects, the reset and abort of a session.         *)
(***************************************************************************)
EXTENDS Integers, FiniteSets, SequencesExt

CONSTANTS Objects, Probes,
          ProbeOf,      \* [Objects -> Probes]
          Needs,        \* [Objects -> what a worker looks up in turn: object and state ids]
          Skipped,      \* objects sent with skip_eval
          MaxQueries    \* bound: queries of the evaluation of definitions

ASSUME ProtocolAssumption ==
    /\ IsFiniteSet(Objects)
    /\ ProbeOf \in [Objects -> Probes]
    /\ Skipped \subseteq Objects
    /\ MaxQueries \in Nat \ {0}

VARIABLES lib,        \* queries under way in the library, the innermost last
          syschar,    \* flag of the library's system characteristics of an object
          sent,       \* number of messages sent: the next message id
          queries,    \* number of queries of the evaluation so far
          toProbe, fromProbe,   \* the queues
          handler,    \* the input handlers
          worker,     \* the workers, by the id of their message
          workers,    \* probe->workers
          rcache,     \* probe->rcache
          commands    \* dsc->cmd_w_table: commands that wait for an answer

vars == <<lib, syschar, sent, queries, toProbe, fromProbe, handler, worker, workers, rcache, commands>>

library == <<lib, syschar, sent, queries>>
trees == <<workers, rcache, commands>>

Messages == 1 .. MaxQueries + Cardinality(Objects)
NoWorker == [pc |-> "none"]
Idle == [pc |-> "receive", packet |-> [type |-> "none"]]

Init ==
    /\ lib = <<>>
    /\ syschar = [o \in Objects |-> "none"]
    /\ sent = 0
    /\ queries = 0
    /\ toProbe = [p \in Probes |-> <<>>]
    /\ fromProbe = [p \in Probes |-> <<>>]
    /\ handler = [p \in Probes |-> Idle]
    /\ worker = [m \in Messages |-> NoWorker]
    /\ workers = [p \in Probes |-> {}]
    /\ rcache = [p \in Probes |-> {}]
    /\ commands = [p \in Probes |-> {}]

Put(queue, p, packet) == [queue EXCEPT ![p] = Append(@, packet)]
Take(queue, p) == [queue EXCEPT ![p] = Tail(@)]

-----------------------------------------------------------------------------
(* The library *)

Innermost == lib[Len(lib)]

\* oval_probe_comm: the object is sent and the library waits for a reply.
Ask(o, cmd, queue) ==
    /\ sent' = sent + 1
    /\ syschar' = [syschar EXCEPT ![o] = "UNKNOWN"]
    /\ lib' = Append(lib, [obj |-> o, id |-> sent + 1, cmd |-> cmd])
    /\ toProbe' = Put(queue, ProbeOf[o], [type |-> "MSG", id |-> sent + 1, obj |-> o])

NoCommand == [id |-> <<0, 0>>]

\* oval_probe_query_object called by the evaluation of a test: the object is
\* asked for unless an earlier reply has set its flag.
Query(o) ==
    /\ lib = <<>>
    /\ queries < MaxQueries
    /\ syschar[o] # "known"
    /\ queries' = queries + 1
    /\ Ask(o, NoCommand, toProbe)
    /\ UNCHANGED <<fromProbe, handler, worker, trees>>

\* The library receives from the probe of its innermost query.
Receives(type, packet) ==
    /\ lib # <<>>
    /\ LET p == ProbeOf[Innermost.obj]
       IN  /\ fromProbe[p] # <<>>
           /\ Head(fromProbe[p]) = packet
           /\ packet.type = type
           /\ fromProbe' = Take(fromProbe, p)

Incoming == {Head(fromProbe[p]) : p \in {q \in Probes : fromProbe[q] # <<>>}}

\* The query ends.  One that served a command answers it: with NULL if the
\* query failed (oval_probe_cmd_obj_eval).
QueryEnds(ok) ==
    /\ lib' = Front(lib)
    /\ IF Innermost.cmd = NoCommand
       THEN /\ syschar' = IF ok THEN [syschar EXCEPT ![Innermost.obj] = "known"] ELSE syschar
            /\ toProbe' = toProbe
       ELSE /\ toProbe' = Put(toProbe, Innermost.cmd.from, [type |-> "ANSWER", id |-> Innermost.cmd.id, ok |-> ok])
            /\ syschar' = syschar
    /\ UNCHANGED <<sent, queries, handler, worker, trees>>

LibReply == \E packet \in Incoming : Receives("MSG", packet) /\ QueryEnds(TRUE)
LibError == \E packet \in Incoming : Receives("ERR", packet) /\ QueryEnds(FALSE)

\* oval_probe_cmd_ste_fetch, and oval_probe_cmd_obj_eval for an object that
\* has system characteristics already, has no probe or cannot be converted.
LibAnswers ==
    \E packet \in Incoming :
        /\ Receives("CMD", packet)
        /\ \E ok \in IF packet.need \in Objects /\ syschar[packet.need] # "none" THEN {TRUE} ELSE BOOLEAN :
              toProbe' = Put(toProbe, packet.from, [type |-> "ANSWER", id |-> packet.id, ok |-> ok])
        /\ syschar' = [o \in Objects |-> IF o = packet.need /\ syschar[o] = "none" THEN "UNKNOWN" ELSE syschar[o]]
        /\ UNCHANGED <<lib, sent, queries, handler, worker, trees>>

\* oval_probe_cmd_obj_eval for an object that was never asked for.
LibAsks ==
    \E packet \in Incoming :
        /\ Receives("CMD", packet)
        /\ packet.need \in Objects
        /\ syschar[packet.need] = "none"
        /\ Ask(packet.need, [id |-> packet.id, from |-> packet.from], toProbe)
        /\ UNCHANGED <<queries, handler, worker, trees>>

Library == LibReply \/ LibError \/ LibAnswers \/ LibAsks

-----------------------------------------------------------------------------
(* The input handler of probe p *)

HandlerAt(p, pc) == handler[p].pc = pc
HandlerGoes(p, pc) == handler' = [handler EXCEPT ![p].pc = pc]
HandlerDone(p) == handler' = [handler EXCEPT ![p] = Idle]
Packet(p) == handler[p].packet

\* SEAP_recvmsg; an answer to a command is looked up in the command table.
Receive(p) ==
    /\ HandlerAt(p, "receive")
    /\ toProbe[p] # <<>>
    /\ handler' = [handler EXCEPT ![p] = [pc     |-> IF Head(toProbe[p]).type = "MSG" THEN "get_result" ELSE "get_command",
                                          packet |-> Head(toProbe[p])]]
    /\ toProbe' = Take(toProbe, p)
    /\ UNCHANGED <<library, fromProbe, worker, trees>>

\* probe_rcache_sexp_get: a hit is the reply.
Lookup(p) ==
    /\ HandlerAt(p, "get_result")
    /\ IF Packet(p).obj \in rcache[p]
       THEN HandlerDone(p) /\ fromProbe' = Put(fromProbe, p, [type |-> "MSG", id |-> Packet(p).id])
       ELSE /\ HandlerGoes(p, IF Packet(p).obj \in Skipped THEN "add_result" ELSE "add_worker")
            /\ fromProbe' = fromProbe
    /\ UNCHANGED <<library, toProbe, worker, trees>>

\* skip_eval: the empty result is cached and is the reply.
SkipEval(p) ==
    /\ HandlerAt(p, "add_result")
    /\ rcache' = [rcache EXCEPT ![p] = @ \cup {Packet(p).obj}]
    /\ fromProbe' = Put(fromProbe, p, [type |-> "MSG", id |-> Packet(p).id])
    /\ HandlerDone(p)
    /\ UNCHANGED <<library, toProbe, worker, workers, commands>>

\* rbt_i32_add, pthread_create
StartWorker(p) ==
    /\ HandlerAt(p, "add_worker")
    /\ workers' = [workers EXCEPT ![p] = @ \cup {Packet(p).id}]
    /\ worker' = [worker EXCEPT ![Packet(p).id] =
                     [pc |-> "run", obj |-> Packet(p).obj, need |-> 1, answer |-> "none", ret |-> 0]]
    /\ HandlerDone(p)
    /\ UNCHANGED <<library, toProbe, fromProbe, rcache, commands>>

\* SEAP_cmd_exec with SEAP_EXEC_WQUEUE: the handler of the command is found ...
FindCommand(p) ==
    /\ HandlerAt(p, "get_command")
    /\ IF Packet(p).id \in commands[p] THEN HandlerGoes(p, "signal") ELSE HandlerDone(p)
    /\ UNCHANGED <<library, toProbe, fromProbe, worker, trees>>

Woken(m, ok) == [worker EXCEPT ![m].pc = "awake", ![m].answer = IF ok THEN "ok" ELSE "NULL"]

\* Faulty variant: the worker does not hold the mutex while it sends, and the
\* signal may come before it waits.
SignalUnlocked(p) ==
    LET m == Packet(p).id[1]
    IN  /\ HandlerAt(p, "signal")
        /\ worker' = IF worker[m].pc = "wait" THEN Woken(m, Packet(p).ok) ELSE worker
        /\ HandlerGoes(p, "delete_command")
        /\ UNCHANGED <<library, toProbe, fromProbe, trees>>

\* ... __SEAP_cmd_sync_handler: it gets the mutex once the worker waits ...
Signal(p) ==
    LET m == Packet(p).id[1]
    IN  /\ HandlerAt(p, "signal")
        /\ worker[m].pc = "wait"
        /\ worker' = Woken(m, Packet(p).ok)
        /\ HandlerGoes(p, "delete_command")
        /\ UNCHANGED <<library, toProbe, fromProbe, trees>>

\* ... and the command is removed, after the worker was woken up.
DeleteCommand(p) ==
    /\ HandlerAt(p, "delete_command")
    /\ commands' = [commands EXCEPT ![p] = @ \ {Packet(p).id}]
    /\ HandlerDone(p)
    /\ UNCHANGED <<library, toProbe, fromProbe, worker, workers, rcache>>

Handler(p) == \/ Receive(p) \/ Lookup(p) \/ SkipEval(p) \/ StartWorker(p)
              \/ FindCommand(p) \/ Signal(p) \/ DeleteCommand(p)

-----------------------------------------------------------------------------
(* The worker for message m *)

WorkerAt(m, pc) == worker[m].pc = pc
WorkerGoes(m, pc) == worker' = [worker EXCEPT ![m].pc = pc]
Probe(m) == ProbeOf[worker[m].obj]
Need(m) == Needs[worker[m].obj][worker[m].need]
CommandId(m) == <<m, worker[m].need>>

\* The evaluation looks for its next operand or filter, or ends; a probe's
\* main function may fail, the evaluation of a set does not.
Run(m) ==
    /\ WorkerAt(m, "run")
    /\ IF worker[m].need <= Len(Needs[worker[m].obj]) THEN WorkerGoes(m, "get_result")
       ELSE \E ret \in IF ToSet(Needs[worker[m].obj]) \cap Objects = {} THEN {0, 1} ELSE {0} :
              worker' = [worker EXCEPT ![m].pc = "delete_worker", ![m].ret = ret]
    /\ UNCHANGED <<library, toProbe, fromProbe, handler, trees>>

\* probe_rcache_sexp_get, before a command and once more after it.  An object
\* that is still missing makes the set an error.
GetResult(m) ==
    /\ WorkerAt(m, "get_result")
    /\ IF Need(m) \in rcache[Probe(m)]
       THEN worker' = [worker EXCEPT ![m].pc = "run", ![m].need = @ + 1, ![m].answer = "none"]
       ELSE WorkerGoes(m, IF worker[m].answer = "none" THEN "add_command" ELSE "delete_worker")
    /\ UNCHANGED <<library, toProbe, fromProbe, handler, trees>>

\* Faulty variant: the command is sent and not waited for.
SendCommandAsync(m) ==
    /\ WorkerAt(m, "add_command")
    /\ commands' = [commands EXCEPT ![Probe(m)] = @ \cup {CommandId(m)}]
    /\ fromProbe' = Put(fromProbe, Probe(m), [type |-> "CMD", id |-> CommandId(m), need |-> Need(m), from |-> Probe(m)])
    /\ WorkerGoes(m, "delete_worker")
    /\ UNCHANGED <<library, toProbe, handler, workers, rcache>>

\* SEAP_cmd_exec: with its mutex held the worker registers and sends a command.
SendCommand(m) ==
    /\ WorkerAt(m, "add_command")
    /\ commands' = [commands EXCEPT ![Probe(m)] = @ \cup {CommandId(m)}]
    /\ fromProbe' = Put(fromProbe, Probe(m), [type |-> "CMD", id |-> CommandId(m), need |-> Need(m), from |-> Probe(m)])
    /\ WorkerGoes(m, "sent")
    /\ UNCHANGED <<library, toProbe, handler, workers, rcache>>

\* pthread_cond_wait
Wait(m) ==
    /\ WorkerAt(m, "sent")
    /\ WorkerGoes(m, "wait")
    /\ UNCHANGED <<library, toProbe, fromProbe, handler, trees>>

\* A set fails with its command; states are cached, or left out.
Awake(m) ==
    /\ WorkerAt(m, "awake")
    /\ WorkerGoes(m, IF Need(m) \in Objects
                     THEN IF worker[m].answer = "ok" THEN "get_result" ELSE "delete_worker"
                     ELSE IF worker[m].answer = "ok" THEN "add_states" ELSE "leave_out")
    /\ UNCHANGED <<library, toProbe, fromProbe, handler, trees>>

\* probe_ste_fetch; without its states a filter is ignored by a simple object
\* and makes a set an error.
AddStates(m) ==
    /\ WorkerAt(m, "add_states")
    /\ rcache' = [rcache EXCEPT ![Probe(m)] = @ \cup {Need(m)}]
    /\ worker' = [worker EXCEPT ![m].pc = "run", ![m].need = @ + 1, ![m].answer = "none"]
    /\ UNCHANGED <<library, toProbe, fromProbe, handler, workers, commands>>

LeaveOut(m) ==
    /\ WorkerAt(m, "leave_out")
    /\ worker' = [worker EXCEPT ![m].need = @ + 1, ![m].answer = "none",
                                ![m].pc = IF ToSet(Needs[worker[m].obj]) \cap Objects = {} THEN "run" ELSE "delete_worker"]
    /\ UNCHANGED <<library, toProbe, fromProbe, handler, trees>>

\* Faulty variant: the reply is sent before the worker is removed and its
\* result cached.
DeleteWorkerLate(m) ==
    /\ WorkerAt(m, "delete_worker")
    /\ workers' = [workers EXCEPT ![Probe(m)] = @ \ {m}]
    /\ WorkerGoes(m, "add_result")
    /\ fromProbe' = Put(fromProbe, Probe(m), [type |-> "MSG", id |-> m])
    /\ UNCHANGED <<library, toProbe, handler, rcache, commands>>

\* probe_worker_runfn: rbt_i32_del, ...
DeleteWorker(m) ==
    /\ WorkerAt(m, "delete_worker")
    /\ workers' = [workers EXCEPT ![Probe(m)] = @ \ {m}]
    /\ WorkerGoes(m, "add_result")
    /\ UNCHANGED <<library, toProbe, fromProbe, handler, rcache, commands>>

\* ... probe_rcache_sexp_add, where a second result aborts, ...
AddResult(m) ==
    /\ WorkerAt(m, "add_result")
    /\ rcache' = [rcache EXCEPT ![Probe(m)] = @ \cup {worker[m].obj}]
    /\ WorkerGoes(m, IF worker[m].obj \in rcache[Probe(m)] THEN "aborted" ELSE "reply")
    /\ UNCHANGED <<library, toProbe, fromProbe, handler, workers, commands>>

\* ... SEAP_reply or SEAP_replyerr.
Reply(m) ==
    /\ WorkerAt(m, "reply")
    /\ fromProbe' = Put(fromProbe, Probe(m), [type |-> IF worker[m].ret = 0 THEN "MSG" ELSE "ERR", id |-> m])
    /\ worker' = [worker EXCEPT ![m] = NoWorker]
    /\ UNCHANGED <<library, toProbe, handler, trees>>

Worker(m) == \/ Run(m) \/ GetResult(m) \/ SendCommand(m) \/ Wait(m) \/ Awake(m)
             \/ AddStates(m) \/ LeaveOut(m) \/ DeleteWorker(m) \/ AddResult(m) \/ Reply(m)

-----------------------------------------------------------------------------
Next == \/ \E o \in Objects : Query(o)
        \/ Library
        \/ \E p \in Probes : Handler(p)
        \/ \E m \in Messages : Worker(m)

\* Every thread that can go on is scheduled.
Spec == /\ Init /\ [][Next]_vars
        /\ WF_vars(Library)
        /\ \A p \in Probes : WF_vars(Handler(p))
        /\ \A m \in Messages : WF_vars(Worker(m))

-----------------------------------------------------------------------------
\* A message or an error on its way to the library answers the innermost
\* query, which is the one the library takes it for: the reply-id of a message
\* is never compared (oval_probe_comm, SEAP_recvmsg).
ReplyMatches ==
    \A p \in Probes : \A k \in DOMAIN fromProbe[p] :
        fromProbe[p][k].type # "CMD" =>
            /\ lib # <<>>
            /\ fromProbe[p][k].id = Innermost.id
            /\ ProbeOf[Innermost.obj] = p

\* Threads of probe p inside an operation of each kind.
WorkersAt(p, pcs) == {m \in Messages : worker[m].pc \in pcs /\ Probe(m) = p}
HandlersAt(p, pcs) == IF handler[p].pc \in pcs THEN {0} ELSE {}
Exclusive(writers, readers) ==
    writers # {} => Cardinality(writers) = 1 /\ readers = {}

\* While a thread changes the workers tree or the result cache, no other
\* thread is inside: the order of requests and replies does what the missing
\* locks do not (input_handler.c, probe_worker_runfn, probe_ste_fetch).
TreesExclusive ==
    \A p \in Probes :
        /\ Exclusive(HandlersAt(p, {"add_worker"}) \cup WorkersAt(p, {"delete_worker"}), {})
        /\ Exclusive(HandlersAt(p, {"add_result"}) \cup WorkersAt(p, {"add_result", "add_states"}),
                     HandlersAt(p, {"get_result"}) \cup WorkersAt(p, {"get_result"}))

\* Every query of the library comes to an end, whatever the objects refer to,
\* also each other in a circle (no thread waits for ever).
Answered == lib # <<>> ~> lib = <<>>

\* "Assuming that the red-black tree API is doing locking for us...": if it
\* did, no two threads would be inside the table of waiting commands.
CommandTableExclusive ==
    \A p \in Probes : Exclusive(HandlersAt(p, {"delete_command"}) \cup WorkersAt(p, {"add_command"}),
                                HandlersAt(p, {"get_command"}))

-----------------------------------------------------------------------------
(***************************************************************************)
(* The inductive invariant behind ReplyMatches and TreesExclusive, proved  *)
(* in ProbeProtocolProofs: at any time one thread or one packet carries    *)
(* the innermost query on, and the workers of the queries around it wait.  *)
(***************************************************************************)
RunStates == {"run", "get_result", "add_command", "awake", "add_states", "leave_out",
              "delete_worker", "add_result", "reply", "aborted"}
WaitStates == {"sent", "wait"}
WorkerRecords == [pc : RunStates \cup WaitStates, obj : Objects, need : Nat \ {0},
                  answer : {"none", "ok", "NULL"}, ret : {0, 1}]

Msg(m, o) == [type |-> "MSG", id |-> m, obj |-> o]
Cmd(m, o) == [type |-> "CMD", id |-> CommandId(m), need |-> Need(m), from |-> ProbeOf[o]]
Answer(m, ok) == [type |-> "ANSWER", id |-> CommandId(m), ok |-> ok]
FinalReply(m, type) == [type |-> type, id |-> m]

CommandRecords == {NoCommand} \cup [id : Nat \X Nat, from : Probes]
QueryRecords == [obj : Objects, id : Nat, cmd : CommandRecords]

TypeInv ==
    /\ lib \in Seq(QueryRecords)
    /\ syschar \in [Objects -> {"none", "UNKNOWN", "known"}]
    /\ queries \in 0 .. MaxQueries
    /\ sent \in Nat
    /\ DOMAIN toProbe = Probes /\ DOMAIN fromProbe = Probes
    /\ DOMAIN handler = Probes
    /\ worker \in [Messages -> WorkerRecords \cup {NoWorker}]
    /\ workers \in [Probes -> SUBSET Messages]
    /\ DOMAIN rcache = Probes
    /\ commands \in [Probes -> SUBSET (Nat \X Nat)]

\* There are message ids enough: an object is asked for by the evaluation, or
\* once more because another object refers to it.
SentInv == sent <= queries + Cardinality({o \in Objects : syschar[o] # "none"})

Silent(queue) == \A q \in Probes : queue[q] = <<>>
Only(queue, p, packet) == /\ queue[p] = <<packet>>
                          /\ \A q \in Probes : q # p => queue[q] = <<>>
HandlerRests(q) == handler[q].pc \in {"receive", "delete_command"}
OnlyHandler(p, pcs, packet) == /\ handler[p] = [pc |-> handler[p].pc, packet |-> packet]
                               /\ handler[p].pc \in pcs
                               /\ \A q \in Probes : q # p => HandlerRests(q)

\* The worker of message m collects o; it waits for the answer to a command
\* that is registered.
Works(m, o) == m \in Messages /\ worker[m] \in WorkerRecords /\ worker[m].obj = o
Waits(m, o) == /\ Works(m, o)
               /\ worker[m].pc \in WaitStates /\ worker[m].answer = "none"
               /\ CommandId(m) \in commands[ProbeOf[o]]

\* No handler is still about to remove a command of message m.
Fresh(m) == \A q \in Probes : handler[q].pc = "delete_command" => handler[q].packet.id[1] # m

\* The stages of a query, by what carries it on.
InMessage(m, o) ==
    /\ Only(toProbe, ProbeOf[o], Msg(m, o)) /\ Silent(fromProbe)
    /\ \A q \in Probes : HandlerRests(q)
    /\ worker[m] = NoWorker /\ Fresh(m)
InHandler(m, o) ==
    /\ Silent(toProbe) /\ Silent(fromProbe)
    /\ OnlyHandler(ProbeOf[o], {"get_result", "add_result", "add_worker"}, Msg(m, o))
    /\ worker[m] = NoWorker /\ Fresh(m)
InWorker(m, o) ==
    /\ Silent(toProbe) /\ Silent(fromProbe)
    /\ \A q \in Probes : HandlerRests(q)
    /\ Works(m, o) /\ worker[m].pc \in RunStates
    /\ worker[m].pc = "add_command" => worker[m].answer = "none"
InCommand(m, o) ==
    /\ Waits(m, o)
    /\ Silent(toProbe) /\ Only(fromProbe, ProbeOf[o], Cmd(m, o))
    /\ \A q \in Probes : HandlerRests(q)
InAnswer(m, o) ==
    /\ Waits(m, o)
    /\ Silent(fromProbe)
    /\ \E ok \in BOOLEAN : Only(toProbe, ProbeOf[o], Answer(m, ok))
    /\ \A q \in Probes : HandlerRests(q)
InSignal(m, o) ==
    /\ Waits(m, o)
    /\ Silent(toProbe) /\ Silent(fromProbe)
    /\ \E ok \in BOOLEAN : OnlyHandler(ProbeOf[o], {"get_command", "signal"}, Answer(m, ok))
InReply(m, o) ==
    /\ Silent(toProbe)
    /\ \E type \in {"MSG", "ERR"} : Only(fromProbe, ProbeOf[o], FinalReply(m, type))
    /\ \A q \in Probes : HandlerRests(q)
    /\ worker[m] = NoWorker

Stage(m, o) == \/ InMessage(m, o) \/ InHandler(m, o) \/ InWorker(m, o) \/ InCommand(m, o)
               \/ InAnswer(m, o) \/ InSignal(m, o) \/ InReply(m, o)
StageInv == IF lib = <<>>
            THEN Silent(toProbe) /\ Silent(fromProbe) /\ \A q \in Probes : HandlerRests(q)
            ELSE Stage(Innermost.id, Innermost.obj)

\* The queries are nested: each was sent to answer a command of the one
\* around it, whose worker waits; there are no other workers.
Outer == 1 .. Len(lib) - 1
LibInv ==
    /\ \A k \in 1 .. Len(lib) : lib[k].id \in 1 .. sent
    /\ \A j, k \in 1 .. Len(lib) : lib[j].id = lib[k].id => j = k
    /\ lib # <<>> => lib[1].cmd = NoCommand
    /\ \A k \in Outer : /\ Waits(lib[k].id, lib[k].obj)
                        /\ lib[k + 1].cmd = [id   |-> CommandId(lib[k].id),
                                             from |-> ProbeOf[lib[k].obj]]
    /\ \A m \in Messages : worker[m] # NoWorker => \E k \in 1 .. Len(lib) : lib[k].id = m

\* A command is removed after its worker was woken up; by then the worker may
\* have gone on to its next command, or ended, but does not wait for this one.
Past(id) == /\ id \in Nat \X Nat /\ id[1] \in 1 .. sent
            /\ \/ worker[id[1]] = NoWorker
               \/ worker[id[1]].need > id[2]
               \/ worker[id[1]].need = id[2] /\ worker[id[1]].answer # "none"
DeleteInv == \A q \in Probes : handler[q].pc = "delete_command" =>
                /\ handler[q] = [pc |-> "delete_command", packet |-> handler[q].packet]
                /\ Past(handler[q].packet.id)

ProtocolInv == TypeInv /\ SentInv /\ StageInv /\ LibInv /\ DeleteInv

=============================================================================
