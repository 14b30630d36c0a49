----------------------------- MODULE ProcessProofs -----------------------------
(***************************************************************************)
(* For any number of children and process numbers, in whatever order calls *)
(* are made and processes end: a process of others is never told to end,   *)
(* a released handle leaves no child, and every answer is what ChildProcess *)
(* promises, unless the system collects the children itself.  What a child *)
(* writes is in its files whoever collects it.                             *)
(***************************************************************************)
EXTENDS Process, TLAPS, SequenceTheorems

\* Where each call may be.
Places ==
    {<<"poll", "try">>, <<"code", "try">>, <<"cancel", "try">>, <<"cancel", "kill">>,
     <<"free", "try">>, <<"free", "again">>, <<"free", "kill">>, <<"free", "wait">>,
     <<"wait", "wait">>, <<"run", "wait">>, <<"start", "kill">>, <<"start", "wait">>}
Calls == {[op |-> l[1], h |-> h, at |-> l[2]] : l \in Places, h \in Handles}

Entry == [st : {"free", "setup", "running", "zombie"}, owner : Handles \cup {Foreign},
          told : SUBSET Handles, end : Endings \cup {Alive}]
HandleType == [st : {"absent", "live", "null", "freed"}, pid : Pids \cup {0}, finished : BOOLEAN, code : Int]

Types ==
    /\ request \in Plans
    /\ procs \in [Pids -> Entry] /\ handle \in [Handles -> HandleType]
    /\ call \in {Idle} \cup Calls
    /\ ended \in [Handles -> Endings \cup {Alive}]

\* A process that is a child is its handle's, as long as its end is not known.
Bound ==
    /\ \A p \in Pids : procs[p].st = "free" => procs[p] = Nobody
    /\ \A p \in Pids : procs[p].owner # Foreign =>
         /\ handle[procs[p].owner].st = "live" /\ ~handle[procs[p].owner].finished
         /\ handle[procs[p].owner].pid = p
    /\ \A h \in Handles : handle[h].st = "live" /\ ~handle[h].finished =>
         handle[h].pid \in Pids /\ procs[handle[h].pid].owner = h

\* What the system and the handle say of a child's end is how it ended.
Told ==
    /\ \A p \in Pids : procs[p].owner # Foreign =>
         /\ procs[p].st = "zombie" => procs[p].end = ended[procs[p].owner] /\ ended[procs[p].owner] # Alive
         /\ procs[p].st # "zombie" => ended[procs[p].owner] = Alive
    /\ \A h \in Handles : handle[h].finished => ended[h] # Alive /\ handle[h].code = ExitCode(ended[h])
    /\ \A h \in Handles : handle[h].st = "absent" => ended[h] = Alive /\ ~handle[h].finished

\* The call under way is about a handle that is there, and what it is about to
\* signal is a child.
CallOnLive ==
    ~NoCall => handle[call.h].st = "live" /\ (call.at = "kill" => ~handle[call.h].finished)

OnlyOwnTold == \A p \in Pids : procs[p].told \subseteq {procs[p].owner}

Kept == Types /\ Bound /\ Told /\ CallOnLive /\ OnlyOwnTold

\* Where the system collects the children itself, nothing is known of them.
ChildInv == ~ignored => Kept

-----------------------------------------------------------------------------
(* Ends of children.                                                       *)

LEMMA EndingsAre ==
  /\ Alive \notin Endings /\ Killed \in Endings
  /\ \A n \in ExitCodes \cup {126, 127} : Exit(n) \in Endings
  /\ \A e \in Endings : ExitCode(e) \in Int
<1>1. \A e \in Endings : e = Killed \/ \E n \in ExitCodes \cup {126, 127} : e = Exit(n)
  BY DEF Endings
<1>2. \A n \in ExitCodes \cup {126, 127} : n \in Int /\ Exit(n).how = "exit" /\ Exit(n).n = n
  BY ProcessAssumption DEF Exit
<1>3. Killed.how = "signal" /\ Killed.n = 15
  BY DEF Killed
<1>4. \A e \in Endings : ExitCode(e) \in Int
  BY <1>1, <1>2, <1>3 DEF ExitCode
<1> QED BY <1>4, ProcessAssumption DEF Endings

LEMMA SetupEnds ==
  ASSUME NEW r, SetupFailure(r) # 0
  PROVE  Exit(SetupFailure(r)) \in Endings
<1>1. Search(r) \in {0, 126, 127}
  BY DEF Search
<1>2. ExecFailure(r) \in {0, 126, 127}
  BY <1>1 DEF ExecFailure
<1>3. SetupFailure(r) \in {0, 126, 127}
  BY <1>2 DEF SetupFailure
<1> QED BY <1>3, EndingsAre

LEMMA CallsAre ==
  /\ Idle \notin Calls /\ Idle.op = "none" /\ Idle.at = ""
  /\ \A c \in Calls : c.h \in Handles /\ <<c.op, c.at>> \in Places /\ c = [op |-> c.op, h |-> c.h, at |-> c.at]
  /\ \A l \in Places, h \in Handles : [op |-> l[1], h |-> h, at |-> l[2]] \in Calls
<1>1. \A c \in Calls : c.h \in Handles /\ <<c.op, c.at>> \in Places /\ c = [op |-> c.op, h |-> c.h, at |-> c.at]
  <2>1. \A l \in Places : l = <<l[1], l[2]>>
    BY DEF Places
  <2> QED BY <2>1 DEF Calls
<1>2. Idle.op = "none" /\ Idle.at = "" /\ Idle.h = Foreign
  BY DEF Idle
<1>3. Idle \notin Calls
  BY <1>1, <1>2, ProcessAssumption
<1>4. \A l \in Places, h \in Handles : [op |-> l[1], h |-> h, at |-> l[2]] \in Calls
  BY DEF Calls
<1> QED BY <1>1, <1>2, <1>3, <1>4

LEMMA NobodyIs == Nobody \in Entry /\ Nobody.st = "free" /\ Nobody.owner = Foreign /\ Nobody.told = {}
BY DEF Nobody, Entry

LEMMA ChildInit == Init => ChildInv
<1> SUFFICES ASSUME Init PROVE Kept
  BY DEF ChildInv
<1>1. Types
  <2>1. [st |-> "absent", pid |-> 0, finished |-> FALSE, code |-> -1] \in HandleType
    BY DEF HandleType
  <2> QED BY <2>1, NobodyIs DEF Init, Types
<1>2. Bound /\ Told /\ CallOnLive /\ OnlyOwnTold
  BY DEF Init, Bound, Told, CallOnLive, OnlyOwnTold, Nobody, NoCall
<1> QED BY <1>1, <1>2 DEF Kept

-----------------------------------------------------------------------------
(* Steps of the system.                                                    *)

LEMMA EndStep ==
  ASSUME Kept, ~ignored, NEW p \in Pids, NEW e \in Endings, procs[p].st \in {"setup", "running"},
         Ends(p, e), UNCHANGED <<request, handle, call>>
  PROVE  Kept'
<1> DEFINE o == procs[p].owner
<1>0. Types
  BY DEF Kept
<1>1. CASE o = Foreign
  <2>1. /\ UNCHANGED ended /\ procs'[p] = Nobody
        /\ \A q \in Pids : q # p => procs'[q] = procs[q]
        /\ procs' = [procs EXCEPT ![p] = Nobody]
    BY <1>0, <1>1 DEF Ends, Types, Entry
  <2>2. Types'
    BY <1>0, <2>1, NobodyIs DEF Types
  <2>3. procs'[p].st = "free" /\ procs'[p].owner = Foreign /\ procs'[p].told = {}
    BY <2>1, NobodyIs
  <2>4. \A h \in Handles : procs[p].owner # h
    BY <1>1, ProcessAssumption
  <2>5. Bound'
    BY <2>1, <2>3, <2>4 DEF Kept, Bound
  <2>6. Told' /\ CallOnLive' /\ OnlyOwnTold'
    BY <2>1, <2>3 DEF Kept, Told, CallOnLive, OnlyOwnTold, NoCall
  <2> QED BY <2>2, <2>5, <2>6 DEF Kept
<1>2. CASE o # Foreign
  <2>1. /\ o \in Handles /\ ended' = [ended EXCEPT ![o] = e]
        /\ procs' = [procs EXCEPT ![p] = [@ EXCEPT !.st = "zombie", !.end = e]]
    BY <1>0, <1>2 DEF Ends, Types, Entry
  <2>2. /\ procs'[p].st = "zombie" /\ procs'[p].end = e /\ procs'[p].owner = o /\ procs'[p].told = procs[p].told
        /\ procs'[p] \in Entry
        /\ \A q \in Pids : q # p => procs'[q] = procs[q]
    BY <1>0, <2>1 DEF Types, Entry
  <2>3. Types'
    BY <1>0, <2>1, <2>2 DEF Types
  <2>4. ended'[o] = e /\ e # Alive /\ \A h \in Handles : h # o => ended'[h] = ended[h]
    BY <1>0, <2>1, EndingsAre DEF Types
  <2>5. \A q \in Pids : q # p => procs[q].owner # o
    BY <1>2 DEF Kept, Bound
  <2>6. ~handle[o].finished /\ handle[o].st = "live"
    BY <1>2 DEF Kept, Bound
  <2>7. Bound'
    BY <2>2 DEF Kept, Bound
  <2>8. Told'
    BY <1>2, <2>1, <2>2, <2>4, <2>5, <2>6 DEF Kept, Told
  <2>9. CallOnLive' /\ OnlyOwnTold'
    BY <2>2 DEF Kept, CallOnLive, OnlyOwnTold, NoCall
  <2> QED BY <2>3, <2>7, <2>8, <2>9 DEF Kept
<1> QED BY <1>1, <1>2

LEMMA RunStep ==
  ASSUME Kept, NEW p \in Pids, procs[p].st = "setup" \/ procs[p].st = "free",
         procs' = [procs EXCEPT ![p].st = "running"], UNCHANGED <<request, handle, call, ended>>
  PROVE  Kept'
<1>0. Types
  BY DEF Kept
<1>1. /\ procs'[p].st = "running" /\ procs'[p].owner = procs[p].owner /\ procs'[p].told = procs[p].told
      /\ procs'[p] \in Entry /\ \A q \in Pids : q # p => procs'[q] = procs[q]
  BY <1>0 DEF Types, Entry
<1>2. Types'
  BY <1>0, <1>1 DEF Types
<1>3. Bound'
  BY <1>1 DEF Kept, Bound
<1>4. Told'
  BY <1>1 DEF Kept, Told
<1>5. CallOnLive' /\ OnlyOwnTold'
  BY <1>1 DEF Kept, CallOnLive, OnlyOwnTold, NoCall
<1> QED BY <1>2, <1>3, <1>4, <1>5 DEF Kept

LEMMA SetupStep ==
  ASSUME Kept, ~ignored, NEW p \in Pids, ChildSetup(p)
  PROVE  Kept'
<1> DEFINE r == request[procs[p].owner]
<1>1. CASE SetupFailure(r) # 0
  <2>1. procs[p].st = "setup" /\ Ends(p, Exit(SetupFailure(r))) /\ UNCHANGED <<request, handle, call>>
    BY <1>1 DEF ChildSetup
  <2> HIDE DEF r
  <2> QED BY <1>1, <2>1, SetupEnds, EndStep
<1>2. CASE SetupFailure(r) = 0
  <2>1. procs[p].st = "setup" /\ procs' = [procs EXCEPT ![p].st = "running"] /\ UNCHANGED <<request, handle, call, ended>>
    BY <1>2 DEF ChildSetup
  <2> QED BY <2>1, RunStep
<1> QED BY <1>1, <1>2

LEMMA SystemStep ==
  ASSUME Kept, ~ignored, NEW p \in Pids,
         ChildSetup(p) \/ ChildExits(p) \/ ToldChildEnds(p) \/ OtherStarts(p)
  PROVE  Kept'
<1>1. CASE ChildExits(p)
  <2>1. PICK n \in ExitCodes : Ends(p, Exit(n))
    BY <1>1 DEF ChildExits
  <2>2. Exit(n) \in Endings /\ procs[p].st = "running" /\ UNCHANGED <<request, handle, call>>
    BY <1>1, EndingsAre DEF ChildExits
  <2> QED BY <2>1, <2>2, EndStep
<1>2. CASE ToldChildEnds(p)
  BY <1>2, EndStep, EndingsAre DEF ToldChildEnds
<1>3. CASE OtherStarts(p)
  BY <1>3, RunStep DEF OtherStarts
<1> QED BY <1>1, <1>2, <1>3, SetupStep

-----------------------------------------------------------------------------
(* Steps of the library.                                                   *)

LEMMA StartFailsStep ==
  ASSUME Kept, NEW h \in Handles, NEW r, StartFails(h, r)
  PROVE  Kept'
<1>0. Types /\ handle[h] \in HandleType /\ handle[h].st = "absent"
  BY DEF Kept, Types, StartFails
<1>1. /\ handle'[h].st \in {"null", "freed"} /\ handle'[h].finished = handle[h].finished
      /\ handle'[h] \in HandleType
      /\ \A g \in Handles : g # h => handle'[g] = handle[g]
  BY <1>0 DEF StartFails, Types, HandleType
<1>2. UNCHANGED <<request, procs, call, ended>> /\ NoCall
  BY DEF StartFails
<1>3. Types'
  BY <1>0, <1>1, <1>2 DEF StartFails, Types
<1>4. Bound'
  BY <1>0, <1>1, <1>2 DEF Kept, Bound, Types, Entry
<1>5. Told'
  BY <1>0, <1>1, <1>2 DEF Kept, Told
<1>6. CallOnLive' /\ OnlyOwnTold'
  BY <1>2 DEF Kept, CallOnLive, OnlyOwnTold, NoCall
<1> QED BY <1>3, <1>4, <1>5, <1>6 DEF Kept

LEMMA ForkStep ==
  ASSUME Kept, NEW h \in Handles, NEW r, Fork(h, r)
  PROVE  Kept'
<1>0. Types /\ handle[h] \in HandleType /\ handle[h].st = "absent"
  BY DEF Kept, Types, Fork
<1>1. PICK p \in Pids :
        /\ procs[p].st = "free"
        /\ procs' = [procs EXCEPT ![p] = [Nobody EXCEPT !.st = "setup", !.owner = h]]
        /\ handle' = [handle EXCEPT ![h] = [st |-> "live", pid |-> p, finished |-> FALSE, code |-> -1]]
  BY DEF Fork
<1>2. /\ procs'[p].st = "setup" /\ procs'[p].owner = h /\ procs'[p].told = {} /\ procs'[p] \in Entry
      /\ \A q \in Pids : q # p => procs'[q] = procs[q]
  BY <1>0, <1>1 DEF Types, Entry, Nobody
<1>3. /\ handle'[h].st = "live" /\ handle'[h].pid = p /\ ~handle'[h].finished /\ handle'[h] \in HandleType
      /\ \A g \in Handles : g # h => handle'[g] = handle[g]
  BY <1>0, <1>1 DEF Types, HandleType
<1>4. /\ UNCHANGED <<request, ended>>
      /\ \/ call' = [op |-> "run", h |-> h, at |-> "wait"]
         \/ call' = [op |-> "start", h |-> h, at |-> "kill"]
         \/ call' = Idle
  BY DEF Fork, NoCall
<1>5. call' \in {Idle} \cup Calls
  <2>1. <<"run", "wait">> \in Places /\ <<"start", "kill">> \in Places
    BY DEF Places
  <2> QED BY <1>4, <2>1 DEF Calls
<1>6. Types'
  BY <1>0, <1>1, <1>2, <1>3, <1>4, <1>5 DEF Types
<1>7. procs[p] = Nobody /\ procs[p].owner = Foreign /\ \A g \in Handles : g # Foreign
  BY <1>1, NobodyIs, ProcessAssumption DEF Kept, Bound
<1>8. Bound'
  BY <1>0, <1>2, <1>3, <1>7 DEF Kept, Bound, Types, Entry
<1>9. Told'
  BY <1>0, <1>2, <1>3, <1>4, <1>7 DEF Kept, Told
<1>10. CallOnLive'
  BY <1>3, <1>4 DEF CallOnLive, NoCall
<1>11. OnlyOwnTold'
  BY <1>2 DEF Kept, OnlyOwnTold
<1> QED BY <1>6, <1>8, <1>9, <1>10, <1>11 DEF Kept

LEMMA CallStep ==
  ASSUME Kept, NEW h \in Handles, NEW op \in {"poll", "wait", "cancel", "code", "free"}, Call(op, h)
  PROVE  Kept'
<1>1. /\ handle[h].st = "live" /\ UNCHANGED <<procs, handle, request, ended>>
      /\ call'.h = h /\ call'.at # "kill"
      /\ call' = [op |-> op, h |-> h, at |-> IF op = "wait" THEN "wait" ELSE "try"]
  BY DEF Call
<1>2. call' \in Calls
  <2>1. <<op, IF op = "wait" THEN "wait" ELSE "try">> \in Places
    BY DEF Places
  <2> QED BY <1>1, <2>1 DEF Calls
<1>3. Types' /\ Bound' /\ Told' /\ OnlyOwnTold'
  BY <1>1, <1>2 DEF Kept, Types, Bound, Told, OnlyOwnTold
<1>4. CallOnLive'
  BY <1>1 DEF CallOnLive
<1> QED BY <1>3, <1>4 DEF Kept

\* What the system answers of the child of the call under way is true.
LEMMA Held ==
  ASSUME Kept, ~NoCall
  PROVE  /\ call \in Calls /\ call.h \in Handles
         /\ handle[call.h] \in HandleType /\ handle[call.h].st = "live"
         /\ ~handle[call.h].finished =>
              /\ Pid \in Pids /\ procs[Pid].owner = call.h /\ procs[Pid].st # "free" /\ procs[Pid] \in Entry
         /\ handle[call.h].finished => ended[call.h] # Alive /\ handle[call.h].code = ExitCode(ended[call.h])
         /\ Result = IF ended[call.h] = Alive THEN 0 ELSE 1
         /\ ended[call.h] \in Endings \cup {Alive}
<1>1. call \in Calls /\ call.h \in Handles /\ handle[call.h].st = "live"
  BY CallsAre DEF Kept, Types, NoCall, CallOnLive
<1>2. handle[call.h] \in HandleType /\ handle[call.h].finished \in BOOLEAN
  BY <1>1 DEF Kept, Types, HandleType
<1>3. handle[call.h].finished => ended[call.h] # Alive /\ handle[call.h].code = ExitCode(ended[call.h])
  BY <1>1 DEF Kept, Told
<1>4. ASSUME ~handle[call.h].finished
      PROVE  /\ Pid \in Pids /\ procs[Pid].owner = call.h /\ procs[Pid].st # "free" /\ procs[Pid] \in Entry
             /\ call.h # Foreign /\ (procs[Pid].st = "zombie" <=> ended[call.h] # Alive)
  <2>1. Pid \in Pids /\ procs[Pid].owner = call.h /\ call.h # Foreign
    BY <1>1, <1>4, ProcessAssumption DEF Kept, Bound, Pid
  <2>2. procs[Pid].st # "free"
    BY <2>1, NobodyIs DEF Kept, Bound
  <2>3. procs[Pid].st = "zombie" <=> ended[call.h] # Alive
    BY <2>1 DEF Kept, Told
  <2> QED BY <2>1, <2>2, <2>3 DEF Kept, Types
<1>5. Result = IF ended[call.h] = Alive THEN 0 ELSE 1
  <2>1. CASE handle[call.h].finished
    BY <1>3, <2>1 DEF Result
  <2>2. CASE ~handle[call.h].finished
    <3>1. IsChild
      BY <1>4, <2>2 DEF IsChild
    <3> QED BY <1>4, <2>2, <3>1 DEF Result
  <2> QED BY <2>1, <2>2
<1> QED BY <1>1, <1>2, <1>3, <1>4, <1>5 DEF Kept, Types

\* And the handle knows it after that.
LEMMA Known ==
  ASSUME Kept, ~NoCall
  PROVE  /\ After \in HandleType /\ After.st = "live" /\ After.pid = handle[call.h].pid
         /\ (After.finished <=> Result = 1)
         /\ After.finished => After.code = ExitCode(ended[call.h]) /\ ended[call.h] # Alive
         /\ ~Reaps => After = handle[call.h]
<1>1. CASE Reaps
  <2>1. Result = 1 /\ ~handle[call.h].finished
    BY <1>1 DEF Reaps
  <2>2. Pid \in Pids /\ procs[Pid].owner = call.h /\ call.h # Foreign /\ ended[call.h] \in Endings
    BY <2>1, Held, ProcessAssumption
  <2>3. procs[Pid].end = ended[call.h]
    BY <2>2, EndingsAre DEF Kept, Told
  <2>4. After = [handle[call.h] EXCEPT !.finished = TRUE, !.code = ExitCode(ended[call.h])]
    BY <1>1, <2>3 DEF After
  <2>5. /\ ExitCode(ended[call.h]) \in Int /\ handle[call.h] \in HandleType /\ handle[call.h].st = "live"
        /\ ended[call.h] # Alive
    BY <2>2, Held, EndingsAre
  <2> QED BY <1>1, <2>1, <2>4, <2>5 DEF HandleType
<1>2. CASE ~Reaps
  <2>1. After = handle[call.h] /\ handle[call.h] \in HandleType /\ handle[call.h].st = "live"
    BY <1>2, Held DEF After
  <2>2. handle[call.h].finished <=> Result = 1
    <3>1. handle[call.h].finished \in BOOLEAN
      BY Held DEF HandleType
    <3>2. handle[call.h].finished => Result = 1
      BY Held
    <3> QED BY <1>2, <3>1, <3>2 DEF Reaps
  <2> QED BY <2>1, <2>2, Held
<1> QED BY <1>1, <1>2

\* A call that asks for the child's end, and goes on, or returns with the
\* handle kept, or with the handle gone when the child is.
LEMMA CollectStep ==
  ASSUME Kept, ~NoCall, Collect, NEW m,
         handle' = [handle EXCEPT ![call.h] = m],
         m = After \/ (Result = 1 /\ \E st \in {"null", "freed"} : m = [After EXCEPT !.st = st]),
         UNCHANGED <<request, ended>>,
         \/ call' = Idle
         \/ /\ m = After /\ call'.h = call.h /\ call' \in Calls
            /\ call'.at = "kill" => Result = 0
  PROVE  Kept'
<1> DEFINE h == call.h
<1>0. /\ Types /\ h \in Handles /\ handle[h] \in HandleType /\ handle[h].st = "live" /\ h # Foreign
      /\ After \in HandleType /\ After.pid = handle[h].pid
  BY Held, Known, ProcessAssumption DEF Kept
<1>1. /\ m \in HandleType /\ m.pid = handle[h].pid /\ (m.finished <=> Result = 1)
      /\ (m.st # "live" => m.finished) /\ m.st # "absent"
      /\ (m.finished => m.code = ExitCode(ended[h]) /\ ended[h] # Alive)
  <2>1. CASE m = After
    BY <2>1, Held, Known
  <2>2. CASE m # After
    <3>1. PICK st \in {"null", "freed"} : m = [After EXCEPT !.st = st]
      BY <2>2
    <3>2. Result = 1 /\ After \in HandleType /\ After.finished /\ After.code = ExitCode(ended[h]) /\ ended[h] # Alive
      BY <2>2, Held, Known
    <3>3. m \in HandleType /\ m.pid = After.pid /\ m.st = st /\ m.finished = After.finished /\ m.code = After.code
      BY <3>1, <3>2 DEF HandleType
    <3> QED BY <1>0, <3>2, <3>3
  <2> QED BY <2>1, <2>2
<1>2. handle'[h] = m /\ \A g \in Handles : g # h => handle'[g] = handle[g]
  BY <1>0 DEF Types
<1>3. /\ Reaps => /\ Pid \in Pids /\ procs'[Pid] = Nobody /\ procs[Pid].owner = h
                  /\ \A q \in Pids : q # Pid => procs'[q] = procs[q]
      /\ ~Reaps => procs' = procs
  <2>1. Reaps => Pid \in Pids /\ procs[Pid].owner = h
    BY Held DEF Reaps
  <2> QED BY <1>0, <2>1 DEF Collect, Types
<1>4. Types'
  <2>1. handle' \in [Handles -> HandleType]
    BY <1>0, <1>1 DEF Types
  <2>2. procs' \in [Pids -> Entry]
    BY <1>0, NobodyIs DEF Collect, Types
  <2> QED BY <1>0, <2>1, <2>2 DEF Types
<1>5. Reaps \/ m.finished = handle[h].finished
  BY <1>1, Held DEF Reaps, HandleType
<1>6. Bound'
  <2>1. CASE Reaps
    <3>1. m.finished /\ handle[h].pid = Pid
      BY <1>1, <2>1 DEF Reaps, Pid
    <3>2. \A q \in Pids : q # Pid => procs[q].owner # h
      BY <1>0, <3>1 DEF Kept, Bound
    <3>3. procs'[Pid].owner = Foreign /\ Pid \in Pids /\ procs'[Pid] = Nobody /\ \A q \in Pids : q # Pid => procs'[q] = procs[q]
      BY <1>3, <2>1, NobodyIs
    <3>4. \A g \in Handles : g # h /\ handle[g].st = "live" /\ ~handle[g].finished => handle[g].pid # Pid
      BY <1>3, <2>1 DEF Kept, Bound
    <3> HIDE DEF h
    <3>5. (\A p \in Pids : procs[p].st = "free" => procs[p] = Nobody)'
      BY <3>3 DEF Kept, Bound
    <3>6. (\A p \in Pids : procs[p].owner # Foreign =>
         /\ handle[procs[p].owner].st = "live" /\ ~handle[procs[p].owner].finished
         /\ handle[procs[p].owner].pid = p)'
      BY <1>0, <1>2, <3>2, <3>3 DEF Kept, Bound, Types, Entry
    <3>7. (\A g \in Handles : handle[g].st = "live" /\ ~handle[g].finished =>
         handle[g].pid \in Pids /\ procs[handle[g].pid].owner = g)'
      BY <1>0, <1>2, <3>1, <3>3, <3>4 DEF Kept, Bound
    <3> QED BY <3>5, <3>6, <3>7 DEF Bound
  <2>2. CASE ~Reaps
    <3>1. m.finished = handle[h].finished /\ m.pid = handle[h].pid /\ (~m.finished => m.st = "live") /\ procs' = procs
      BY <1>1, <1>3, <1>5, <2>2
    <3> HIDE DEF h
    <3> QED BY <1>0, <1>2, <3>1 DEF Kept, Bound, Types, Entry
  <2> QED BY <2>1, <2>2
<1>7. Told'
  <2>1. \A p \in Pids : procs'[p] = procs[p] \/ procs'[p].owner = Foreign
    BY <1>3, NobodyIs
  <2> HIDE DEF h
  <2> QED BY <1>1, <1>2, <2>1 DEF Kept, Told
<1>8. CallOnLive'
  <2>1. CASE call' = Idle
    BY <2>1 DEF CallOnLive, NoCall
  <2>2. CASE call' # Idle
    BY <1>1, <1>2, <2>2, Known DEF CallOnLive
  <2> QED BY <2>1, <2>2
<1>9. OnlyOwnTold'
  <2>1. \A p \in Pids : procs'[p] = procs[p] \/ procs'[p].told = {}
    BY <1>3, NobodyIs
  <2> QED BY <2>1 DEF Kept, OnlyOwnTold
<1> QED BY <1>4, <1>6, <1>7, <1>8, <1>9 DEF Kept

\* The place of a call under way is one of its own.
LEMMA PlaceIs ==
  ASSUME Kept, ~NoCall
  PROVE  /\ call = [op |-> call.op, h |-> call.h, at |-> call.at] /\ <<call.op, call.at>> \in Places
         /\ \A at : <<call.op, at>> \in Places =>
              LET c == [call EXCEPT !.at = at] IN c \in Calls /\ c.h = call.h /\ c.at = at
<1>1. call \in Calls /\ call.h \in Handles
  BY Held
<1>2. call = [op |-> call.op, h |-> call.h, at |-> call.at] /\ <<call.op, call.at>> \in Places
  BY <1>1, CallsAre
<1>3. ASSUME NEW at, <<call.op, at>> \in Places
      PROVE  LET c == [call EXCEPT !.at = at] IN c \in Calls /\ c.h = call.h /\ c.at = at
  <2>1. [call EXCEPT !.at = at] = [op |-> call.op, h |-> call.h, at |-> at]
    BY <1>2
  <2>2. [op |-> call.op, h |-> call.h, at |-> at] \in Calls
    <3> DEFINE l == <<call.op, at>>
    <3>1. l[1] = call.op /\ l[2] = at
      OBVIOUS
    <3> HIDE DEF l
    <3> QED BY <1>1, <1>3, <3>1, CallsAre DEF l
  <2> QED BY <2>1, <2>2
<1> QED BY <1>2, <1>3

\* The library acts only while a call is under way, at one of its places.
LEMMA LibraryIsCalled ==
  ASSUME Kept, Library
  PROVE  ~NoCall
<1>1. call.at \in {"try", "again", "kill", "wait"}
  BY DEF Library, Try, Kill, WaitReturns
<1> QED BY <1>1, CallsAre DEF NoCall

LEMMA TryStep ==
  ASSUME Kept, Try
  PROVE  Kept'
<1>0. /\ ~NoCall /\ Collect /\ UNCHANGED <<request, ended>> /\ call.at \in {"try", "again"}
      /\ call \in Calls /\ call.h \in Handles /\ <<call.op, call.at>> \in Places
  BY LibraryIsCalled, Held, PlaceIs DEF Try, Library
<1>1. call.op \in {"poll", "code", "cancel", "free"} /\ (call.at = "again" => call.op = "free")
  BY <1>0 DEF Places
<1>2. CASE call.op \in {"poll", "code"}
  <2>1. call' = Idle /\ handle' = [handle EXCEPT ![call.h] = After]
    BY <1>0, <1>1, <1>2 DEF Try, Return
  <2> QED BY <1>0, <2>1, CollectStep
<1>3. CASE call.op = "cancel"
  <2>1. /\ handle' = [handle EXCEPT ![call.h] = After]
        /\ call' = Idle \/ (call' = [call EXCEPT !.at = "kill"] /\ Result # 1)
    BY <1>0, <1>1, <1>3 DEF Try, Return, Goto, Over
  <2>2. [call EXCEPT !.at = "kill"] \in Calls /\ [call EXCEPT !.at = "kill"].h = call.h
    <3>1. <<"cancel", "kill">> \in Places
      BY DEF Places
    <3> QED BY <1>0, <1>3, <3>1, PlaceIs
  <2>3. Result \in {0, 1}
    BY <1>0, Held
  <2> QED BY <1>0, <2>1, <2>2, <2>3, CollectStep
<1>4. CASE call.op = "free" /\ call.at = "try" /\ Result = 0
  <2>1. handle' = handle /\ call' = [call EXCEPT !.at = "again"]
    BY <1>0, <1>1, <1>4 DEF Try, Goto
  <2>2. handle' = [handle EXCEPT ![call.h] = After]
    <3>1. After = handle[call.h]
      BY <1>0, <1>4, Known DEF Reaps
    <3> QED BY <2>1, <3>1 DEF Kept, Types
  <2>3. call' \in Calls /\ call'.h = call.h /\ call'.at # "kill"
    <3>1. <<"free", "again">> \in Places
      BY DEF Places
    <3> QED BY <1>0, <1>4, <2>1, <3>1, PlaceIs
  <2> QED BY <1>0, <2>2, <2>3, CollectStep
<1>5. CASE call.op = "free" /\ call.at = "try" /\ Result # 0
  <2>1. handle' = [handle EXCEPT ![call.h] = Released] /\ call' = Idle
    BY <1>0, <1>1, <1>5 DEF Try, Return
  <2>2. Result = 1
    BY <1>0, <1>5, Held
  <2> QED BY <1>0, <2>1, <2>2, CollectStep DEF Released
<1>6. CASE call.op = "free" /\ call.at = "again"
  <2>1. /\ handle' = [handle EXCEPT ![call.h] = After]
        /\ call' = [call EXCEPT !.at = IF Result = 1 THEN "wait" ELSE "kill"]
    BY <1>0, <1>1, <1>6 DEF Try, Goto, FreeGoesOn, Over
  <2>2. call' \in Calls /\ call'.h = call.h /\ (call'.at = "kill" => Result # 1)
    <3>1. <<"free", "wait">> \in Places /\ <<"free", "kill">> \in Places
      BY DEF Places
    <3>2. /\ [call EXCEPT !.at = "wait"].h = call.h /\ [call EXCEPT !.at = "wait"].at = "wait"
          /\ [call EXCEPT !.at = "kill"].h = call.h
          /\ [call EXCEPT !.at = "wait"] \in Calls /\ [call EXCEPT !.at = "kill"] \in Calls
      BY <1>0, <1>6, <3>1, PlaceIs
    <3> QED BY <2>1, <3>2
  <2>3. Result \in {0, 1}
    BY <1>0, Held
  <2> QED BY <1>0, <2>1, <2>2, <2>3, CollectStep
<1> QED BY <1>0, <1>1, <1>2, <1>3, <1>4, <1>5, <1>6

LEMMA WaitStep ==
  ASSUME Kept, WaitReturns
  PROVE  Kept'
<1>0. /\ ~NoCall /\ Collect /\ UNCHANGED <<request, ended>> /\ call.at = "wait" /\ Result = 1
      /\ <<call.op, call.at>> \in Places
  BY LibraryIsCalled, Held, PlaceIs DEF WaitReturns, Library
<1>1. call.op \in {"wait", "run", "free", "start"}
  BY <1>0 DEF Places
<1>2. call' = Idle
  BY <1>0, <1>1 DEF WaitReturns, Return
<1>3. CASE call.op = "wait"
  BY <1>0, <1>2, <1>3, CollectStep DEF WaitReturns
<1>4. CASE call.op = "start"
  <2>1. handle' = [handle EXCEPT ![call.h] = [After EXCEPT !.st = "null"]]
    BY <1>4 DEF WaitReturns
  <2> QED BY <1>0, <1>2, <2>1, CollectStep
<1>5. CASE call.op \in {"run", "free"}
  <2>1. handle' = [handle EXCEPT ![call.h] = Released]
    BY <1>5 DEF WaitReturns
  <2> QED BY <1>0, <1>2, <2>1, CollectStep DEF Released
<1> QED BY <1>1, <1>3, <1>4, <1>5

LEMMA KillStep ==
  ASSUME Kept, Kill
  PROVE  Kept'
<1>0. /\ ~NoCall /\ UNCHANGED <<request, handle, ended>> /\ call.at = "kill"
      /\ call.h \in Handles /\ <<call.op, call.at>> \in Places /\ ~handle[call.h].finished
  BY LibraryIsCalled, Held, PlaceIs DEF Kill, Library, Kept, CallOnLive
<1>1. Pid \in Pids /\ procs[Pid].owner = call.h /\ procs[Pid].st # "free" /\ procs[Pid] \in Entry
  BY <1>0, Held
<1>2. procs' = [procs EXCEPT ![Pid].told = @ \cup {call.h}]
  BY <1>0, <1>1 DEF Kill
<1>3. /\ procs'[Pid].st = procs[Pid].st /\ procs'[Pid].owner = procs[Pid].owner
      /\ procs'[Pid].end = procs[Pid].end /\ procs'[Pid].told = procs[Pid].told \cup {call.h}
      /\ procs'[Pid] \in Entry /\ \A q \in Pids : q # Pid => procs'[q] = procs[q]
  BY <1>0, <1>1, <1>2 DEF Kept, Types, Entry
<1>4. call' = Idle \/ (call' \in Calls /\ call'.h = call.h /\ call'.at = "wait")
  <2>1. call.op \in {"cancel", "free", "start"}
    BY <1>0 DEF Places
  <2>2. CASE call.op = "cancel"
    BY <2>2 DEF Kill, Return
  <2>3. CASE call.op \in {"free", "start"}
    <3>1. call' = [call EXCEPT !.at = "wait"]
      BY <2>3 DEF Kill, Goto
    <3>2. <<call.op, "wait">> \in Places
      BY <2>3 DEF Places
    <3> QED BY <1>0, <3>1, <3>2, PlaceIs
  <2> QED BY <2>1, <2>2, <2>3
<1>5. Types'
  <2>1. procs' \in [Pids -> Entry]
    BY <1>2, <1>3 DEF Kept, Types
  <2> QED BY <1>0, <1>4, <2>1 DEF Kept, Types
<1>6. Bound'
  BY <1>0, <1>1, <1>3 DEF Kept, Bound
<1>7. Told'
  BY <1>0, <1>3 DEF Kept, Told
<1>8. CallOnLive'
  BY <1>0, <1>4, Held DEF CallOnLive, NoCall
<1>9. OnlyOwnTold'
  BY <1>1, <1>3 DEF Kept, OnlyOwnTold
<1> QED BY <1>5, <1>6, <1>7, <1>8, <1>9 DEF Kept

LEMMA ChildStep == ChildInv /\ [Next]_vars => ChildInv'
<1> SUFFICES ASSUME ChildInv, [Next]_vars, ~ignored'
             PROVE  Kept'
  BY DEF ChildInv
<1>0. Kept /\ ~ignored
  <2>1. UNCHANGED ignored
    BY DEF Next, vars, StartFails, Fork, Call, Library, Try, Kill, WaitReturns,
       ChildSetup, ChildExits, ToldChildEnds, OtherStarts, ChildWrites
  <2> QED BY <2>1 DEF ChildInv
<1>1. ASSUME NEW h \in DOMAIN request, StartFails(h, request[h]) \/ Fork(h, request[h])
      PROVE  Kept'
  <2>1. h \in Handles
    BY <1>0, ProcessAssumption DEF Kept, Types
  <2> QED BY <1>0, <1>1, <2>1, StartFailsStep, ForkStep
<1>2. ASSUME NEW h \in Handles, NEW op \in {"poll", "wait", "cancel", "code", "free"}, Call(op, h)
      PROVE  Kept'
  BY <1>0, <1>2, CallStep
<1>3. CASE Library
  BY <1>0, <1>3, TryStep, KillStep, WaitStep DEF Library
<1>4. ASSUME NEW p \in Pids, ChildSetup(p) \/ ChildExits(p) \/ ToldChildEnds(p) \/ OtherStarts(p)
      PROVE  Kept'
  BY <1>0, <1>4, SystemStep
<1>5. CASE UNCHANGED vars \/ \E p \in Pids, s \in {"out", "err"} : ChildWrites(p, s)
  <2>1. UNCHANGED <<request, procs, handle, call, ended>>
    BY <1>5 DEF vars, ChildWrites
  <2> QED BY <1>0, <2>1 DEF Kept, Types, Bound, Told, CallOnLive, NoCall, OnlyOwnTold
<1> QED BY <1>1, <1>2, <1>3, <1>4, <1>5 DEF Next

\* Whatever ends when, baa_runtime_process_cancel and _free never signal a
\* process that came by the number of the handle's child, and no handle is
\* given back while its child is still in the system's table.
THEOREM HandlesOwnChildren == Spec => []ChildrenAreOwned
<1>1. ChildInv => ChildrenAreOwned
  <2> SUFFICES ASSUME Kept PROVE ChildrenAreOwned
    BY DEF ChildInv, ChildrenAreOwned
  <2>1. \A h \in Handles : handle[h].st # "live" => \A p \in Pids : procs[p].owner # h
    BY ProcessAssumption DEF Kept, Bound
  <2> QED BY <2>1 DEF Kept, OnlyOwnTold, ChildrenAreOwned
<1> QED BY ChildInit, ChildStep, <1>1, PTL DEF Spec

-----------------------------------------------------------------------------
(* The promise of ChildProcess is kept, step by step.                      *)

LEMMA PromiseEnds ==
  ASSUME ~ignored, UNCHANGED <<ignored, answer>>, NEW h \in Handles, ended[h] = Alive,
         NEW e \in Endings, ended' = [ended EXCEPT ![h] = e]
  PROVE  Promise!Next
<1>1. Promise!End(h)
  BY DEF Promise!End
<1> QED BY <1>1 DEF Promise!Next

LEMMA PromiseSays ==
  ASSUME ~ignored, UNCHANGED <<ignored, ended>>, NEW h \in Handles, NEW op, NEW v,
         answer' = [child |-> h, op |-> op, value |-> v],
         \/ op = "start" /\ v \in {0, -1}
         \/ op = "poll" /\ v = IF ended[h] = Alive THEN 0 ELSE 1
         \/ op \in {"code", "run"} /\ v = IF ended[h] = Alive THEN -1 ELSE ExitCode(ended[h])
         \/ op = "wait" /\ ended[h] # Alive /\ v = ExitCode(ended[h])
         \/ op = "cancel" /\ v = 1
         \/ op = "free" /\ ended[h] # Alive /\ v = 0
  PROVE  Promise!Next
<1>1. \/ Promise!Start(h) \/ Promise!Poll(h) \/ Promise!ExitCode(h) \/ Promise!Run(h)
      \/ Promise!Wait(h) \/ Promise!Cancel(h) \/ Promise!Free(h)
  BY DEF Promise!Start, Promise!Poll, Promise!ExitCode, Promise!Run, Promise!Wait, Promise!Cancel,
         Promise!Free, Promise!Say, Promise!Code, ExitCode
<1> QED BY <1>1 DEF Promise!Next

\* A process of others ends unseen, a child only once.
LEMMA EndsAsPromised ==
  ASSUME Kept, ~ignored, UNCHANGED <<ignored, answer>>, NEW p \in Pids, NEW e \in Endings,
         procs[p].st \in {"setup", "running"}, Ends(p, e)
  PROVE  Promise!Next \/ UNCHANGED <<ended, answer>>
<1>1. CASE procs[p].owner = Foreign
  BY <1>1 DEF Ends
<1>2. CASE procs[p].owner # Foreign
  <2>1. procs[p].owner \in Handles /\ ended[procs[p].owner] = Alive
    BY <1>2 DEF Kept, Types, Entry, Told
  <2>2. ended' = [ended EXCEPT ![procs[p].owner] = e]
    BY <1>2 DEF Ends
  <2> QED BY <2>1, <2>2, PromiseEnds
<1> QED BY <1>1, <1>2

LEMMA SystemAsPromised ==
  ASSUME Kept, ~ignored, NEW p \in Pids,
         \/ ChildSetup(p) \/ ChildExits(p) \/ ToldChildEnds(p) \/ OtherStarts(p)
         \/ \E s \in {"out", "err"} : ChildWrites(p, s)
  PROVE  Promise!Next \/ UNCHANGED <<ended, answer>>
<1>1. UNCHANGED <<ignored, answer>>
  BY DEF ChildSetup, ChildExits, ToldChildEnds, OtherStarts, ChildWrites
<1>2. CASE ChildSetup(p)
  <2> DEFINE r == request[procs[p].owner]
  <2>1. CASE SetupFailure(r) # 0
    <3>1. procs[p].st = "setup" /\ Ends(p, Exit(SetupFailure(r)))
      BY <1>2, <2>1 DEF ChildSetup
    <3> HIDE DEF r
    <3> QED BY <1>1, <2>1, <3>1, SetupEnds, EndsAsPromised
  <2>2. CASE SetupFailure(r) = 0
    BY <1>2, <2>2 DEF ChildSetup
  <2> QED BY <2>1, <2>2
<1>3. CASE ChildExits(p)
  <2>1. PICK n \in ExitCodes : Ends(p, Exit(n))
    BY <1>3 DEF ChildExits
  <2>2. Exit(n) \in Endings /\ procs[p].st = "running"
    BY <1>3, EndingsAre DEF ChildExits
  <2> QED BY <1>1, <2>1, <2>2, EndsAsPromised
<1>4. CASE ToldChildEnds(p)
  BY <1>1, <1>4, EndsAsPromised, EndingsAre DEF ToldChildEnds
<1>5. CASE OtherStarts(p) \/ \E s \in {"out", "err"} : ChildWrites(p, s)
  BY <1>5 DEF OtherStarts, ChildWrites
<1> QED BY <1>2, <1>3, <1>4, <1>5

LEMMA StartAsPromised ==
  ASSUME Kept, ~ignored, NEW h \in Handles, NEW r, StartFails(h, r) \/ Fork(h, r)
  PROVE  Promise!Next \/ UNCHANGED <<ended, answer>>
<1>1. UNCHANGED <<ignored, ended>> /\ ended[h] = Alive
  BY DEF StartFails, Fork, Kept, Told
<1>2. \/ UNCHANGED answer
      \/ answer' = [child |-> h, op |-> "run", value |-> -1]
      \/ \E v \in {0, -1} : answer' = [child |-> h, op |-> "start", value |-> v]
  BY DEF StartFails, Fork, Say
<1> QED BY <1>1, <1>2, PromiseSays

LEMMA LibraryAsPromised ==
  ASSUME Kept, ~ignored, Library
  PROVE  Promise!Next \/ UNCHANGED <<ended, answer>>
<1> DEFINE h == call.h
<1>0. /\ ~NoCall /\ h \in Handles /\ UNCHANGED <<ignored, ended>> /\ <<call.op, call.at>> \in Places
      /\ Result = IF ended[h] = Alive THEN 0 ELSE 1
      /\ (After.finished <=> Result = 1) /\ (After.finished => After.code = ExitCode(ended[h]))
  BY LibraryIsCalled, Held, Known, PlaceIs DEF Library, Try, Kill, WaitReturns
<1>1. CASE Try
  <2>1. call.op \in {"poll", "code", "cancel", "free"} /\ (call.at = "again" => call.op = "free")
    BY <1>0, <1>1 DEF Try, Places
  <2>2. CASE call.op = "poll"
    <3>1. answer' = [child |-> h, op |-> "poll", value |-> Result]
      BY <1>1, <2>1, <2>2 DEF Try, Return, Say
    <3> QED BY <1>0, <3>1, PromiseSays
  <2>3. CASE call.op = "code"
    <3>1. answer' = [child |-> h, op |-> "code", value |-> IF After.finished THEN After.code ELSE -1]
      BY <1>1, <2>1, <2>3 DEF Try, Return, Say
    <3>2. (IF After.finished THEN After.code ELSE -1) = IF ended[h] = Alive THEN -1 ELSE ExitCode(ended[h])
      BY <1>0
    <3> HIDE DEF h
    <3> QED BY <1>0, <3>1, <3>2, PromiseSays
  <2>4. CASE call.op = "cancel"
    <3>1. UNCHANGED answer \/ answer' = [child |-> h, op |-> "cancel", value |-> 1]
      BY <1>1, <2>1, <2>4 DEF Try, Return, Say, Goto
    <3> QED BY <1>0, <3>1, PromiseSays
  <2>5. CASE call.op = "free"
    <3>1. UNCHANGED answer \/ (Result # 0 /\ answer' = [child |-> h, op |-> "free", value |-> 0])
      BY <1>1, <2>1, <2>5 DEF Try, Return, Say, Goto
    <3> QED BY <1>0, <3>1, PromiseSays
  <2> QED BY <2>1, <2>2, <2>3, <2>4, <2>5
<1>2. CASE Kill
  <2>1. ~handle[h].finished
    BY <1>0, <1>2 DEF Kill, Kept, CallOnLive
  <2>2. procs[Pid].st # "free"
    BY <1>0, <2>1, Held
  <2>3. UNCHANGED answer \/ answer' = [child |-> h, op |-> "cancel", value |-> 1]
    BY <1>2, <2>2 DEF Kill, Return, Say, Goto
  <2> QED BY <1>0, <2>3, PromiseSays
<1>3. CASE WaitReturns
  <2>1. Result = 1 /\ ended[h] # Alive /\ After.code = ExitCode(ended[h])
        /\ call.op \in {"wait", "run", "free", "start"}
    BY <1>0, <1>3 DEF WaitReturns, Places
  <2>2. \/ call.op \in {"wait", "run"} /\ answer' = [child |-> h, op |-> call.op, value |-> ExitCode(ended[h])]
        \/ call.op = "free" /\ answer' = [child |-> h, op |-> "free", value |-> 0]
        \/ call.op = "start" /\ answer' = [child |-> h, op |-> "start", value |-> -1]
    BY <1>3, <2>1 DEF WaitReturns, Return, Say
  <2> HIDE DEF h
  <2> QED BY <1>0, <2>1, <2>2, PromiseSays
<1> QED BY <1>1, <1>2, <1>3 DEF Library

LEMMA PromiseInit == Init => Promise!Init
BY DEF Init, Promise!Init, None

LEMMA PromiseStep ==
  ASSUME ChildInv, [Next]_vars
  PROVE  [Promise!Next]_<<IF ignored THEN [h \in Handles |-> Alive] ELSE ended,
                          IF ignored THEN None ELSE answer>>
<1>0. UNCHANGED ignored
  BY DEF Next, vars, StartFails, Fork, Call, Library, Try, Kill, WaitReturns,
     ChildSetup, ChildExits, ToldChildEnds, OtherStarts, ChildWrites
<1>1. CASE ignored
  BY <1>0, <1>1
<1>2. CASE ~ignored
  <2>0. Kept
    BY <1>2 DEF ChildInv
  <2>1. Promise!Next \/ UNCHANGED <<ended, answer>>
    <3>1. ASSUME NEW h \in DOMAIN request, StartFails(h, request[h]) \/ Fork(h, request[h])
          PROVE  Promise!Next \/ UNCHANGED <<ended, answer>>
      <4>1. h \in Handles
        BY <2>0, ProcessAssumption DEF Kept, Types
      <4> QED BY <1>2, <2>0, <3>1, <4>1, StartAsPromised
    <3>2. CASE UNCHANGED vars \/ \E h \in Handles, op \in {"poll", "wait", "cancel", "code", "free"} : Call(op, h)
      BY <3>2 DEF vars, Call
    <3>3. CASE Library
      BY <1>2, <2>0, <3>3, LibraryAsPromised
    <3>4. ASSUME NEW p \in Pids, \/ ChildSetup(p) \/ ChildExits(p) \/ ToldChildEnds(p) \/ OtherStarts(p)
                                 \/ \E s \in {"out", "err"} : ChildWrites(p, s)
          PROVE  Promise!Next \/ UNCHANGED <<ended, answer>>
      BY <1>2, <2>0, <3>4, SystemAsPromised
    <3> QED BY <3>1, <3>2, <3>3, <3>4 DEF Next
  <2> QED BY <1>0, <1>2, <2>1
<1> QED BY <1>1, <1>2

\* The library implements ChildProcess: whatever the order of its calls and of
\* the ends of processes, every answer (start, poll, wait, cancel, exit code,
\* run, free) is true of the child when it is given.
THEOREM AnswersAreProved == Spec => AnswersAreTrue
BY ChildInit, ChildStep, PromiseInit, PromiseStep, PTL DEF Spec, AnswersAreTrue, Promise!Spec

-----------------------------------------------------------------------------
(* What children write.  This holds whoever collects them.                 *)

Codes == {ExitCode(e) : e \in Endings \cup {Alive}} \cup {-1}
KeptHandle == [st : {"absent", "live", "null", "freed"}, pid : Pids \cup {0}, finished : BOOLEAN, code : Codes]
Names == {"log", "err"}
Streams == {"out", "err"}
To(r, s) == IF s = "out" THEN r.out ELSE r.err

WriteTypes ==
    /\ request \in Plans
    /\ procs \in [Pids -> Entry] /\ handle \in [Handles -> KeptHandle]
    /\ call \in {Idle} \cup Calls
    /\ ~NoCall => handle[call.h].st = "live"
    /\ \A h \in Handles : handle[h].st = "live" => handle[h].pid \in Pids
    /\ said \in [Handles -> [Names -> Seq(Streams)]]
    /\ fd \in [Handles -> [Streams -> Nat]]
    /\ DOMAIN files = Handles /\ \A h \in Handles : DOMAIN files[h] = Names

\* A handle has one child at most, and none before it is started.
OneChild ==
    /\ \A p, q \in Pids : procs[p].owner # Foreign /\ procs[p].owner = procs[q].owner => p = q
    /\ \A p \in Pids : procs[p].owner # Foreign => handle[procs[p].owner].st # "absent"
    /\ \A p \in Pids : procs[p].st = "setup" => procs[p].owner # Foreign
    /\ \A p \in Pids : procs[p].st = "free" => procs[p].owner = Foreign

\* Nothing is written before the files are open.
Fresh(h) == said[h] = Nothing /\ fd[h] = [s \in Streams |-> 1]
Unopened ==
    \A h \in Handles :
        (handle[h].st = "absent" \/ \E p \in Pids : procs[p].owner = h /\ procs[p].st = "setup") => Fresh(h)

\* An open file holds what was said to it, and a stream that will write to it
\* is at its end.
Faithful(h) ==
    /\ \A f \in Names : IF \E s \in Streams : To(request[h], s) = f
                        THEN files[h][f] = said[h][f] ELSE said[h][f] = <<>>
    /\ \A s \in Streams : LET f == To(request[h], s) IN
         f \in Names /\ (s \notin ToSet(said[h][f]) \/ SameFile(request[h])) => fd[h][s] = Len(said[h][f]) + 1
Written ==
    \A h \in Handles :
        (said[h] # Nothing \/ \E p \in Pids : procs[p].owner = h /\ procs[p].st = "running") => Faithful(h)

WriteInv == WriteTypes /\ OneChild /\ Unopened /\ Written

LEMMA WriteInit == Init => WriteInv
<1> SUFFICES ASSUME Init PROVE WriteInv
  OBVIOUS
<1>1. WriteTypes
  <2>1. [st |-> "absent", pid |-> 0, finished |-> FALSE, code |-> -1] \in KeptHandle
    BY DEF KeptHandle, Codes
  <2>2. Nothing \in [Names -> Seq(Streams)] /\ DOMAIN Nothing = Names /\ DOMAIN Old = Names
    BY DEF Nothing, Old, Names
  <2>3. [s \in {"out", "err"} |-> 1] \in [Streams -> Nat]
    BY DEF Streams
  <2>4. DOMAIN files = Handles /\ \A h \in Handles : DOMAIN files[h] = Names
    BY <2>2 DEF Init
  <2> QED BY <2>1, <2>2, <2>3, <2>4, NobodyIs DEF Init, WriteTypes, NoCall
<1>2. \A p \in Pids : procs[p].owner = Foreign
  BY NobodyIs DEF Init
<1>3. \A h \in Handles : Fresh(h)
  BY DEF Init, Fresh, Streams
<1>4. \A p \in Pids : procs[p].st = "free"
  BY NobodyIs DEF Init
<1>5. OneChild
  BY <1>2, <1>4 DEF OneChild
<1>6. Unopened
  BY <1>3 DEF Unopened
<1>7. Written
  BY <1>3, <1>4 DEF Written, Fresh
<1> QED BY <1>1, <1>5, <1>6, <1>7 DEF WriteInv

\* A step that writes nothing, starts nothing and opens nothing.
LEMMA QuietStep ==
  ASSUME WriteInv, UNCHANGED <<request, output>>, WriteTypes',
         \A p \in Pids : \/ procs'[p].owner = Foreign /\ procs'[p].st # "setup"
                         \/ /\ procs'[p].owner = procs[p].owner
                            /\ procs'[p].st \in {procs[p].st, "zombie"},
         \A h \in Handles : handle[h].st # "absent" => handle'[h].st # "absent"
  PROVE  WriteInv'
<1>1. said' = said /\ fd' = fd /\ files' = files /\ request' = request
  BY DEF output
<1>2. \A h \in Handles : (Fresh(h)' <=> Fresh(h)) /\ (Faithful(h)' <=> Faithful(h))
  BY <1>1 DEF Fresh, Faithful
<1>3. \A h \in Handles : handle'[h].st = "absent" => handle[h].st = "absent"
  OBVIOUS
<1>4. \A p \in Pids, h \in Handles : procs'[p].owner = h =>
        procs[p].owner = h /\ procs'[p].st \in {procs[p].st, "zombie"}
  BY ProcessAssumption
<1>5. OneChild'
  <2>1. \A p \in Pids : procs'[p].owner # Foreign => procs'[p].owner \in Handles /\ procs'[p].owner = procs[p].owner
    BY DEF WriteTypes, Entry
  <2> QED BY <1>3, <2>1 DEF WriteInv, OneChild
<1>6. Unopened'
  BY <1>2, <1>3, <1>4 DEF WriteInv, Unopened
<1>7. Written'
  BY <1>1, <1>2, <1>4 DEF WriteInv, Written
<1> QED BY <1>5, <1>6, <1>7 DEF WriteInv

\* A child that ends stays in the table, or leaves it; a process of others leaves.
LEMMA EndsInTable ==
  ASSUME WriteTypes, NEW p \in Pids, NEW e \in Endings, Ends(p, e)
  PROVE  /\ \A q \in Pids : q # p => procs'[q] = procs[q]
         /\ \/ procs'[p].owner = Foreign /\ procs'[p].st = "free"
            \/ procs'[p].owner = procs[p].owner /\ procs'[p].st = "zombie"
         /\ procs' \in [Pids -> Entry]
<1>0. procs \in [Pids -> Entry] /\ procs[p] \in Entry
  BY DEF WriteTypes
<1>1. CASE ignored \/ procs[p].owner = Foreign
  <2>1. procs' = [procs EXCEPT ![p] = Nobody]
    BY <1>0, <1>1 DEF Ends
  <2> QED BY <1>0, <2>1, NobodyIs
<1>2. CASE ~(ignored \/ procs[p].owner = Foreign)
  <2> DEFINE z == [procs[p] EXCEPT !.st = "zombie", !.end = e]
  <2>1. procs' = [procs EXCEPT ![p] = z]
    BY <1>0, <1>2 DEF Ends
  <2>2. z \in Entry /\ z.st = "zombie" /\ z.owner = procs[p].owner
    BY <1>0 DEF Entry
  <2> HIDE DEF z
  <2> QED BY <1>0, <2>1, <2>2
<1> QED BY <1>1, <1>2

LEMMA EndWrites ==
  ASSUME WriteInv, NEW p \in Pids, NEW e \in Endings, Ends(p, e), UNCHANGED <<request, handle, call, output>>
  PROVE  WriteInv'
<1>0. WriteTypes
  BY DEF WriteInv
<1>1. /\ \A q \in Pids : q # p => procs'[q] = procs[q]
      /\ \/ procs'[p].owner = Foreign /\ procs'[p].st = "free"
         \/ procs'[p].owner = procs[p].owner /\ procs'[p].st = "zombie"
      /\ procs' \in [Pids -> Entry]
  BY <1>0, EndsInTable
<1>2. WriteTypes'
  BY <1>0, <1>1 DEF WriteTypes, output, NoCall
<1> QED BY <1>1, <1>2, QuietStep

\* The files are opened, and emptied.
LEMMA OpenWrites ==
  ASSUME WriteInv, NEW p \in Pids, ChildSetup(p)
  PROVE  WriteInv'
<1>1. PICK h \in Handles : procs[p].owner = h
  BY DEF WriteInv, WriteTypes, OneChild, Entry, ChildSetup
<1>2. PICK r : r = request[h]
  OBVIOUS
<1>3. /\ WriteTypes /\ procs[p].st = "setup" /\ UNCHANGED <<request, handle, call, fd, said>>
      /\ files' = [files EXCEPT ![h] = [f \in DOMAIN @ |-> IF f \in Truncated(r) THEN <<>> ELSE @[f]]]
      /\ IF SetupFailure(r) # 0 THEN Ends(p, Exit(SetupFailure(r)))
         ELSE procs' = [procs EXCEPT ![p].st = "running"]
  BY <1>1, <1>2 DEF WriteInv, ChildSetup
<1>4. /\ \A g \in Handles : g # h => files'[g] = files[g]
      /\ DOMAIN files' = Handles /\ \A g \in Handles : DOMAIN files'[g] = Names
  BY <1>3 DEF WriteTypes
<1>5. Fresh(h)
  BY <1>1, <1>3 DEF WriteInv, Unopened
<1>6. \A g \in Handles : (Fresh(g)' <=> Fresh(g)) /\ (g # h => (Faithful(g)' <=> Faithful(g)))
  BY <1>3, <1>4 DEF Fresh, Faithful
<1>7. /\ \A q \in Pids : q # p => procs'[q] = procs[q]
      /\ \/ procs'[p].owner = Foreign /\ procs'[p].st = "free"
         \/ procs'[p].owner = h /\ procs'[p].st = "zombie"
         \/ procs'[p].owner = h /\ procs'[p].st = "running" /\ SetupFailure(r) = 0
      /\ procs' \in [Pids -> Entry]
  <2>1. CASE SetupFailure(r) # 0
    BY <1>1, <1>3, <2>1, SetupEnds, EndsInTable
  <2>2. CASE SetupFailure(r) = 0
    <3> DEFINE z == [procs[p] EXCEPT !.st = "running"]
    <3>1. procs \in [Pids -> Entry] /\ procs[p] \in Entry /\ procs' = [procs EXCEPT ![p] = z]
      BY <1>3, <2>2 DEF WriteTypes
    <3>2. z \in Entry /\ z.st = "running" /\ z.owner = h
      BY <1>1, <3>1 DEF Entry
    <3> HIDE DEF z
    <3> QED BY <2>2, <3>1, <3>2
  <2> QED BY <2>1, <2>2
<1>8. WriteTypes'
  BY <1>3, <1>4, <1>7 DEF WriteTypes, NoCall
<1>9. \A q \in Pids, g \in Handles : procs'[q].owner = g =>
        /\ procs[q].owner = g /\ (procs'[q].st = "setup" => procs[q].st = "setup")
        /\ procs'[q].st = "running" => procs[q].st = "running" \/ (g = h /\ SetupFailure(r) = 0)
  BY <1>1, <1>7, ProcessAssumption
<1>10. OneChild'
  <2>1. \A q \in Pids : procs'[q].owner # Foreign => procs'[q].owner \in Handles
    BY <1>8 DEF WriteTypes, Entry
  <2>2. \A q \in Pids : procs'[q].st = "setup" => procs'[q] = procs[q]
    BY <1>7
  <2>3. \A q \in Pids : procs'[q].st = "free" => procs'[q].owner = Foreign
    BY <1>7 DEF WriteInv, OneChild
  <2>4. \A q, t \in Pids : procs'[q].owner # Foreign /\ procs'[q].owner = procs'[t].owner => q = t
    BY <1>9, <2>1 DEF WriteInv, OneChild
  <2>5. \A q \in Pids : procs'[q].owner # Foreign => handle'[procs'[q].owner].st # "absent"
    BY <1>3, <1>9, <2>1 DEF WriteInv, OneChild
  <2>6. \A q \in Pids : procs'[q].st = "setup" => procs'[q].owner # Foreign
    BY <2>2 DEF WriteInv, OneChild
  <2> QED BY <2>3, <2>4, <2>5, <2>6 DEF OneChild
<1>11. Unopened'
  BY <1>3, <1>6, <1>9 DEF WriteInv, Unopened
<1>12. ASSUME SetupFailure(r) = 0 PROVE Faithful(h)'
  <2>1. r.cwd /\ ~OutFails(r)
    BY <1>12 DEF SetupFailure
  <2>2. \A s \in Streams : To(r, s) \in Names => To(r, s) \in Truncated(r)
    BY <2>1 DEF Truncated, To, Streams, Names, Opens
  <2>3. \A f \in Names : f \in Truncated(r) => files'[h][f] = <<>>
    BY <1>3 DEF WriteTypes
  <2>4. \A f \in Names : said'[h][f] = <<>>
    BY <1>3, <1>5 DEF Nothing, Names, Fresh
  <2>5. \A s \in Streams : fd'[h][s] = 1
    BY <1>3, <1>5 DEF Fresh
  <2>6. request'[h] = r /\ Len(<<>>) = 0
    BY <1>2, <1>3
  <2>7. \A f \in Names : (\E s \in Streams : To(r, s) = f) => files'[h][f] = <<>>
    BY <2>2, <2>3
  <2> QED BY <2>4, <2>5, <2>6, <2>7 DEF Faithful
<1>13. Written'
  <2> SUFFICES ASSUME NEW g \in Handles,
                      said'[g] # Nothing \/ \E q \in Pids : procs'[q].owner = g /\ procs'[q].st = "running"
               PROVE  Faithful(g)'
    BY DEF Written
  <2>1. CASE g = h
    <3>1. said'[h] = Nothing
      BY <1>3, <1>5 DEF Fresh
    <3>2. \A q \in Pids : procs[q].owner = h => q = p
      BY <1>1, ProcessAssumption DEF WriteInv, OneChild
    <3>3. SetupFailure(r) = 0
      BY <1>3, <1>9, <2>1, <3>1, <3>2
    <3> QED BY <1>12, <2>1, <3>3
  <2>2. CASE g # h
    BY <1>3, <1>6, <1>9, <2>2 DEF WriteInv, Written
  <2> QED BY <2>1, <2>2
<1> QED BY <1>8, <1>10, <1>11, <1>13 DEF WriteInv

\* A child that writes adds to the end of its file.
LEMMA WriteWrites ==
  ASSUME WriteInv, NEW p \in Pids, NEW s \in Streams, ChildWrites(p, s)
  PROVE  WriteInv'
<1>0. PICK h \in Handles : procs[p].owner = h
  BY DEF WriteInv, WriteTypes, Entry, ChildWrites
<1>r. PICK r : r = request[h]
  OBVIOUS
<1>f. PICK f : f = To(r, s)
  OBVIOUS
<1>t. /\ WriteTypes /\ procs[p].st = "running" /\ UNCHANGED <<request, procs, handle, call>>
      /\ Faithful(h)
  BY <1>0 DEF WriteInv, ChildWrites, Written
<1>1. /\ f \in Names /\ s \notin ToSet(said[h][f])
      /\ files' = [files EXCEPT ![h][f] = [k \in DOMAIN @ \cup {fd[h][s]} |-> IF k = fd[h][s] THEN s ELSE @[k]]]
      /\ fd' = [fd EXCEPT ![h] = [t \in DOMAIN @ |-> IF t = s \/ SameFile(r) THEN @[t] + 1 ELSE @[t]]]
      /\ said' = [said EXCEPT ![h][f] = Append(@, s)]
  <2>1. Opens(f) <=> f \in Names
    BY DEF Opens, Names
  <2> DEFINE W(g, q, n) ==
          /\ Opens(n) /\ s \notin ToSet(said[g][n])
          /\ files' = [files EXCEPT ![g][n] =
                         [k \in DOMAIN @ \cup {fd[g][s]} |-> IF k = fd[g][s] THEN s ELSE @[k]]]
          /\ fd' = [fd EXCEPT ![g] = [t \in DOMAIN @ |-> IF t = s \/ SameFile(q) THEN @[t] + 1 ELSE @[t]]]
          /\ said' = [said EXCEPT ![g][n] = Append(@, s)]
  <2>2. \E g \in {procs[p].owner} : \E q \in {request[g]} :
          \E n \in {IF s = "out" THEN q.out ELSE q.err} : W(g, q, n)
    BY Zenon DEF ChildWrites
  <2>3. (IF s = "out" THEN r.out ELSE r.err) = f
    BY <1>f DEF To
  <2>4. W(h, r, f)
    <3> HIDE DEF W
    <3> QED BY <1>0, <1>r, <2>2, <2>3
  <2> QED BY <2>1, <2>4, Zenon
<1>2. /\ said[h][f] \in Seq(Streams) /\ Len(said[h][f]) \in Nat
      /\ files[h][f] = said[h][f] /\ fd[h][s] = Len(said[h][f]) + 1
  <2>1. said[h][f] \in Seq(Streams)
    BY <1>t, <1>1 DEF WriteTypes
  <2>2. \E t \in Streams : To(request[h], t) = f
    BY <1>r, <1>f
  <2>3. files[h][f] = said[h][f]
    BY <1>t, <1>1, <2>2 DEF Faithful
  <2>4. fd[h][s] = Len(said[h][f]) + 1
    BY <1>t, <1>1, <1>r, <1>f DEF Faithful
  <2> QED BY <2>1, <2>3, <2>4
<1>3. /\ said'[h][f] = Append(said[h][f], s) /\ said'[h][f] \in Seq(Streams)
      /\ Len(said'[h][f]) = Len(said[h][f]) + 1
      /\ \A g \in Names : g # f => said'[h][g] = said[h][g]
      /\ \A g \in Handles : g # h => said'[g] = said[g]
      /\ said' \in [Handles -> [Names -> Seq(Streams)]]
  BY <1>t, <1>1, <1>2 DEF WriteTypes
<1>4. files'[h][f] = said'[h][f]
  <2>1. files'[h][f] = [k \in DOMAIN files[h][f] \cup {fd[h][s]} |-> IF k = fd[h][s] THEN s ELSE files[h][f][k]]
    BY <1>t, <1>1 DEF WriteTypes
  <2> DEFINE m == said[h][f]
  <2>2. Append(m, s) = [k \in DOMAIN m \cup {Len(m) + 1} |-> IF k = Len(m) + 1 THEN s ELSE m[k]]
    <3>1. m \in Seq(Streams)
      BY <1>2
    <3> HIDE DEF m
    <3>2. Len(m) \in Nat /\ DOMAIN m = 1 .. Len(m)
      BY <3>1
    <3>3. DOMAIN Append(m, s) = 1 .. Len(m) + 1 /\ Append(m, s) \in [1 .. Len(m) + 1 -> Streams]
      <4>1. Append(m, s) \in Seq(Streams) /\ Len(Append(m, s)) = Len(m) + 1
        BY <3>1, AppendProperties
      <4> QED BY <4>1, LenProperties
    <3>4. \A k \in 1 .. Len(m) + 1 : Append(m, s)[k] = IF k = Len(m) + 1 THEN s ELSE m[k]
      BY <3>1, AppendProperties
    <3>5. 1 .. Len(m) + 1 = (1 .. Len(m)) \cup {Len(m) + 1}
      BY <3>2
    <3>6. Append(m, s) = [k \in DOMAIN Append(m, s) |-> Append(m, s)[k]]
      BY <3>3
    <3> QED BY <3>2, <3>3, <3>4, <3>5, <3>6
  <2>3. files'[h][f] = [k \in DOMAIN m \cup {Len(m) + 1} |-> IF k = Len(m) + 1 THEN s ELSE m[k]]
    BY <1>2, <2>1
  <2> QED BY <1>3, <2>2, <2>3
<1>5. /\ \A g \in Names : g # f => files'[h][g] = files[h][g]
      /\ \A g \in Handles : g # h => files'[g] = files[g] /\ fd'[g] = fd[g]
      /\ DOMAIN files' = Handles /\ \A g \in Handles : DOMAIN files'[g] = Names
  BY <1>t, <1>1 DEF WriteTypes
<1>6. /\ \A t \in Streams : fd'[h][t] = IF t = s \/ SameFile(r) THEN fd[h][t] + 1 ELSE fd[h][t]
      /\ fd' \in [Handles -> [Streams -> Nat]]
  BY <1>t, <1>1 DEF WriteTypes
<1>7. s \in ToSet(said'[h][f])
  <2>1. Append(said[h][f], s)[Len(said[h][f]) + 1] = s /\ Len(said[h][f]) + 1 \in DOMAIN Append(said[h][f], s)
    BY <1>2
  <2> QED BY <1>3, <2>1 DEF ToSet
<1>8. WriteTypes'
  BY <1>t, <1>3, <1>5, <1>6 DEF WriteTypes, NoCall
<1>9. \A g \in Handles : g # h => (Faithful(g)' <=> Faithful(g)) /\ (Fresh(g)' <=> Fresh(g))
  <2>1. \A g \in Handles : g # h => said'[g] = said[g] /\ files'[g] = files[g] /\ fd'[g] = fd[g]
    BY <1>3, <1>5
  <2>2. request' = request
    BY <1>t
  <2> QED BY <2>1, <2>2 DEF Faithful, Fresh
<1>10. Faithful(h)'
  <2>0. request'[h] = r /\ request[h] = r
    BY <1>t, <1>r
  <2>1. \A g \in Names : IF \E t \in Streams : To(r, t) = g THEN files'[h][g] = said'[h][g] ELSE said'[h][g] = <<>>
    <3> SUFFICES ASSUME NEW g \in Names
                 PROVE  IF \E t \in Streams : To(r, t) = g THEN files'[h][g] = said'[h][g] ELSE said'[h][g] = <<>>
      OBVIOUS
    <3>1. CASE g = f
      BY <1>4, <1>f, <3>1
    <3>2. CASE g # f
      <4>1. said'[h][g] = said[h][g] /\ files'[h][g] = files[h][g]
        BY <1>3, <1>5, <3>2
      <4> QED BY <1>t, <2>0, <4>1 DEF Faithful
    <3> QED BY <3>1, <3>2
  <2>2. ASSUME NEW t \in Streams, To(r, t) \in Names,
               t \notin ToSet(said'[h][To(r, t)]) \/ SameFile(r)
        PROVE  fd'[h][t] = Len(said'[h][To(r, t)]) + 1
    <3>1. CASE SameFile(r)
      <4>1. To(r, t) = f
        BY <1>f, <3>1 DEF SameFile, To
      <4>2. fd[h][t] = Len(said[h][f]) + 1
        BY <1>t, <2>0, <2>2, <3>1, <4>1 DEF Faithful
      <4> QED BY <1>2, <1>3, <1>6, <3>1, <4>1, <4>2
    <3>2. CASE ~SameFile(r)
      <4>1. To(r, t) = f => t = s
        <5>1. f # ""
          BY <1>1 DEF Names
        <5> SUFFICES ASSUME To(r, t) = f, t # s PROVE FALSE
          OBVIOUS
        <5>2. To(r, s) = f /\ {s, t} = {"out", "err"}
          BY <1>f DEF Streams
        <5>3. r.out = f /\ r.err = f
          BY <5>2 DEF To
        <5> QED BY <3>2, <5>1, <5>3 DEF SameFile
      <4>2. t # s /\ To(r, t) # f
        BY <1>7, <1>f, <2>2, <3>2, <4>1
      <4>3. said'[h][To(r, t)] = said[h][To(r, t)] /\ fd'[h][t] = fd[h][t]
        BY <1>3, <1>6, <2>2, <3>2, <4>2
      <4> QED BY <1>t, <2>0, <2>2, <3>2, <4>3 DEF Faithful
    <3> QED BY <3>1, <3>2
  <2>3. \A t \in Streams :
          To(r, t) \in Names /\ (t \notin ToSet(said'[h][To(r, t)]) \/ SameFile(r))
            => fd'[h][t] = Len(said'[h][To(r, t)]) + 1
    BY <2>2
  <2> QED BY <2>0, <2>1, <2>3 DEF Faithful
<1>11. OneChild'
  BY <1>t DEF WriteInv, OneChild
<1>12. \A q \in Pids : procs[q].owner = h => q = p
  BY <1>0, ProcessAssumption DEF WriteInv, OneChild
<1>13. Unopened'
  <2> SUFFICES ASSUME NEW g \in Handles,
                      handle[g].st = "absent" \/ \E q \in Pids : procs[q].owner = g /\ procs[q].st = "setup"
               PROVE  Fresh(g)'
    BY <1>t DEF Unopened
  <2>1. g # h
    BY <1>0, <1>t, <1>12, ProcessAssumption DEF WriteInv, OneChild
  <2>2. Fresh(g)
    BY DEF WriteInv, Unopened
  <2> QED BY <1>9, <2>1, <2>2
<1>14. Written'
  <2> SUFFICES ASSUME NEW g \in Handles, g # h,
                      said'[g] # Nothing \/ \E q \in Pids : procs[q].owner = g /\ procs[q].st = "running"
               PROVE  Faithful(g)'
    BY <1>t, <1>10 DEF Written
  <2>1. Faithful(g)
    BY <1>3 DEF WriteInv, Written
  <2> QED BY <1>9, <2>1
<1> QED BY <1>8, <1>11, <1>13, <1>14 DEF WriteInv

\* The other actions open and write nothing.
LEMMA StartWrites ==
  ASSUME WriteInv, NEW h \in Handles, NEW r, StartFails(h, r) \/ Fork(h, r)
  PROVE  WriteInv'
<1>0. /\ WriteTypes /\ handle[h].st = "absent" /\ handle[h] \in KeptHandle
      /\ UNCHANGED <<request, files, fd, said>>
  BY DEF WriteInv, WriteTypes, StartFails, Fork, output
<1>1. \A p \in Pids : procs[p].owner # h
  BY <1>0, ProcessAssumption DEF WriteInv, OneChild
<1>2. CASE StartFails(h, r)
  <2>1. /\ handle' \in [Handles -> KeptHandle] /\ handle'[h].st \in {"null", "freed"}
        /\ \A g \in Handles : g # h => handle'[g] = handle[g]
    <3>1. handle' = [handle EXCEPT ![h].st = IF r.run THEN "freed" ELSE "null"]
      BY <1>2 DEF StartFails
    <3> QED BY <1>0, <3>1 DEF WriteTypes, KeptHandle
  <2>2. UNCHANGED <<request, procs, call, output>> /\ NoCall
    BY <1>2 DEF StartFails
  <2>3. WriteTypes'
    <3>1. \A g \in Handles : handle'[g].st = "live" => handle'[g].pid \in Pids
      BY <1>0, <2>1 DEF WriteTypes
    <3> QED BY <1>0, <2>1, <2>2, <3>1 DEF WriteTypes, NoCall
  <2>4. \A p \in Pids : procs'[p] = procs[p]
    BY <2>2
  <2> QED BY <2>1, <2>2, <2>3, <2>4, QuietStep
<1>3. CASE Fork(h, r)
  <2>1. PICK p \in Pids :
          /\ procs[p].st = "free"
          /\ procs' = [procs EXCEPT ![p] = [Nobody EXCEPT !.st = "setup", !.owner = h]]
          /\ handle' = [handle EXCEPT ![h] = [st |-> "live", pid |-> p, finished |-> FALSE, code |-> -1]]
    BY <1>3 DEF Fork
  <2>2. /\ procs'[p].st = "setup" /\ procs'[p].owner = h /\ procs'[p] \in Entry
        /\ \A q \in Pids : q # p => procs'[q] = procs[q]
        /\ procs' \in [Pids -> Entry]
    BY <1>0, <2>1 DEF WriteTypes, Entry, Nobody
  <2>3. /\ handle'[h].st = "live" /\ handle'[h].pid = p /\ \A g \in Handles : g # h => handle'[g] = handle[g]
        /\ handle' \in [Handles -> KeptHandle]
    BY <1>0, <2>1 DEF WriteTypes, KeptHandle, Codes
  <2>4. call' \in {Idle} \cup Calls /\ (~NoCall' => handle'[call'.h].st = "live")
    <3>1. \/ call' = [op |-> "run", h |-> h, at |-> "wait"]
          \/ call' = [op |-> "start", h |-> h, at |-> "kill"]
          \/ call' = Idle
      BY <1>3 DEF Fork, NoCall
    <3>2. <<"run", "wait">> \in Places /\ <<"start", "kill">> \in Places
      BY DEF Places
    <3> QED BY <2>3, <3>1, <3>2 DEF Calls, NoCall
  <2>5. WriteTypes'
    <3>1. \A g \in Handles : handle'[g].st = "live" => handle'[g].pid \in Pids
      BY <1>0, <2>3 DEF WriteTypes
    <3> QED BY <1>0, <2>2, <2>3, <2>4, <3>1 DEF WriteTypes
  <2>6. Fresh(h) /\ h # Foreign
    BY <1>0, ProcessAssumption DEF WriteInv, Unopened
  <2>7. \A g \in Handles : (Fresh(g)' <=> Fresh(g)) /\ (Faithful(g)' <=> Faithful(g))
    BY <1>0 DEF Fresh, Faithful
  <2>8. OneChild'
    <3>1. \A q \in Pids : q # p => procs'[q] = procs[q] /\ procs'[q].owner # h
      BY <1>1, <2>2
    <3>2. \A q \in Pids : procs'[q].owner # Foreign => procs'[q].owner \in Handles
      BY <2>2 DEF Entry
    <3>3. \A q, t \in Pids : procs'[q].owner # Foreign /\ procs'[q].owner = procs'[t].owner => q = t
      BY <2>2, <3>1 DEF WriteInv, OneChild
    <3>4. \A q \in Pids : procs'[q].owner # Foreign => handle'[procs'[q].owner].st # "absent"
      <4> SUFFICES ASSUME NEW q \in Pids, procs'[q].owner # Foreign PROVE handle'[procs'[q].owner].st # "absent"
        OBVIOUS
      <4>1. CASE q = p
        BY <2>2, <2>3, <4>1
      <4>2. CASE q # p
        BY <2>3, <3>1, <3>2, <4>2 DEF WriteInv, OneChild
      <4> QED BY <4>1, <4>2
    <3>5. \A q \in Pids : procs'[q].st = "setup" => procs'[q].owner # Foreign
      BY <2>2, <2>6, <3>1 DEF WriteInv, OneChild
    <3>6. \A q \in Pids : procs'[q].st = "free" => procs'[q].owner = Foreign
      BY <2>2, <3>1 DEF WriteInv, OneChild
    <3> QED BY <3>3, <3>4, <3>5, <3>6 DEF OneChild
  <2>9. Unopened'
    BY <2>2, <2>3, <2>6, <2>7 DEF WriteInv, Unopened
  <2>10. Written'
    <3>1. \A g \in Handles : (\E q \in Pids : procs'[q].owner = g /\ procs'[q].st = "running")
                               => \E q \in Pids : procs[q].owner = g /\ procs[q].st = "running"
      BY <2>2
    <3> QED BY <1>0, <2>7, <3>1 DEF WriteInv, Written
  <2> QED BY <2>5, <2>8, <2>9, <2>10 DEF WriteInv
<1> QED BY <1>2, <1>3

LEMMA CallWrites ==
  ASSUME WriteInv, NEW h \in Handles, NEW op \in {"poll", "wait", "cancel", "code", "free"}, Call(op, h)
  PROVE  WriteInv'
<1>1. /\ handle[h].st = "live" /\ UNCHANGED <<procs, handle, request, output>>
      /\ call' = [op |-> op, h |-> h, at |-> IF op = "wait" THEN "wait" ELSE "try"]
  BY DEF Call
<1>2. call' \in Calls /\ call'.h = h
  <2>1. <<op, IF op = "wait" THEN "wait" ELSE "try">> \in Places
    BY DEF Places
  <2> QED BY <1>1, <2>1 DEF Calls
<1>3. WriteTypes'
  BY <1>1, <1>2 DEF WriteInv, WriteTypes, output
<1>4. \A p \in Pids : procs'[p] = procs[p]
  BY <1>1
<1> QED BY <1>1, <1>3, <1>4, QuietStep

\* Where a call may go on to.
LEMMA CallGoesOn ==
  ASSUME WriteTypes, Library
  PROVE  /\ ~NoCall /\ call \in Calls /\ call.h \in Handles /\ handle[call.h] \in KeptHandle
         /\ handle[call.h].st = "live" /\ Pid \in Pids /\ <<call.op, call.at>> \in Places
         /\ \A at : <<call.op, at>> \in Places =>
              [call EXCEPT !.at = at] \in Calls /\ [call EXCEPT !.at = at].h = call.h
<1>1. call.at \in {"try", "again", "kill", "wait"}
  BY DEF Library, Try, Kill, WaitReturns
<1>2. ~NoCall /\ call \in Calls
  BY <1>1, CallsAre DEF NoCall, WriteTypes
<1>3. call.h \in Handles /\ <<call.op, call.at>> \in Places /\ call = [op |-> call.op, h |-> call.h, at |-> call.at]
  BY <1>2, CallsAre
<1>4. ASSUME NEW at, <<call.op, at>> \in Places
      PROVE  [call EXCEPT !.at = at] \in Calls /\ [call EXCEPT !.at = at].h = call.h
  <2>1. [call EXCEPT !.at = at] = [op |-> call.op, h |-> call.h, at |-> at]
    BY <1>3
  <2> DEFINE l == <<call.op, at>>
  <2>2. l[1] = call.op /\ l[2] = at
    OBVIOUS
  <2>3. l \in Places
    BY <1>4
  <2> HIDE DEF l
  <2>4. [op |-> l[1], h |-> call.h, at |-> l[2]] \in Calls
    BY <1>3, <2>3, CallsAre
  <2> QED BY <2>1, <2>2, <2>4
<1> QED BY <1>2, <1>3, <1>4 DEF WriteTypes, KeptHandle, Pid

\* The handle of a call that was about a live one.
Left == {z \in KeptHandle : z.st \in {"live", "null", "freed"} /\ z.pid = Pid}

\* What collecting, if it happens, does to the table and to the handle.
LEMMA CollectWrites ==
  ASSUME WriteTypes, Library
  PROVE  /\ handle[call.h] \in Left /\ handle[call.h].st = "live"
         /\ After \in Left /\ After.st = "live" /\ [After EXCEPT !.st = "null"] \in Left /\ Released \in Left
<1>0. /\ procs \in [Pids -> Entry] /\ handle[call.h] \in KeptHandle /\ Pid \in Pids
      /\ handle[call.h].st = "live" /\ handle[call.h].pid = Pid
  BY CallGoesOn DEF WriteTypes, Pid
<1>1. ExitCode(procs[Pid].end) \in Codes
  BY <1>0 DEF Entry, Codes
<1>2. After \in KeptHandle /\ After.st = "live" /\ After.pid = Pid
  BY <1>0, <1>1 DEF After, KeptHandle
<1>3. /\ [After EXCEPT !.st = "null"] \in KeptHandle /\ [After EXCEPT !.st = "null"].st = "null"
      /\ [After EXCEPT !.st = "null"].pid = Pid
  BY <1>2 DEF KeptHandle
<1>4. Released \in KeptHandle /\ Released.st = "freed" /\ Released.pid = Pid
  BY <1>2 DEF KeptHandle, Released
<1> QED BY <1>0, <1>2, <1>3, <1>4 DEF Left

\* The handle after a step of the library, and where its call is.
LEMMA LibraryLeaves ==
  ASSUME WriteTypes, Library
  PROVE  /\ \E z \in Left : handle' = [handle EXCEPT ![call.h] = z] /\ (call' # Idle => z.st = "live")
         /\ call' = Idle \/ \E at : <<call.op, at>> \in Places /\ call' = [call EXCEPT !.at = at]
<1>0. <<call.op, call.at>> \in Places /\ handle = [handle EXCEPT ![call.h] = handle[call.h]]
  BY CallGoesOn DEF WriteTypes
<1>1. CASE Kill
  <2>1. <<call.op, call.at>> \in Places /\ call.at = "kill" /\ handle' = handle
    BY <1>0, <1>1 DEF Kill
  <2>2. call.op # "cancel" => <<call.op, "wait">> \in Places
    BY <2>1 DEF Places
  <2>3. IF call.op = "cancel" THEN call' = Idle ELSE call' = [call EXCEPT !.at = "wait"]
    BY <1>1 DEF Kill, Return, Goto
  <2> QED BY <1>0, <2>1, <2>2, <2>3, CollectWrites
<1>2. CASE WaitReturns
  <2>1. call.at = "wait" /\ call.op \in {"wait", "run", "free", "start"}
    BY <1>0, <1>2 DEF WaitReturns, Places
  <2>2. call' = Idle
    BY <1>2, <2>1 DEF WaitReturns, Return
  <2>3. \E z \in {After, [After EXCEPT !.st = "null"], Released} : handle' = [handle EXCEPT ![call.h] = z]
    BY <1>2, <2>1 DEF WaitReturns
  <2> QED BY <2>2, <2>3, CollectWrites
<1>3. CASE Try
  <2>1. call.op \in {"poll", "code", "cancel", "free"} /\ call.at \in {"try", "again"}
    BY <1>0, <1>3 DEF Try, Places
  <2>2. CASE call.op \in {"poll", "code"}
    BY <1>3, <2>2, CollectWrites DEF Try, Return
  <2>3. CASE call.op = "cancel"
    <3>1. <<call.op, "kill">> \in Places
      BY <2>3 DEF Places
    <3>2. /\ handle' = [handle EXCEPT ![call.h] = After]
          /\ call' = Idle \/ call' = [call EXCEPT !.at = "kill"]
      BY <1>3, <2>3 DEF Try, Return, Goto
    <3> QED BY <3>1, <3>2, CollectWrites
  <2>4. CASE call.op = "free"
    <3>1. <<call.op, "again">> \in Places /\ <<call.op, "wait">> \in Places /\ <<call.op, "kill">> \in Places
      BY <2>4 DEF Places
    <3>2. CASE call.at = "try"
      <4>1. \/ handle' = handle /\ call' = [call EXCEPT !.at = "again"]
            \/ handle' = [handle EXCEPT ![call.h] = Released] /\ call' = Idle
        BY <1>3, <2>4, <3>2 DEF Try, Return, Goto
      <4> QED BY <1>0, <3>1, <4>1, CollectWrites
    <3>3. CASE call.at = "again"
      <4>1. /\ handle' = [handle EXCEPT ![call.h] = After]
            /\ call' = [call EXCEPT !.at = "wait"] \/ call' = [call EXCEPT !.at = "kill"]
        BY <1>3, <2>4, <3>3 DEF Try, Goto, FreeGoesOn
      <4> QED BY <3>1, <4>1, CollectWrites
    <3> QED BY <2>1, <3>2, <3>3
  <2> QED BY <2>1, <2>2, <2>3, <2>4
<1> QED BY <1>1, <1>2, <1>3 DEF Library

\* A step of the library collects a child, signals one, or leaves them alone.
LEMMA LibraryTable ==
  ASSUME WriteTypes, Library
  PROVE  /\ procs' \in [Pids -> Entry]
         /\ \A p \in Pids : \/ procs'[p] = Nobody
                            \/ procs'[p].owner = procs[p].owner /\ procs'[p].st = procs[p].st
<1>0. procs \in [Pids -> Entry] /\ Pid \in Pids /\ call.h \in Handles /\ procs[Pid] \in Entry
  BY CallGoesOn DEF WriteTypes
<1>1. CASE Kill
  <2> DEFINE z == [procs[Pid] EXCEPT !.told = IF procs[Pid].st = "free" THEN {} ELSE @ \cup {call.h}]
  <2>1. procs' = [procs EXCEPT ![Pid] = z]
    BY <1>0, <1>1 DEF Kill
  <2>2. z \in Entry /\ z.owner = procs[Pid].owner /\ z.st = procs[Pid].st
    BY <1>0 DEF Entry
  <2> HIDE DEF z
  <2> QED BY <1>0, <2>1, <2>2
<1>2. CASE Try \/ WaitReturns
  <2>1. procs' = procs \/ procs' = [procs EXCEPT ![Pid] = Nobody]
    BY <1>2 DEF Try, WaitReturns, Collect
  <2> QED BY <1>0, <2>1, NobodyIs
<1> QED BY <1>1, <1>2 DEF Library

LEMMA LibraryWrites ==
  ASSUME WriteInv, Library
  PROVE  WriteInv'
<1>0. WriteTypes /\ call.h \in Handles /\ handle[call.h].st = "live" /\ Pid \in Pids
  BY CallGoesOn DEF WriteInv
<1>1. PICK z \in Left : handle' = [handle EXCEPT ![call.h] = z] /\ (call' # Idle => z.st = "live")
  BY <1>0, LibraryLeaves
<1>2. /\ handle' \in [Handles -> KeptHandle] /\ handle'[call.h] = z
      /\ \A h \in Handles : h # call.h => handle'[h] = handle[h]
      /\ z.st # "absent" /\ z.pid \in Pids
  BY <1>0, <1>1 DEF WriteTypes, Left
<1>3. UNCHANGED <<request, output>>
  BY DEF Library, Try, Kill, WaitReturns
<1>4. call' \in {Idle} \cup Calls /\ (~NoCall' => handle'[call'.h].st = "live")
  <2>1. CASE call' = Idle
    BY <2>1 DEF NoCall
  <2>2. CASE call' # Idle
    <3>1. PICK at : <<call.op, at>> \in Places /\ call' = [call EXCEPT !.at = at]
      BY <1>0, <2>2, LibraryLeaves
    <3>2. call' \in Calls /\ call'.h = call.h
      BY <1>0, <3>1, CallGoesOn
    <3> QED BY <1>1, <1>2, <2>2, <3>2
  <2> QED BY <2>1, <2>2
<1>5. WriteTypes'
  <2>1. \A h \in Handles : handle'[h].st = "live" => handle'[h].pid \in Pids
    BY <1>0, <1>2 DEF WriteTypes
  <2>2. procs' \in [Pids -> Entry]
    BY <1>0, LibraryTable
  <2> QED BY <1>0, <1>2, <1>3, <1>4, <2>1, <2>2 DEF WriteTypes, output
<1>6. \A p \in Pids : \/ procs'[p].owner = Foreign /\ procs'[p].st # "setup"
                      \/ procs'[p].owner = procs[p].owner /\ procs'[p].st \in {procs[p].st, "zombie"}
  BY <1>0, LibraryTable, NobodyIs
<1>7. \A h \in Handles : handle[h].st # "absent" => handle'[h].st # "absent"
  BY <1>2
<1> QED BY <1>3, <1>5, <1>6, <1>7, QuietStep

LEMMA OtherWrites ==
  ASSUME WriteInv, NEW p \in Pids, OtherStarts(p)
  PROVE  WriteInv'
<1>1. WriteTypes /\ procs[p].owner = Foreign /\ UNCHANGED <<request, handle, call, output>>
  BY DEF WriteInv, OneChild, OtherStarts
<1>2. /\ \A q \in Pids : q # p => procs'[q] = procs[q]
      /\ procs'[p].owner = Foreign /\ procs'[p].st = "running" /\ procs' \in [Pids -> Entry]
  <2> DEFINE z == [procs[p] EXCEPT !.st = "running"]
  <2>1. procs \in [Pids -> Entry] /\ procs[p] \in Entry /\ procs' = [procs EXCEPT ![p] = z]
    BY <1>1 DEF WriteTypes, OtherStarts
  <2>2. z \in Entry /\ z.owner = Foreign /\ z.st = "running"
    BY <1>1, <2>1 DEF Entry
  <2> HIDE DEF z
  <2> QED BY <2>1, <2>2
<1>3. WriteTypes'
  BY <1>1, <1>2 DEF WriteTypes, output, NoCall
<1> QED BY <1>1, <1>2, <1>3, QuietStep

LEMMA WriteStep == WriteInv /\ [Next]_vars => WriteInv'
<1> SUFFICES ASSUME WriteInv, [Next]_vars PROVE WriteInv'
  OBVIOUS
<1>1. ASSUME NEW h \in DOMAIN request, StartFails(h, request[h]) \/ Fork(h, request[h])
      PROVE  WriteInv'
  <2>1. h \in Handles
    BY ProcessAssumption DEF WriteInv, WriteTypes
  <2> QED BY <1>1, <2>1, StartWrites
<1>2. ASSUME NEW p \in Pids, ChildExits(p) \/ ToldChildEnds(p)
      PROVE  WriteInv'
  <2>1. PICK e \in Endings : Ends(p, e)
    BY <1>2, EndingsAre DEF ChildExits, ToldChildEnds
  <2>2. UNCHANGED <<request, handle, call, output>>
    BY <1>2 DEF ChildExits, ToldChildEnds
  <2> QED BY <2>1, <2>2, EndWrites
<1>3. CASE UNCHANGED vars
  BY <1>3 DEF vars, WriteInv, WriteTypes, OneChild, Unopened, Written, Fresh, Faithful, NoCall
<1>4. ASSUME NEW p \in Pids, NEW s \in {"out", "err"}, ChildWrites(p, s) PROVE WriteInv'
  BY <1>4, WriteWrites DEF Streams
<1> QED BY <1>1, <1>2, <1>3, <1>4, CallWrites, LibraryWrites, OpenWrites, OtherWrites DEF Next

\* What a child has written to its standard output and standard error is in its
\* files as it was written, one file or two, whatever they held before
\* (set_stdio of the child opens them, posix_child_setup).
THEOREM NothingIsLost == Spec => []NothingWrittenOver
<1>1. WriteInv => NothingWrittenOver
  <2> SUFFICES ASSUME WriteInv, NEW h \in Handles, NEW f \in Names, said[h][f] # <<>>
               PROVE  files[h][f] = said[h][f]
    BY DEF NothingWrittenOver, Names
  <2>1. said[h] # Nothing
    BY DEF Nothing, Names
  <2>2. Faithful(h)
    BY <2>1 DEF WriteInv, Written
  <2> QED BY <2>2 DEF Faithful
<1> QED BY <1>1, WriteInit, WriteStep, PTL DEF Spec
=============================================================================
