---------------------------- MODULE ParserProofs ----------------------------
(***************************************************************************)
(* Theorems about Parser: what is returned is patched by tag, and every    *)
(* registered device is somebody's, for every document, client and device. *)
(*                                                                         *)
(* The invariant says who has a device at each step of GenerateWarpInfo    *)
(* (RequestInv), that nobody else has it (DeviceInv), and that a result of *)
(* the batch is the one of a task that has its tag and is done (BatchInv). *)
(***************************************************************************)
EXTENDS Parser, TLAPS

Caller == Client \cup Places

Identities == [device : Device, quality : Quality \cup {"noPeers"}] \cup {NoIdentity}

ParserTypes ==
  /\ phase \in {"idle", "patching", "returned"}
  /\ document \in Documents \cup {NoDocument}
  /\ phase # "idle" => document \in Documents
  /\ task \in [Places -> {"none", "queued", "running", "done"}]
  /\ step \in [Caller -> {"none", "delete", "register", "licence", "answer", "error"}]
  /\ identity \in [Caller -> Identities]
  /\ account \in [Client -> Device \cup {None}]
  /\ registered \subseteq Device
  /\ failed \in BOOLEAN /\ repeated \in BOOLEAN /\ dead \in BOOLEAN

\* A place of the batch: it has a request under way while its task runs, and an
\* identity from then on.
PlaceInv ==
  \A i \in Places :
    /\ task[i] # "none" <=> phase = "patching" /\ i \in DOMAIN document.outbounds
    /\ task[i] = "running" <=> step[i] # "none"
    /\ task[i] = "running" => ~LeftAlone(Out(i)) /\ ~FromOptions(Out(i))
    /\ step[i] # "delete"
    /\ identity[i] # NoIdentity => task[i] \in {"running", "done"}

\* A request has an identity from its registration to its answer.
RequestInv ==
  \A x \in Caller :
    /\ step[x] \in {"licence", "answer"} => identity[x] # NoIdentity
    /\ step[x] \in {"delete", "register", "error"} => identity[x] = NoIdentity
    /\ x \in Client /\ step[x] = "none" /\ ~dead => identity[x] = NoIdentity

\* A device is in one hand.
DeviceInv ==
  /\ \A x \in Caller :
       identity[x].device # None =>
         /\ identity[x].device \in registered
         /\ \A y \in Caller : identity[y].device = identity[x].device => y = x
         /\ \A c \in Client : account[c] # identity[x].device
  /\ \A c \in Client : account[c] # None =>
       \A b \in Client : account[b] = account[c] => b = c
  /\ \A c \in Client :
       account[c] # None /\ step[c] \in {"register", "licence", "answer", "error"} =>
         account[c] \notin registered \/ account[c] \in givenUp

\* A result of the batch is the one of a task with its tag that is done.
ResultOf(t, i) ==
  /\ task[i] = "done"
  /\ Out(i).tag = t
  /\ PatchOf(results[t], Out(i))
  /\ results[t].warp \in Device => identity[i].device = results[t].warp

BatchInv ==
  phase = "patching" =>
    /\ \A t \in DOMAIN results :
         results[t].tag = t /\ \E i \in Places : ResultOf(t, i)
    /\ ~failed /\ ~dead => \A i \in Places : task[i] = "done" =>
         /\ Out(i).tag \in DOMAIN results
         /\ ~repeated /\ identity[i].device # None =>
              results[Out(i).tag].warp = identity[i].device
    /\ repeated \/ ~TagTwice(document)

\* Nobody has the devices of the outbounds that were returned.
ReturnedInv ==
  phase = "returned" =>
    \A i \in DOMAIN result : result[i].warp \in Device =>
      /\ result[i].warp \in registered
      /\ \A x \in Caller : identity[x].device # result[i].warp
      /\ \A c \in Client : account[c] # result[i].warp

ParserInv ==
  /\ ParserTypes /\ PlaceInv /\ RequestInv /\ DeviceInv /\ BatchInv /\ ReturnedInv
  /\ PatchedByTag /\ DevicesAreHeld

-----------------------------------------------------------------------------
LEMMA NoResults == DOMAIN <<>> = {}
  OBVIOUS

LEMMA ParserInitially == Init => ParserInv
<1> USE DeviceAssumption, NoResults
    DEF Init, Caller, NoIdentity, NoDocument
<1> SUFFICES ASSUME Init PROVE ParserInv
  OBVIOUS
<1>1. ParserTypes
  BY DEF ParserTypes, Identities
<1>2. PlaceInv /\ RequestInv /\ BatchInv /\ ReturnedInv /\ PatchedByTag
  BY DEF PlaceInv, RequestInv, BatchInv, ReturnedInv, PatchedByTag
<1>3. DeviceInv /\ DevicesAreHeld
  BY DEF DeviceInv, DevicesAreHeld
<1> QED
  BY <1>1, <1>2, <1>3 DEF ParserInv

LEMMA DeviceOf ==
  ASSUME ParserTypes, NEW x \in Caller
  PROVE  /\ None \notin Device
         /\ identity[x] = NoIdentity => identity[x].device = None
         /\ identity[x] # NoIdentity =>
              identity[x] \in [device : Device, quality : Quality \cup {"noPeers"}]
         /\ identity[x].device # None => identity[x].device \in Device
         /\ identity[x].device # None <=> identity[x] # NoIdentity
<1>1. identity[x] \in Identities /\ None \notin Device
  BY DeviceAssumption DEF ParserTypes
<1> QED
  BY <1>1 DEF Identities, NoIdentity

\* A task is done with its result, with an error, or in a panic.
Done(i, warp) ==
  /\ task' = [task EXCEPT ![i] = "done"]
  /\ \/ /\ results' = [t \in DOMAIN results \cup {Out(i).tag} |->
                         IF t = Out(i).tag THEN [tag |-> t, warp |-> warp] ELSE results[t]]
        /\ UNCHANGED <<failed, givenUp, dead>>
     \/ /\ failed' = TRUE
        /\ givenUp' = givenUp \cup ({warp} \cap Device)
        /\ UNCHANGED <<results, dead>>
     \/ /\ dead' = TRUE
        /\ UNCHANGED <<results, failed, givenUp>>

LEMMA FinishIsDone ==
  ASSUME NEW i, NEW outcome, NEW warp, Finish(i, outcome, warp)
  PROVE  Done(i, warp)
  BY DEF Finish, Done, Out

LEMMA PatchedAtOnce ==
  ASSUME ParserInv, NEW i \in Places, PatchAtOnce(i)
  PROVE  \E warp \in {"none", "p1", "p2"} :
           /\ Done(i, warp)
           /\ PatchOf([tag |-> Out(i).tag, warp |-> warp], Out(i))
<1>1. CASE LeftAlone(Out(i))
  <2>1. Finish(i, "good", "none")
    BY <1>1 DEF PatchAtOnce
  <2>2. Done(i, "none")
    BY <2>1, FinishIsDone
  <2> QED
    BY <1>1, <2>2 DEF LeftAlone, FromOptions, PatchOf
<1>2. CASE ~LeftAlone(Out(i))
  <2>1. FromOptions(Out(i)) /\ Finish(i, document.opt[Out(i).key], Out(i).key)
    BY <1>2 DEF PatchAtOnce
  <2>2. document.opt # NilOptions /\ Out(i).key \in {"p1", "p2"}
    BY <1>2, <2>1 DEF LeftAlone, FromOptions
  <2>3. Done(i, Out(i).key)
    BY <2>1, FinishIsDone
  <2> QED
    BY <2>2, <2>3 DEF FromOptions, PatchOf
<1> QED
  BY <1>1, <1>2

LEMMA PatchedByRequest ==
  ASSUME ParserInv, NEW i \in Places, Patched(i)
  PROVE  /\ task[i] = "running"
         /\ ~LeftAlone(Out(i)) /\ ~FromOptions(Out(i))
         /\ Done(i, identity[i].device)
         /\ results' # results => identity[i].device \in registered
<1>1. /\ step[i] \in {"answer", "error"}
      /\ i \in Caller
      /\ identity[i] \in Identities
  BY DEF Patched, ParserInv, ParserTypes, Caller
<1>2. task[i] = "running" /\ ~LeftAlone(Out(i)) /\ ~FromOptions(Out(i))
  BY <1>1 DEF ParserInv, PlaceInv
<1>3. CASE step[i] = "answer"
  <2>1. identity[i] # NoIdentity
    BY <1>1, <1>3 DEF ParserInv, RequestInv
  <2>2. identity[i].quality \in Quality \cup {"noPeers"} /\ identity[i].device \in Device
    BY <1>1, <2>1 DEF Identities
  <2>3. identity[i].device \in registered
    BY <1>1, <2>2, DeviceAssumption DEF ParserInv, DeviceInv
  <2>4. Finish(i, identity[i].quality, identity[i].device)
    BY <1>3 DEF Patched
  <2> QED
    BY <1>2, <2>3, <2>4, FinishIsDone
<1>4. CASE step[i] = "error"
  <2>1. identity[i] = NoIdentity
    BY <1>1, <1>4 DEF ParserInv, RequestInv
  <2>2. Finish(i, "error", None)
    BY <1>4 DEF Patched
  <2>3. Done(i, None)
    BY <2>2, FinishIsDone
  <2>4. results' = results
    BY <2>2 DEF Finish
  <2> QED
    BY <1>2, <2>1, <2>3, <2>4 DEF NoIdentity
<1> QED
  BY <1>1, <1>3, <1>4

LEMMA TypesKept == ParserInv /\ [Next]_vars => ParserTypes'
<1> SUFFICES ASSUME ParserInv, [Next]_vars PROVE ParserTypes'
  OBVIOUS
<1> USE DeviceAssumption
    DEF ParserInv, ParserTypes, Caller, Identities, NoIdentity, vars, parserVars, warpVars,
        MayRun, Finish
<1>1. ASSUME NEW d \in Documents, ParseConfigContent(d) PROVE ParserTypes'
  BY <1>1 DEF ParseConfigContent
<1>2. ASSUME NEW i \in Places, PatchAtOnce(i) PROVE ParserTypes'
  BY <1>2 DEF PatchAtOnce
<1>3. ASSUME NEW i \in Places, PatchByRequest(i) PROVE ParserTypes'
  BY <1>3 DEF PatchByRequest
<1>4. ASSUME NEW i \in Places, Patched(i) PROVE ParserTypes'
  BY <1>4 DEF Patched
<1>5. ASSUME Collect PROVE ParserTypes'
  BY <1>5 DEF Collect
<1>6. ASSUME NEW c \in Client, GenerateWarpConfig(c) PROVE ParserTypes'
  BY <1>6 DEF GenerateWarpConfig
<1>7. ASSUME NEW c \in Client, DeleteDevice(c) PROVE ParserTypes'
  BY <1>7 DEF DeleteDevice
<1>8. ASSUME NEW c \in Client, Return(c) PROVE ParserTypes'
  <2>1. identity[c].device \in Device \cup {None}
    BY DeviceOf
  <2> QED
    BY <1>8, <2>1 DEF Return, Answer
<1>9. ASSUME NEW x \in Caller, Register(x) PROVE ParserTypes'
  <2>1. CASE \E d \in Fresh, quality \in Quality \cup {"noPeers"} :
               /\ registered' = registered \cup {d}
               /\ identity' = [identity EXCEPT ![x] = [device |-> d, quality |-> quality]]
    <3>1. Fresh \subseteq Device
      BY DEF Fresh
    <3>2. identity' \in [Caller -> Identities] /\ registered' \subseteq Device
      BY <2>1, <3>1
    <3> QED
      BY <1>9, <3>2 DEF Register
  <2>2. CASE registered' \subseteq registered \cup Fresh /\ UNCHANGED identity
    BY <1>9, <2>2 DEF Register, Fresh
  <2> QED
    BY <1>9, <2>1, <2>2 DEF Register
<1>10. ASSUME NEW x \in Caller, UpdateAccount(x) PROVE ParserTypes'
  BY <1>10 DEF UpdateAccount
<1>11. ASSUME UNCHANGED vars PROVE ParserTypes'
  BY <1>11
<1> QED
  BY <1>1, <1>2, <1>3, <1>4, <1>5, <1>6, <1>7, <1>8, <1>9, <1>10, <1>11 DEF Next, Caller
\* A request for a device has one that nobody has, or an error.
RegisterSucceeds(x, d) ==
  /\ step' = [step EXCEPT ![x] = step'[x]] /\ step'[x] \in {"licence", "answer"}
  /\ registered' = registered \cup {d}
  /\ identity' = [identity EXCEPT ![x] = identity'[x]] /\ identity'[x].device = d
  /\ UNCHANGED <<parserVars, account, givenUp, refused, dead>>

RegisterFails(x, lost) ==
  /\ step' = [step EXCEPT ![x] = "error"]
  /\ registered' = registered \cup lost
  /\ givenUp' = givenUp \cup lost
  /\ UNCHANGED <<parserVars, identity, account, refused, dead>>

LEMMA RegisterOutcome ==
  ASSUME ParserTypes, NEW x \in Caller, Register(x)
  PROVE  \/ \E d \in Fresh : RegisterSucceeds(x, d)
         \/ \E lost \in SUBSET Fresh : RegisterFails(x, lost)
<1>1. CASE \E lost \in SUBSET Fresh : RegisterFails(x, lost)
  BY <1>1
<1>2. CASE ~\E lost \in SUBSET Fresh : RegisterFails(x, lost)
  <2>1. PICK d \in Fresh, quality \in Quality \cup {"noPeers"}, licence \in Licences(x) :
          /\ registered' = registered \cup {d}
          /\ identity' = [identity EXCEPT ![x] = [device |-> d, quality |-> quality]]
          /\ step' = [step EXCEPT ![x] = IF licence THEN "licence" ELSE "answer"]
          /\ UNCHANGED givenUp
    BY <1>2 DEF Register, RegisterFails
  <2>2. identity'[x] = [device |-> d, quality |-> quality]
    BY <2>1 DEF ParserTypes
  <2>3. RegisterSucceeds(x, d)
    BY <2>1, <2>2 DEF Register, RegisterSucceeds, ParserTypes
  <2> QED
    BY <2>3
<1> QED
  BY <1>1, <1>2

LEMMA PlacesKept == ParserInv /\ [Next]_vars => PlaceInv'
<1> SUFFICES ASSUME ParserInv, [Next]_vars PROVE PlaceInv'
  OBVIOUS
<1> USE DeviceAssumption, ClientAssumption
    DEF ParserInv, ParserTypes, PlaceInv, Caller, vars, parserVars, warpVars, MayRun,
        Out, LeftAlone, FromOptions
<1>1. ASSUME NEW d \in Documents, ParseConfigContent(d) PROVE PlaceInv'
  BY <1>1, DocumentsAssumption DEF ParseConfigContent
<1>2. ASSUME NEW i \in Places, PatchAtOnce(i) PROVE PlaceInv'
  <2>1. task' = [task EXCEPT ![i] = "done"]
    BY <1>2, PatchedAtOnce DEF Done
  <2> QED
    BY <1>2, <2>1 DEF PatchAtOnce
<1>3. ASSUME NEW i \in Places, PatchByRequest(i) PROVE PlaceInv'
  BY <1>3 DEF PatchByRequest
<1>4. ASSUME NEW i \in Places, Patched(i) PROVE PlaceInv'
  <2>1. task' = [task EXCEPT ![i] = "done"] /\ task[i] = "running"
    BY <1>4, PatchedByRequest DEF Done
  <2> QED
    BY <1>4, <2>1 DEF Patched
<1>5. ASSUME Collect PROVE PlaceInv'
  BY <1>5 DEF Collect
<1>6. ASSUME NEW c \in Client, GenerateWarpConfig(c) PROVE PlaceInv'
  BY <1>6 DEF GenerateWarpConfig
<1>7. ASSUME NEW c \in Client, DeleteDevice(c) PROVE PlaceInv'
  BY <1>7 DEF DeleteDevice
<1>8. ASSUME NEW c \in Client, Return(c) PROVE PlaceInv'
  BY <1>8 DEF Return
<1>9. ASSUME NEW x \in Caller, Register(x) PROVE PlaceInv'
  BY <1>9 DEF Register
<1>10. ASSUME NEW x \in Caller, UpdateAccount(x) PROVE PlaceInv'
  BY <1>10 DEF UpdateAccount
<1>11. ASSUME UNCHANGED vars PROVE PlaceInv'
  BY <1>11
<1> QED
  BY <1>1, <1>2, <1>3, <1>4, <1>5, <1>6, <1>7, <1>8, <1>9, <1>10, <1>11 DEF Next, Caller

LEMMA RequestsKept == ParserInv /\ [Next]_vars => RequestInv'
<1> SUFFICES ASSUME ParserInv, [Next]_vars PROVE RequestInv'
  OBVIOUS
<1> USE DeviceAssumption, ClientAssumption
    DEF ParserInv, ParserTypes, PlaceInv, RequestInv, Caller, NoIdentity, vars, parserVars,
        warpVars, MayRun
<1>1. ASSUME NEW d \in Documents, ParseConfigContent(d) PROVE RequestInv'
  BY <1>1 DEF ParseConfigContent
<1>2. ASSUME NEW i \in Places, PatchAtOnce(i) PROVE RequestInv'
  <2>1. task' = [task EXCEPT ![i] = "done"]
    BY <1>2, PatchedAtOnce DEF Done
  <2> QED
    BY <1>2, <2>1 DEF PatchAtOnce
<1>3. ASSUME NEW i \in Places, PatchByRequest(i) PROVE RequestInv'
  BY <1>3 DEF PatchByRequest
<1>4. ASSUME NEW i \in Places, Patched(i) PROVE RequestInv'
  <2>1. task' = [task EXCEPT ![i] = "done"] /\ task[i] = "running"
    BY <1>4, PatchedByRequest DEF Done
  <2> QED
    BY <1>4, <2>1 DEF Patched
<1>5. ASSUME Collect PROVE RequestInv'
  BY <1>5 DEF Collect
<1>6. ASSUME NEW c \in Client, GenerateWarpConfig(c) PROVE RequestInv'
  BY <1>6 DEF GenerateWarpConfig
<1>7. ASSUME NEW c \in Client, DeleteDevice(c) PROVE RequestInv'
  BY <1>7 DEF DeleteDevice
<1>8. ASSUME NEW c \in Client, Return(c) PROVE RequestInv'
  BY <1>8 DEF Return
<1>9. ASSUME NEW x \in Caller, Register(x) PROVE RequestInv'
  <2>1. ASSUME NEW d \in Fresh, RegisterSucceeds(x, d) PROVE RequestInv'
    <3>1. d \in Device /\ d # None
      BY DeviceAssumption DEF Fresh
    <3> QED
      BY <2>1, <3>1 DEF RegisterSucceeds
  <2>2. ASSUME NEW lost \in SUBSET Fresh, RegisterFails(x, lost) PROVE RequestInv'
    BY <1>9, <2>2 DEF Register, RegisterFails
  <2> QED
    BY <1>9, <2>1, <2>2, RegisterOutcome
<1>10. ASSUME NEW x \in Caller, UpdateAccount(x) PROVE RequestInv'
  BY <1>10 DEF UpdateAccount
<1>11. ASSUME UNCHANGED vars PROVE RequestInv'
  BY <1>11
<1> QED
  BY <1>1, <1>2, <1>3, <1>4, <1>5, <1>6, <1>7, <1>8, <1>9, <1>10, <1>11 DEF Next, Caller
LEMMA DevicesKept == ParserInv /\ [Next]_vars => DeviceInv'
<1> SUFFICES ASSUME ParserInv, [Next]_vars PROVE DeviceInv'
  OBVIOUS
<1> USE DeviceAssumption, ClientAssumption
    DEF ParserInv, ParserTypes, DeviceInv, Caller, NoIdentity, vars, parserVars, warpVars
<1>1. ASSUME NEW d \in Documents, ParseConfigContent(d) PROVE DeviceInv'
  BY <1>1 DEF ParseConfigContent
<1>2. ASSUME NEW i \in Places, PatchAtOnce(i) PROVE DeviceInv'
  <2>1. givenUp \subseteq givenUp'
    BY <1>2, PatchedAtOnce DEF Done
  <2> QED
    BY <1>2, <2>1 DEF PatchAtOnce
<1>3. ASSUME NEW i \in Places, PatchByRequest(i) PROVE DeviceInv'
  BY <1>3 DEF PatchByRequest
<1>4. ASSUME NEW i \in Places, Patched(i) PROVE DeviceInv'
  <2>1. givenUp \subseteq givenUp'
    BY <1>4, PatchedByRequest DEF Done
  <2> QED
    BY <1>4, <2>1 DEF Patched
<1>5. ASSUME Collect PROVE DeviceInv'
  BY <1>5 DEF Collect
<1>6. ASSUME NEW c \in Client, GenerateWarpConfig(c) PROVE DeviceInv'
  BY <1>6 DEF GenerateWarpConfig
<1>7. ASSUME NEW c \in Client, DeleteDevice(c) PROVE DeviceInv'
  BY <1>7 DEF DeleteDevice
<1>8. ASSUME NEW c \in Client, Return(c) PROVE DeviceInv'
  BY <1>8, DeviceOf DEF Return, Answer, RequestInv
<1>9. ASSUME NEW x \in Caller, Register(x) PROVE DeviceInv'
  <2>1. ASSUME NEW d \in Fresh, RegisterSucceeds(x, d) PROVE DeviceInv'
    <3>1. d \in Device /\ d # None
      BY DeviceAssumption DEF Fresh
    <3>2. \A y \in Caller : identity'[y].device = IF y = x THEN d ELSE identity[y].device
      BY <2>1 DEF RegisterSucceeds
    <3>3. /\ d \notin registered
          /\ \A y \in Caller : identity[y].device # d
          /\ \A c \in Client : account[c] # d
      BY DEF Fresh
    <3>4. /\ registered' = registered \cup {d}
          /\ UNCHANGED <<account, givenUp>>
      BY <2>1 DEF RegisterSucceeds
    <3>5. \A c \in Client : step'[c] \in {"register", "licence", "answer", "error"} =>
            step[c] \in {"register", "licence", "answer", "error"}
      BY <1>9, <2>1 DEF Register, RegisterSucceeds
    <3> QED
      BY <3>1, <3>2, <3>3, <3>4, <3>5
  <2>2. ASSUME NEW lost \in SUBSET Fresh, RegisterFails(x, lost) PROVE DeviceInv'
    BY <1>9, <2>2 DEF Register, RegisterFails, Fresh
  <2> QED
    BY <1>9, <2>1, <2>2, RegisterOutcome
<1>10. ASSUME NEW x \in Caller, UpdateAccount(x) PROVE DeviceInv'
  BY <1>10 DEF UpdateAccount
<1>11. ASSUME UNCHANGED vars PROVE DeviceInv'
  BY <1>11
<1> QED
  BY <1>1, <1>2, <1>3, <1>4, <1>5, <1>6, <1>7, <1>8, <1>9, <1>10, <1>11 DEF Next, Caller
LEMMA ResultKept ==
  ASSUME NEW t, NEW j, ResultOf(t, j),
         results'[t] = results[t], task'[j] = "done",
         document' = document, identity'[j] = identity[j],
         results[t].warp \in registered => results[t].warp \in registered'
  PROVE  ResultOf(t, j)'
  BY DEF ResultOf, PatchOf, FromOptions, Out

\* A step that finishes no task leaves the results true, if it takes nothing away from
\* the tasks that are done.
LEMMA BatchUntouched ==
  ASSUME ParserInv,
         UNCHANGED <<phase, document, results, failed, repeated>>, dead => dead',
         \A i \in Places : task'[i] = "done" <=> task[i] = "done",
         \A i \in Places : task[i] = "done" =>
           /\ identity'[i] = identity[i]
           /\ identity[i].device \in registered => identity[i].device \in registered'
  PROVE  BatchInv'
<1>1. ASSUME phase = "patching", NEW t \in DOMAIN results
      PROVE  (results[t].tag = t /\ \E j \in Places : ResultOf(t, j))'
  <2>1. PICK j \in Places : ResultOf(t, j)
    BY <1>1 DEF ParserInv, BatchInv
  <2>2. task[j] = "done" /\ (results[t].warp \in Device => identity[j].device = results[t].warp)
    BY <2>1 DEF ResultOf
  <2>3. results[t].warp \in registered => results[t].warp \in registered'
    BY <2>2 DEF ParserInv, ParserTypes
  <2>4. ResultOf(t, j)'
    BY <2>1, <2>2, <2>3, ResultKept
  <2>5. results[t].tag = t
    BY <1>1 DEF ParserInv, BatchInv
  <2> QED
    BY <2>4, <2>5
<1> QED
  BY <1>1 DEF ParserInv, BatchInv, Out, TagTwice

LEMMA DoneKeepsBatch ==
  ASSUME ParserInv, NEW i \in Places, NEW warp, Done(i, warp),
         phase = "patching", ~dead, task[i] \notin {"none", "done"},
         UNCHANGED <<phase, document, registered, repeated, identity>>,
         results' # results => PatchOf([tag |-> Out(i).tag, warp |-> warp], Out(i)),
         warp \in Device \/ identity[i].device # None => identity[i].device = warp
  PROVE  BatchInv'
<1>1. /\ task' = [task EXCEPT ![i] = "done"]
      /\ task \in [Places -> {"none", "queued", "running", "done"}]
  BY DEF Done, ParserInv, ParserTypes
<1>2. ASSUME NEW t \in DOMAIN results', t \in DOMAIN results, results'[t] = results[t]
      PROVE  (results[t].tag = t /\ \E j \in Places : ResultOf(t, j))'
  <2>1. PICK j \in Places : ResultOf(t, j) /\ results[t].tag = t
    BY <1>2 DEF ParserInv, BatchInv
  <2>2. task'[j] = "done"
    BY <1>1, <2>1 DEF ResultOf
  <2>3. ResultOf(t, j)'
    BY <1>2, <2>1, <2>2, ResultKept
  <2> QED
    BY <1>2, <2>1, <2>3
<1>3. CASE results' = [t \in DOMAIN results \cup {Out(i).tag} |->
                         IF t = Out(i).tag THEN [tag |-> t, warp |-> warp] ELSE results[t]]
           /\ UNCHANGED <<failed, dead>>
  <2>1. PICK key : key = Out(i).tag /\ key = Out(i)'.tag
    BY DEF Out
  <2>2. results'[key] = [tag |-> key, warp |-> warp]
    BY <1>3, <2>1
  <2>3. ASSUME NEW t \in DOMAIN results'
        PROVE  (results[t].tag = t /\ \E j \in Places : ResultOf(t, j))'
    <3>1. CASE t = key /\ results' # results
      <4>1. PatchOf([tag |-> key, warp |-> warp], Out(i))'
        BY <2>1, <3>1 DEF PatchOf, FromOptions, Out
      <4>2. ResultOf(key, i)'
        BY <1>1, <2>1, <2>2, <4>1 DEF ResultOf
      <4> QED
        BY <2>2, <3>1, <4>2
    <3>2. CASE t # key \/ results' = results
      BY <1>2, <1>3, <2>1, <3>2
    <3> QED
      BY <3>1, <3>2
  <2>4. ASSUME NEW j \in Places, (~failed /\ ~dead /\ task[j] = "done")'
        PROVE  (/\ Out(j).tag \in DOMAIN results
                /\ ~repeated /\ identity[j].device # None =>
                     results[Out(j).tag].warp = identity[j].device)'
    <3>1. CASE j = i
      BY <1>3, <3>1 DEF Out
    <3>2. CASE j # i
      <4>1. {i, j} \subseteq DOMAIN document.outbounds /\ task[j] = "done"
        BY <1>1, <2>4, <3>2 DEF PlaceInv, ParserInv
      <4>2. repeated \/ Out(j).tag # Out(i).tag
        BY <3>2, <4>1 DEF ParserInv, BatchInv, TagTwice, Out
      <4>3. /\ Out(j).tag \in DOMAIN results
            /\ ~repeated /\ identity[j].device # None =>
                 results[Out(j).tag].warp = identity[j].device
        BY <1>3, <2>4, <4>1 DEF ParserInv, BatchInv
      <4> QED
        BY <1>3, <4>2, <4>3 DEF Out
    <3> QED
      BY <3>1, <3>2
  <2> QED
    BY <2>3, <2>4 DEF ParserInv, BatchInv, TagTwice
<1>4. CASE (failed' \/ dead') /\ UNCHANGED results
  BY <1>2, <1>4 DEF ParserInv, BatchInv, TagTwice
<1> QED
  BY <1>3, <1>4 DEF Done

LEMMA BatchKept == ParserInv /\ [Next]_vars => BatchInv'
<1> SUFFICES ASSUME ParserInv, [Next]_vars PROVE BatchInv'
  OBVIOUS
<1> USE DeviceAssumption, ClientAssumption
    DEF ParserInv, ParserTypes, Caller, NoIdentity, vars, parserVars, warpVars, MayRun
<1>1. ASSUME NEW d \in Documents, ParseConfigContent(d) PROVE BatchInv'
  BY <1>1, NoResults DEF ParseConfigContent, BatchInv, TagTwice
<1>2. ASSUME NEW i \in Places, PatchAtOnce(i) PROVE BatchInv'
  <2>1. PICK warp \in {"none", "p1", "p2"} :
          /\ Done(i, warp)
          /\ PatchOf([tag |-> Out(i).tag, warp |-> warp], Out(i))
    BY <1>2, PatchedAtOnce
  <2>2. phase = "patching" /\ identity[i].device = None
    BY <1>2 DEF PatchAtOnce, PlaceInv
  <2> QED
    BY <1>2, <2>1, <2>2, DoneKeepsBatch DEF PatchAtOnce
<1>3. ASSUME NEW i \in Places, PatchByRequest(i) PROVE BatchInv'
  BY <1>3, BatchUntouched DEF PatchByRequest
<1>4. ASSUME NEW i \in Places, Patched(i) PROVE BatchInv'
  <2>1. /\ task[i] = "running" /\ phase = "patching"
        /\ ~LeftAlone(Out(i)) /\ ~FromOptions(Out(i))
        /\ Done(i, identity[i].device)
    BY <1>4, PatchedByRequest DEF PlaceInv
  <2>2. results' # results => PatchOf([tag |-> Out(i).tag, warp |-> identity[i].device], Out(i))
    BY <1>4, <2>1, PatchedByRequest DEF LeftAlone, PatchOf
  <2> QED
    BY <1>4, <2>1, <2>2, DoneKeepsBatch DEF Patched
<1>5. ASSUME Collect PROVE BatchInv'
  BY <1>5, NoResults DEF Collect, BatchInv, TagTwice
<1>6. ASSUME NEW c \in Client, GenerateWarpConfig(c) PROVE BatchInv'
  BY <1>6, BatchUntouched DEF GenerateWarpConfig
<1>7. ASSUME NEW c \in Client, DeleteDevice(c) PROVE BatchInv'
  BY <1>7, BatchUntouched DEF DeleteDevice, DeviceInv
<1>8. ASSUME NEW c \in Client, Return(c) PROVE BatchInv'
  BY <1>8, BatchUntouched DEF Return
<1>9. ASSUME NEW x \in Caller, Register(x) PROVE BatchInv'
  <2>1. \A j \in Places : task[j] = "done" => j # x
    BY <1>9 DEF Register, PlaceInv
  <2>2. ASSUME NEW d \in Fresh, RegisterSucceeds(x, d) PROVE BatchInv'
    BY <2>1, <2>2, BatchUntouched DEF RegisterSucceeds
  <2>3. ASSUME NEW lost \in SUBSET Fresh, RegisterFails(x, lost) PROVE BatchInv'
    BY <2>3, BatchUntouched DEF RegisterFails
  <2> QED
    BY <1>9, <2>2, <2>3, RegisterOutcome
<1>10. ASSUME NEW x \in Caller, UpdateAccount(x) PROVE BatchInv'
  BY <1>10, BatchUntouched DEF UpdateAccount, PlaceInv
<1>11. ASSUME UNCHANGED vars PROVE BatchInv'
  BY <1>11, BatchUntouched
<1> QED
  BY <1>1, <1>2, <1>3, <1>4, <1>5, <1>6, <1>7, <1>8, <1>9, <1>10, <1>11 DEF Next, Caller
LEMMA PatchesUntouched ==
  ASSUME PatchedByTag, UNCHANGED <<phase, document, result>>,
         phase = "returned" => \A i \in DOMAIN result :
           result[i].warp \in registered => result[i].warp \in registered'
  PROVE  PatchedByTag'
<1> SUFFICES ASSUME phase = "returned" PROVE PatchedByTag'
  BY DEF PatchedByTag
<1>1. ASSUME NEW i \in DOMAIN result, NEW o, PatchOf(result[i], o)
      PROVE  PatchOf(result[i], o)'
  BY <1>1 DEF PatchOf, FromOptions
<1>2. DOMAIN result = DOMAIN document.outbounds
  BY DEF PatchedByTag
<1> QED
  BY <1>1, <1>2 DEF PatchedByTag

\* What Collect returns, of every outbound of the document.
LEMMA CollectReturns ==
  ASSUME ParserInv, Collect, phase' = "returned", NEW i \in DOMAIN document.outbounds
  PROVE  /\ i \in Places /\ document' = document /\ ~failed
         /\ DOMAIN result' = DOMAIN document.outbounds
         /\ result'[i] = results[Out(i).tag] /\ result'[i].tag = Out(i).tag
         /\ task[i] = "done" /\ Out(i).tag \in DOMAIN results
         /\ \E j \in Places : ResultOf(Out(i).tag, j) /\ j \in DOMAIN document.outbounds
<1>1. phase = "patching" /\ document \in Documents /\ ~dead
  BY DEF Collect, ParserInv, ParserTypes
<1>2. i \in Places
  BY <1>1, DocumentsAssumption
<1>3. task[i] = "done"
  BY <1>1, <1>2 DEF Collect, ParserInv, PlaceInv
<1>4. /\ ~failed /\ document' = document
      /\ result' = [k \in DOMAIN document.outbounds |-> results[document.outbounds[k].tag]]
  BY DEF Collect
<1>5. Out(i).tag \in DOMAIN results
  BY <1>1, <1>2, <1>3, <1>4 DEF ParserInv, BatchInv
<1>6. PICK j \in Places : ResultOf(Out(i).tag, j) /\ results[Out(i).tag].tag = Out(i).tag
  BY <1>1, <1>5 DEF ParserInv, BatchInv
<1>7. j \in DOMAIN document.outbounds
  BY <1>6 DEF ResultOf, ParserInv, PlaceInv
<1> QED
  BY <1>2, <1>3, <1>4, <1>5, <1>6, <1>7 DEF Out

LEMMA PatchesKept == ParserInv /\ [Next]_vars => PatchedByTag'
<1> SUFFICES ASSUME ParserInv, [Next]_vars PROVE PatchedByTag'
  OBVIOUS
<1> USE DEF ParserInv, vars, parserVars, warpVars
<1>1. ASSUME NEW d \in Documents, ParseConfigContent(d) PROVE PatchedByTag'
  BY <1>1 DEF ParseConfigContent, PatchedByTag
<1>2. ASSUME NEW i \in Places, PatchAtOnce(i) PROVE PatchedByTag'
  BY <1>2, PatchesUntouched DEF PatchAtOnce
<1>3. ASSUME NEW i \in Places, PatchByRequest(i) PROVE PatchedByTag'
  BY <1>3, PatchesUntouched DEF PatchByRequest
<1>4. ASSUME NEW i \in Places, Patched(i) PROVE PatchedByTag'
  BY <1>4, PatchesUntouched DEF Patched
<1>5. ASSUME Collect PROVE PatchedByTag'
  <2> SUFFICES ASSUME phase' = "returned" PROVE PatchedByTag'
    BY DEF PatchedByTag
  <2>1. document' = document /\ registered' = registered
    BY <1>5 DEF Collect
  <2>2. ASSUME NEW i \in DOMAIN document.outbounds
        PROVE  \E j \in DOMAIN document.outbounds :
                 Out(j).tag = Out(i).tag /\ PatchOf(result[i], Out(j))'
    <3>1. PICK j \in DOMAIN document.outbounds :
            ResultOf(Out(i).tag, j) /\ result'[i] = results[Out(i).tag]
      BY <1>5, CollectReturns
    <3>2. PatchOf(result[i], Out(j))'
      BY <2>1, <3>1 DEF ResultOf, PatchOf, FromOptions, Out
    <3> QED
      BY <3>1, <3>2 DEF ResultOf
  <2>3. ASSUME NEW i \in DOMAIN document.outbounds, NEW j \in DOMAIN document.outbounds,
               result'[i].warp \in Device, result'[i].warp = result'[j].warp
        PROVE  Out(i).tag = Out(j).tag
    <3>1. PICK k \in Places : ResultOf(Out(i).tag, k) /\ result'[i] = results[Out(i).tag]
      BY <1>5, CollectReturns
    <3>2. PICK l \in Places : ResultOf(Out(j).tag, l) /\ result'[j] = results[Out(j).tag]
      BY <1>5, CollectReturns
    <3>3. /\ identity[k].device = identity[l].device /\ identity[k].device # None
          /\ Out(k).tag = Out(i).tag /\ Out(l).tag = Out(j).tag
      BY <2>3, <3>1, <3>2, DeviceAssumption DEF ResultOf
    <3>4. k = l
      BY <3>3 DEF DeviceInv, Caller
    <3> QED
      BY <3>3, <3>4
  <2>4. \A i, j \in DOMAIN document.outbounds :
          /\ result'[i].tag = Out(i).tag
          /\ Out(i).tag = Out(j).tag => result'[i] = result'[j]
    BY <1>5, CollectReturns
  <2>5. DOMAIN result' = DOMAIN document.outbounds
    BY <1>5 DEF Collect
  <2> QED
    BY <2>1, <2>2, <2>3, <2>4, <2>5 DEF PatchedByTag, Out
<1>6. ASSUME NEW c \in Client, GenerateWarpConfig(c) PROVE PatchedByTag'
  BY <1>6, PatchesUntouched DEF GenerateWarpConfig
<1>7. ASSUME NEW c \in Client, DeleteDevice(c) PROVE PatchedByTag'
  BY <1>7, PatchesUntouched DEF DeleteDevice, ReturnedInv, ParserTypes
<1>8. ASSUME NEW c \in Client, Return(c) PROVE PatchedByTag'
  BY <1>8, PatchesUntouched DEF Return
<1>9. ASSUME NEW x \in Caller, Register(x) PROVE PatchedByTag'
  <2>1. ASSUME NEW d \in Fresh, RegisterSucceeds(x, d) PROVE PatchedByTag'
    BY <2>1, PatchesUntouched DEF RegisterSucceeds
  <2>2. ASSUME NEW lost \in SUBSET Fresh, RegisterFails(x, lost) PROVE PatchedByTag'
    BY <2>2, PatchesUntouched DEF RegisterFails
  <2> QED
    BY <1>9, <2>1, <2>2, RegisterOutcome
<1>10. ASSUME NEW x \in Caller, UpdateAccount(x) PROVE PatchedByTag'
  BY <1>10, PatchesUntouched DEF UpdateAccount
<1>11. ASSUME UNCHANGED vars PROVE PatchedByTag'
  BY <1>11, PatchesUntouched
<1> QED
  BY <1>1, <1>2, <1>3, <1>4, <1>5, <1>6, <1>7, <1>8, <1>9, <1>10, <1>11 DEF Next, Caller

LEMMA ReturnedKept == ParserInv /\ [Next]_vars => ReturnedInv'
<1> SUFFICES ASSUME ParserInv, [Next]_vars PROVE ReturnedInv'
  OBVIOUS
<1> USE DeviceAssumption, ClientAssumption
    DEF ParserInv, ParserTypes, ReturnedInv, Caller, NoIdentity, Answer, vars, parserVars,
        warpVars
<1>1. ASSUME NEW d \in Documents, ParseConfigContent(d) PROVE ReturnedInv'
  BY <1>1 DEF ParseConfigContent
<1>2. ASSUME NEW i \in Places, PatchAtOnce(i) PROVE ReturnedInv'
  BY <1>2 DEF PatchAtOnce
<1>3. ASSUME NEW i \in Places, PatchByRequest(i) PROVE ReturnedInv'
  BY <1>3 DEF PatchByRequest
<1>4. ASSUME NEW i \in Places, Patched(i) PROVE ReturnedInv'
  BY <1>4 DEF Patched
<1>5. ASSUME Collect PROVE ReturnedInv'
  <2> SUFFICES ASSUME phase' = "returned", NEW i \in DOMAIN document.outbounds,
                      result'[i].warp \in Device
               PROVE  /\ result'[i].warp \in registered'
                      /\ \A x \in Caller : identity'[x].device # result'[i].warp
                      /\ \A c \in Client : account'[c] # result'[i].warp
    BY <1>5 DEF ReturnedInv, Collect
  <2>1. PICK j \in Places : ResultOf(Out(i).tag, j) /\ result'[i] = results[Out(i).tag]
    BY <1>5, CollectReturns
  <2>2. identity[j].device = result'[i].warp /\ identity[j].device # None
    BY <2>1, DeviceAssumption DEF ResultOf
  <2>3. \A x \in Caller : identity'[x].device = IF x \in Places THEN None ELSE identity[x].device
    BY <1>5 DEF Collect, Caller, NoIdentity
  <2>4. registered' = registered /\ account' = account
    BY <1>5 DEF Collect
  <2> QED
    BY <2>2, <2>3, <2>4 DEF DeviceInv, Caller
<1>6. ASSUME NEW c \in Client, GenerateWarpConfig(c) PROVE ReturnedInv'
  BY <1>6 DEF GenerateWarpConfig
<1>7. ASSUME NEW c \in Client, DeleteDevice(c) PROVE ReturnedInv'
  BY <1>7 DEF DeleteDevice
<1>8. ASSUME NEW c \in Client, Return(c) PROVE ReturnedInv'
  BY <1>8 DEF Return, DeviceInv
<1>9. ASSUME NEW x \in Caller, Register(x) PROVE ReturnedInv'
  <2>0. phase' = phase /\ result' = result
    BY <1>9 DEF Register
  <2>1. ASSUME NEW d \in Fresh, RegisterSucceeds(x, d) PROVE ReturnedInv'
    BY <2>1 DEF RegisterSucceeds, Fresh
  <2>2. ASSUME NEW lost \in SUBSET Fresh, RegisterFails(x, lost) PROVE ReturnedInv'
    BY <2>2, <2>0 DEF RegisterFails
  <2> QED
    BY <1>9, <2>1, <2>2, RegisterOutcome
<1>10. ASSUME NEW x \in Caller, UpdateAccount(x) PROVE ReturnedInv'
  BY <1>10 DEF UpdateAccount
<1>11. ASSUME UNCHANGED vars PROVE ReturnedInv'
  BY <1>11
<1> QED
  BY <1>1, <1>2, <1>3, <1>4, <1>5, <1>6, <1>7, <1>8, <1>9, <1>10, <1>11 DEF Next, Caller
\* DevicesAreHeld, of each device.
HeldInv ==
  /\ ~repeated => \A d \in registered :
       \/ \E c \in Client : account[c] = d
       \/ \E x \in Caller : identity[x].device = d
       \/ d \in returned \/ d \in givenUp
  /\ \A c \in Client :
       account[c] \in Device /\ step[c] = "none" /\ c \notin refused => account[c] \in registered

LEMMA HeldMeans == ParserTypes => (DevicesAreHeld <=> HeldInv)
<1> SUFFICES ASSUME ParserTypes PROVE DevicesAreHeld <=> HeldInv
  OBVIOUS
<1>1. DOMAIN identity = Caller
  BY DEF ParserTypes
<1> QED
  BY <1>1 DEF DevicesAreHeld, HeldInv

LEMMA DevicesStayHeld == ParserInv /\ [Next]_vars => HeldInv'
<1> SUFFICES ASSUME ParserInv, [Next]_vars PROVE HeldInv'
  OBVIOUS
<1>0. HeldInv
  BY HeldMeans DEF ParserInv
<1> USE <1>0, DeviceAssumption, ClientAssumption
    DEF ParserInv, ParserTypes, HeldInv, Caller, NoIdentity, Answer, vars, parserVars,
        warpVars
<1>1. ASSUME NEW d \in Documents, ParseConfigContent(d) PROVE HeldInv'
  BY <1>1 DEF ParseConfigContent
<1>2. ASSUME NEW i \in Places, PatchAtOnce(i) PROVE HeldInv'
  <2>1. givenUp \subseteq givenUp'
    BY <1>2, PatchedAtOnce DEF Done
  <2> QED
    BY <1>2, <2>1 DEF PatchAtOnce
<1>3. ASSUME NEW i \in Places, PatchByRequest(i) PROVE HeldInv'
  BY <1>3 DEF PatchByRequest
<1>4. ASSUME NEW i \in Places, Patched(i) PROVE HeldInv'
  <2>1. givenUp \subseteq givenUp'
    BY <1>4, PatchedByRequest DEF Done
  <2> QED
    BY <1>4, <2>1 DEF Patched
<1>5. ASSUME Collect PROVE HeldInv'
  <2>1. CASE phase' = "idle" /\ givenUp' = givenUp \cup Devices /\ UNCHANGED returned
    BY <1>5, <2>1 DEF Collect, Devices
  <2>2. CASE /\ ~failed /\ ~dead /\ UNCHANGED givenUp
             /\ returned' = returned \cup ({results[t].warp : t \in DOMAIN results} \cap Device)
    <3>1. ASSUME ~repeated, NEW i \in Places, identity[i].device # None
          PROVE  identity[i].device \in returned'
      <4>1. phase = "patching" /\ task[i] = "done"
        BY <1>5, <3>1 DEF Collect, PlaceInv
      <4>2. Out(i).tag \in DOMAIN results /\ results[Out(i).tag].warp = identity[i].device
        BY <2>2, <3>1, <4>1 DEF BatchInv
      <4>3. identity[i].device \in Device
        BY <3>1, DeviceOf
      <4> QED
        BY <2>2, <4>2, <4>3
    <3>2. /\ UNCHANGED <<repeated, step, account, registered, refused>>
          /\ \A c \in Client : identity'[c] = identity[c]
      BY <1>5 DEF Collect
    <3>3. returned \subseteq returned' /\ None \notin registered
      BY <2>2
    <3> QED
      BY <2>2, <3>1, <3>2, <3>3
  <2> QED
    BY <1>5, <2>1, <2>2 DEF Collect
<1>6. ASSUME NEW c \in Client, GenerateWarpConfig(c) PROVE HeldInv'
  BY <1>6 DEF GenerateWarpConfig
<1>7. ASSUME NEW c \in Client, DeleteDevice(c) PROVE HeldInv'
  BY <1>7, DeviceOf DEF DeleteDevice, DeviceInv
<1>8. ASSUME NEW c \in Client, Return(c) PROVE HeldInv'
  <2>1. /\ registered' = registered /\ UNCHANGED <<returned, repeated>>
        /\ \A x \in Caller : x # c => identity'[x] = identity[x]
        /\ \A b \in Client : b # c => account'[b] = account[b]
        /\ \A b \in Client : b # c => step'[b] = step[b]
        /\ \A b \in Client : b # c => (b \in refused' <=> b \in refused)
    BY <1>8 DEF Return
  <2>2. CASE account'[c] = identity[c].device /\ UNCHANGED givenUp
    <3>1. account[c] = None \/ account[c] \notin registered \/ account[c] \in givenUp
      BY <1>8 DEF Return, DeviceInv
    <3>2. identity[c].device = None \/ identity[c].device \in registered
      BY DEF DeviceInv
    <3> QED
      BY <2>1, <2>2, <3>1, <3>2
  <2>3. CASE /\ account' = account /\ c \in refused' /\ givenUp \subseteq givenUp'
             /\ identity'[c] = identity[c] \/ identity[c].device \in givenUp' \cup {None}
    BY <2>1, <2>3
  <2> QED
    BY <1>8, <2>2, <2>3 DEF Return
<1>9. ASSUME NEW x \in Caller, Register(x) PROVE HeldInv'
  <2>1. ASSUME NEW d \in Fresh, RegisterSucceeds(x, d) PROVE HeldInv'
    <3>1. identity[x] = NoIdentity
      BY <1>9 DEF Register, RequestInv
    <3>2. /\ \A y \in Caller : y # x => identity'[y] = identity[y]
          /\ identity'[x].device = d
          /\ registered' = registered \cup {d}
          /\ UNCHANGED <<account, givenUp, returned, repeated, refused>>
      BY <2>1 DEF RegisterSucceeds
    <3>3. \A c \in Client : step'[c] = "none" => step[c] = "none"
      BY <1>9, <2>1 DEF RegisterSucceeds
    <3>4. registered \subseteq Device
      OBVIOUS
    <3> QED
      BY <3>1, <3>2, <3>3, <3>4
  <2>2. ASSUME NEW lost \in SUBSET Fresh, RegisterFails(x, lost) PROVE HeldInv'
    BY <1>9, <2>2 DEF Register, RegisterFails
  <2> QED
    BY <1>9, <2>1, <2>2, RegisterOutcome
<1>10. ASSUME NEW x \in Caller, UpdateAccount(x) PROVE HeldInv'
  BY <1>10 DEF UpdateAccount
<1>11. ASSUME UNCHANGED vars PROVE HeldInv'
  BY <1>11
<1> QED
  BY <1>1, <1>2, <1>3, <1>4, <1>5, <1>6, <1>7, <1>8, <1>9, <1>10, <1>11 DEF Next, Caller

-----------------------------------------------------------------------------
LEMMA ParserInvariant == Spec => []ParserInv
<1>1. ParserInv /\ [Next]_vars => ParserInv'
  <2> SUFFICES ASSUME ParserInv, [Next]_vars PROVE ParserInv'
    OBVIOUS
  <2>1. ParserTypes'
    BY TypesKept
  <2>2. DevicesAreHeld'
    BY <2>1, HeldMeans, DevicesStayHeld, PTL
  <2> QED
    BY <2>1, <2>2, PlacesKept, RequestsKept, DevicesKept, BatchKept, ReturnedKept, PatchesKept
       DEF ParserInv
<1> QED
  BY ParserInitially, <1>1, PTL DEF Spec

\* What ParseConfigContent returns is, in its place, the patch of an outbound with the
\* same tag, whatever order the tasks of the batch end in, and outbounds with different
\* tags never share a device.
THEOREM PatchesGoByTag == Spec => []PatchedByTag
<1>1. ParserInv => PatchedByTag
  BY DEF ParserInv
<1> QED
  BY ParserInvariant, <1>1, PTL

\* A device that is registered with the WARP service is in somebody's hands, unless an
\* error left it behind or a document named a tag twice; and a client that was not
\* refused has an account that is registered.
THEOREM NoDeviceIsLost == Spec => []DevicesAreHeld
<1>1. ParserInv => DevicesAreHeld
  BY DEF ParserInv
<1> QED
  BY ParserInvariant, <1>1, PTL
=============================================================================
