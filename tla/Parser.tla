------------------------------- MODULE Parser -------------------------------
(***************************************************************************)
(* config.ParseConfigContent (config/parser.go): from a client's document  *)
(* to the outbounds of a configuration, and what makes the WARP outbounds  *)
(* of a document and the WARP accounts of the clients, GenerateWarpInfo    *)
(* (config/warp.go, pkg/warp/account.go, v2/warp.go).                      *)
(*                                                                         *)
(* One document is parsed at a time, its outbounds patched by a batch of   *)
(* goroutines, two of them at once; clients ask for accounts meanwhile.    *)
(* A task of the batch is the place of its outbound in the document.       *)
(* A request to the WARP service is a step: it may be refused, and its     *)
(* answer may be lost when it has been carried out.                        *)
(***************************************************************************)
EXTENDS Naturals, Sequences, FiniteSets

CONSTANTS
  Client,     \* those who ask for WARP accounts
  Documents,  \* what is parsed: [format, opt, outbounds]
  Places,     \* the places of the longest document
  Device,     \* the devices the WARP service can register (a bound)
  None        \* no device

ASSUME DeviceAssumption == Device \cap {None, "none", "p1", "p2"} = {}
ASSUME ClientAssumption == Client \cap Places = {}
ASSUME DocumentsAssumption == \A d \in Documents : DOMAIN d.outbounds \subseteq Places

VARIABLES
  phase,       \* idle, or a document is being patched, or it was returned
  document,    \* the document in hand
  task,        \* Places -> the state of its goroutine
  results,     \* the results of the batch: a function from tags
  failed,      \* has a task of the batch failed
  result,      \* the outbounds that were returned
  step,        \* Client \cup Places -> the next step of its GenerateWarpInfo
  identity,    \* Client \cup Places -> the identity it has got
  account,     \* Client -> the account the client has
  registered,  \* the devices the WARP service knows
  returned,    \* history: the devices of the outbounds that were returned
  givenUp,     \* history: the devices an error left behind
  repeated,    \* history: was a tag of a document there twice
  refused,     \* history: the clients whose last request failed
  dead         \* has the process ended in a panic

parserVars == <<phase, document, task, results, failed, result, returned, repeated>>
warpVars   == <<step, identity, account, registered, givenUp, refused, dead>>
vars == <<parserVars, warpVars>>

NoIdentity == [device |-> None, quality |-> "none"]
NilOptions == [p1 |-> "none", p2 |-> "none"]
NoDocument == [format |-> "none", opt |-> NilOptions, outbounds |-> <<>>]

Init ==
  /\ phase = "idle" /\ document = NoDocument
  /\ task = [i \in Places |-> "none"]
  /\ results = <<>> /\ failed = FALSE /\ result = <<>>
  /\ step = [x \in Client \cup Places |-> "none"]
  /\ identity = [x \in Client \cup Places |-> NoIdentity]
  /\ account = [c \in Client |-> None]
  /\ registered = {} /\ returned = {} /\ givenUp = {} /\ refused = {}
  /\ repeated = FALSE /\ dead = FALSE

-----------------------------------------------------------------------------
(***************************************************************************)
(* Mutants: the tasks of the batch share the variable of the loop; a       *)
(* client is told the account it gave and not the new one.                 *)
(***************************************************************************)
MutantOut(i) == document.outbounds[Len(document.outbounds)]

MutantAnswer(c) == account[c]

-----------------------------------------------------------------------------
(***************************************************************************)
(* The formats, in the order they are tried.  A JSON object has outbounds, *)
(* an empty list too, or is "bare": then it is made an outbound of itself, *)
(* which cannot be encoded.  Other JSON is an error, an array too: the     *)
(* decoder never makes the slice of maps the code looks for.  What else is *)
(* kept of a JSON object, if the options say so, is left out, and so is a  *)
(* document that does not decode.                                          *)
(***************************************************************************)
Parses(d) ==
  \/ d.format \in {"object", "links"}
  \/ d.format = "clash" /\ Len(d.outbounds) > 0

Out(i) == document.outbounds[i]

TagTwice(d) ==
  \E i, j \in DOMAIN d.outbounds : i # j /\ d.outbounds[i].tag = d.outbounds[j].tag

ParseConfigContent(d) ==
  /\ ~dead /\ phase # "patching"
  /\ UNCHANGED <<warpVars, returned>>
  /\ results' = <<>> /\ failed' = FALSE /\ result' = <<>>
  /\ IF Parses(d)
     THEN /\ phase' = "patching"
          /\ document' = d
          /\ task' = [i \in Places |-> IF i \in DOMAIN d.outbounds THEN "queued" ELSE "none"]
          /\ repeated' = (repeated \/ TagTwice(d))
     ELSE /\ phase' = "idle"
          /\ document' = NoDocument
          /\ UNCHANGED <<task, repeated>>

-----------------------------------------------------------------------------
(***************************************************************************)
(* patchWarp.  An outbound is its tag and the key of its WARP request:     *)
(* none, p1, p2, a new account ("") or one with a licence.  What it        *)
(* becomes is the tag and where its WARP configuration is from: none if it *)
(* is left alone, the options, or a device.                                *)
(***************************************************************************)
FromOptions(o) == o.key \in {"p1", "p2"}
LeftAlone(o)   == o.key = "none" \/ (FromOptions(o) /\ document.opt = NilOptions)

\* What wireGuardToSingbox makes of a configuration: addresses may not parse, and
\* a client id of two bytes is read past its end.
Quality == {"good", "badAddress", "shortId"}

Finish(i, outcome, warp) ==
  LET key == document.outbounds[i].tag IN
  /\ task' = [task EXCEPT ![i] = "done"]
  /\ \/ /\ outcome = "good"
        /\ results' = [t \in DOMAIN results \cup {key} |->
                         IF t = key THEN [tag |-> Out(i).tag, warp |-> warp] ELSE results[t]]
        /\ UNCHANGED <<failed, givenUp, dead>>
     \/ /\ outcome \in {"badAddress", "error"}
        /\ failed' = TRUE
        /\ givenUp' = givenUp \cup ({warp} \cap Device)
        /\ UNCHANGED <<results, dead>>
     \/ /\ outcome \in {"shortId", "noPeers"}
        /\ dead' = TRUE
        /\ UNCHANGED <<results, failed, givenUp>>

\* A goroutine of the batch takes one of its two places.
MayRun(i) ==
  /\ ~dead /\ task[i] = "queued"
  /\ Cardinality({j \in Places : task[j] = "running"}) < 2

PatchAtOnce(i) ==
  /\ MayRun(i)
  /\ UNCHANGED <<phase, document, result, returned, repeated,
                 step, identity, account, registered, refused>>
  /\ \/ LeftAlone(Out(i)) /\ Finish(i, "good", "none")
     \/ /\ FromOptions(Out(i)) /\ ~LeftAlone(Out(i))
        /\ Finish(i, document.opt[Out(i).key], Out(i).key)

PatchByRequest(i) ==
  /\ MayRun(i)
  /\ ~LeftAlone(Out(i)) /\ ~FromOptions(Out(i))
  /\ task' = [task EXCEPT ![i] = "running"]
  /\ step' = [step EXCEPT ![i] = "register"]
  /\ UNCHANGED <<phase, document, results, failed, result, returned, repeated,
                 identity, account, registered, givenUp, refused, dead>>

\* generateWarp has its answer, or its error.
Patched(i) ==
  /\ ~dead
  /\ step[i] \in {"answer", "error"}
  /\ step' = [step EXCEPT ![i] = "none"]
  /\ UNCHANGED <<phase, document, result, returned, repeated,
                 identity, account, registered, refused>>
  /\ IF step[i] = "answer" THEN Finish(i, identity[i].quality, identity[i].device)
     ELSE Finish(i, "error", None)

\* WaitAndGetResult, and the check of the whole.  An outbound is replaced by the
\* result of its tag: the last task to finish, of those with one tag.
Devices == {identity[i].device : i \in Places} \ {None}

Collect ==
  /\ ~dead /\ phase = "patching"
  /\ \A i \in Places : task[i] \in {"none", "done"}
  /\ task' = [i \in Places |-> "none"]
  /\ identity' = [x \in Client \cup Places |-> IF x \in Places THEN NoIdentity ELSE identity[x]]
  /\ results' = <<>> /\ failed' = FALSE
  /\ UNCHANGED <<repeated, step, account, registered, refused, dead>>
  /\ \/ /\ ~failed
        /\ phase' = "returned"
        /\ result' = [i \in DOMAIN document.outbounds |-> results[document.outbounds[i].tag]]
        /\ returned' = returned \cup ({results[t].warp : t \in DOMAIN results} \cap Device)
        /\ UNCHANGED <<document, givenUp>>
     \/ /\ phase' = "idle" /\ document' = NoDocument
        /\ givenUp' = givenUp \cup Devices
        /\ UNCHANGED <<result, returned>>

-----------------------------------------------------------------------------
(***************************************************************************)
(* GenerateWarpInfo: the old device is deleted, if the caller names one; a *)
(* new one is registered; its licence is set, if there is one.  A licence  *)
(* that is refused leaves the new device there, and an identity without    *)
(* peers is read past its end once the licence is settled.                 *)
(***************************************************************************)
Fresh == Device \ (registered \cup {account[c] : c \in Client}
                              \cup {identity[x].device : x \in DOMAIN identity})

Licences(x) == IF x \in Client THEN BOOLEAN ELSE {Out(x).key # ""}

GenerateWarpConfig(c) ==
  /\ ~dead /\ step[c] = "none"
  /\ step' = [step EXCEPT ![c] = IF account[c] = None THEN "register" ELSE "delete"]
  /\ UNCHANGED <<parserVars, identity, account, registered, givenUp, refused, dead>>

\* An error is printed, and the device may be there or not.
DeleteDevice(x) ==
  /\ ~dead /\ step[x] = "delete"
  /\ step' = [step EXCEPT ![x] = "register"]
  /\ \/ /\ registered' = registered \ {account[x]}
        /\ givenUp' = givenUp \ {account[x]}
     \/ givenUp' = givenUp \cup {account[x]} /\ UNCHANGED registered
  /\ UNCHANGED <<parserVars, identity, account, refused, dead>>

Register(x) ==
  /\ ~dead /\ step[x] = "register"
  /\ \/ \E d \in Fresh, quality \in Quality \cup {"noPeers"}, licence \in Licences(x) :
          /\ registered' = registered \cup {d}
          /\ identity' = [identity EXCEPT ![x] = [device |-> d, quality |-> quality]]
          /\ step' = [step EXCEPT ![x] = IF licence THEN "licence" ELSE "answer"]
          /\ UNCHANGED givenUp
     \/ \E lost \in SUBSET Fresh :
          /\ Cardinality(lost) < 2
          /\ registered' = registered \cup lost
          /\ givenUp' = givenUp \cup lost
          /\ step' = [step EXCEPT ![x] = "error"]
          /\ UNCHANGED identity
  /\ UNCHANGED <<parserVars, account, refused, dead>>

UpdateAccount(x) ==
  /\ ~dead /\ step[x] = "licence"
  /\ \/ step' = [step EXCEPT ![x] = "answer"] /\ UNCHANGED <<identity, givenUp>>
     \/ /\ step' = [step EXCEPT ![x] = "error"]
        /\ givenUp' = givenUp \cup {identity[x].device}
        /\ identity' = [identity EXCEPT ![x] = NoIdentity]
  /\ UNCHANGED <<parserVars, account, registered, refused, dead>>

Answer(c) == identity[c].device

\* The answer reaches the client, or is lost; the client keeps the account it has
\* when it gets an error or nothing.
Return(c) ==
  /\ ~dead /\ step[c] \in {"answer", "error"}
  /\ UNCHANGED <<parserVars, registered>>
  /\ step' = [step EXCEPT ![c] = "none"]
  /\ IF step[c] = "answer" /\ identity[c].quality = "noPeers"
     THEN /\ dead' = TRUE
          /\ refused' = refused \cup {c}
          /\ UNCHANGED <<identity, account, givenUp>>
     ELSE /\ identity' = [identity EXCEPT ![c] = NoIdentity]
          /\ UNCHANGED dead
          /\ \/ /\ step[c] = "answer"
                /\ account' = [account EXCEPT ![c] = Answer(c)]
                /\ refused' = refused \ {c}
                /\ UNCHANGED givenUp
             \/ /\ givenUp' = givenUp \cup ({identity[c].device} \ {None})
                /\ refused' = refused \cup {c}
                /\ UNCHANGED account

-----------------------------------------------------------------------------
Next ==
  \/ \E d \in Documents : ParseConfigContent(d)
  \/ \E i \in Places : PatchAtOnce(i) \/ PatchByRequest(i) \/ Patched(i)
  \/ Collect
  \/ \E c \in Client : GenerateWarpConfig(c) \/ DeleteDevice(c) \/ Return(c)
  \/ \E x \in Client \cup Places : Register(x) \/ UpdateAccount(x)

Spec == Init /\ [][Next]_vars

-----------------------------------------------------------------------------
\* What is returned has an outbound for each one of the document, in its place and
\* with its tag: what some outbound with that tag asks for, so its own if the tag is
\* there once.  Places share a device or a result only if they share a tag, and the
\* devices are registered, whatever order the batch finished in (parser.go:95-114).
PatchOf(r, o) ==
  /\ o.key = "none" => r.warp = "none"
  /\ FromOptions(o) => r.warp = IF document.opt = NilOptions THEN "none" ELSE o.key
  /\ o.key \in {"", "licence"} => r.warp \in registered

PatchedByTag ==
  phase = "returned" =>
    LET in == document.outbounds IN
    /\ DOMAIN result = DOMAIN in
    /\ \A i \in DOMAIN in :
         /\ result[i].tag = in[i].tag
         /\ \E j \in DOMAIN in : in[j].tag = in[i].tag /\ PatchOf(result[i], in[j])
         /\ \A j \in DOMAIN in :
              /\ in[i].tag = in[j].tag => result[i] = result[j]
              /\ result[i].warp \in Device /\ result[i].warp = result[j].warp =>
                   in[i].tag = in[j].tag

\* A device that is registered is somebody's: of an answer on its way, a client's
\* account or a configuration that was returned, unless an error left it behind or a
\* document named a tag twice.  And the account of a client is registered, unless its
\* last request failed: the old device is deleted before there is a new one
\* (warp.go:118-146, account.go:103-129).
DevicesAreHeld ==
  /\ ~repeated =>
       registered \subseteq
         {account[c] : c \in Client} \cup {identity[x].device : x \in DOMAIN identity}
           \cup returned \cup givenUp
  /\ \A c \in Client :
       account[c] \in Device /\ step[c] = "none" /\ c \notin refused => account[c] \in registered
=============================================================================
