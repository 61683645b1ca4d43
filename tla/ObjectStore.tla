---------------------------- MODULE ObjectStore -----------------------------
(* ObjectStoreStorage::put_blob of crates/helmoci-storage/src/objstore.rs,   *)
(* one action per request it sends to the backend: the existence probe, the  *)
(* ladder of conditional creates, the second probe, and the ladder of        *)
(* unconditional writes that backends without conditional create fall back   *)
(* to.  Any number of tasks (and of replicas sharing the bucket) run it at   *)
(* once; between two of its requests anything may happen to the object.      *)
EXTENDS Naturals

CONSTANTS
    Digests,     \* the digests blobs are stored under
    Types,       \* the content types callers pass
    NoType,      \* no content type was persisted with the object
    Writers,     \* the tasks that call put_blob
    AttrRung,    \* first rung of the attribute ladder the backend accepts
    CreateMode,  \* "Atomic", or the error PutMode::Create is answered with
    Faults       \* the ways the backend may fail, a subset of AllFaults

LastRung == 3

AllFaults == {"HeadOutage", "Generic", "Denied", "LostReply"}

ASSUME BackendAssumption ==
    /\ AttrRung \in 1..LastRung
    /\ CreateMode \in {"Atomic", "NotSupported", "Generic"}
    /\ Faults \subseteq AllFaults
    /\ NoType \notin Types

VARIABLES
    obj,   \* the object stored at each digest's key
    op     \* the put_blob call each writer is in

vars == <<obj, op>>

Object == [bytes : {"none", "good", "bad"}, ct : Types \cup {NoType}]

NoObject == [bytes |-> "none", ct |-> NoType]

Present(o) == o.bytes # "none"

\* The two ladders: PutMode::Create and PutMode::Overwrite.
PutPoints == {"create", "overwrite"}

Op == [pc : PutPoints \cup {"idle", "head", "recheck", "ok", "err"},
       digest : Digests, ct : Types, rung : 1..LastRung,
       \* history: the create met an object, and no probe failed to see it since
       conflict : BOOLEAN]

TypeOK == obj \in [Digests -> Object] /\ op \in [Writers -> Op]

\* A bucket may have been filled, or damaged, before this process started.
Init ==
    /\ obj \in [Digests -> {o \in Object : Present(o) \/ o = NoObject}]
    /\ op \in [Writers -> {p \in Op : p.pc = "idle" /\ p.rung = 1 /\ ~p.conflict}]

-----------------------------------------------------------------------------
(* The requests and their answers.                                           *)

already_stored_on_outage(d, answer) ==
    IF answer THEN Present(obj[d]) \/ "HeadOutage" \in Faults
              ELSE ~Present(obj[d])

\* already_stored may answer so: an outage of HEAD counts as "not stored".
already_stored(d, answer) ==
    IF answer THEN Present(obj[d])
              ELSE ~Present(obj[d]) \/ "HeadOutage" \in Faults

\* blob_attribute_rungs: the last rung carries no content type.
Written(ct, rung) ==
    [bytes |-> "good", ct |-> IF rung < LastRung THEN ct ELSE NoType]

PutAnswer_overwrites(old, new, rung, mode) ==
    IF rung < AttrRung THEN [res |-> "NotSupported", obj |-> old]
                       ELSE [res |-> "Ok", obj |-> new]

\* What a healthy backend answers to one put_opts, and what it then stores.
PutAnswer(old, new, rung, mode) ==
    CASE rung < AttrRung -> [res |-> "NotSupported", obj |-> old]
      [] rung >= AttrRung /\ mode = "create" /\ CreateMode # "Atomic" ->
             [res |-> CreateMode, obj |-> old]
      [] rung >= AttrRung /\ mode = "create" /\ CreateMode = "Atomic" /\ Present(old) ->
             [res |-> "AlreadyExists", obj |-> old]
      [] OTHER -> [res |-> "Ok", obj |-> new]

\* ... and what any backend may answer: it may fail the request, and a
\* transport failure may lose the answer of a write that was applied.
PutAnswers(old, new, rung, mode) ==
    LET healthy == PutAnswer(old, new, rung, mode)
    IN  {healthy}
        \cup {[res |-> e, obj |-> old] : e \in Faults \cap {"Generic", "Denied"}}
        \cup {[res |-> "Generic", obj |-> healthy.obj] : e \in Faults \cap {"LostReply"}}

unsupported_capability(res) == res = "NotSupported"

conditional_create_unsupported(res) == unsupported_capability(res) \/ res = "Generic"

-----------------------------------------------------------------------------
(* put_blob.                                                                 *)

Begin(w, d, t) ==
    /\ op[w].pc = "idle"
    /\ op' = [op EXCEPT ![w] = [pc |-> "head", digest |-> d, ct |-> t,
                                rung |-> 1, conflict |-> FALSE]]
    /\ UNCHANGED obj

Probe_skipped(w, at, ladder) ==
    /\ op[w].pc = at
    /\ op' = [op EXCEPT ![w] = [@ EXCEPT !.pc = ladder, !.rung = 1]]
    /\ UNCHANGED obj

\* Both existence probes: a stored object ends the call, otherwise a ladder of
\* writes starts from its first rung.
Probe(w, at, ladder) ==
    /\ op[w].pc = at
    /\ \/ /\ already_stored(op[w].digest, TRUE)
          /\ op' = [op EXCEPT ![w].pc = "ok"]
       \/ /\ already_stored(op[w].digest, FALSE)
          /\ op' = [op EXCEPT ![w] = [op[w] EXCEPT !.pc = ladder, !.rung = 1,
                         !.conflict = op[w].conflict /\ ~Present(obj[op[w].digest])]]
    /\ UNCHANGED obj

AfterPut_restarts(p, res) ==
    IF unsupported_capability(res) THEN [p EXCEPT !.rung = IF p.rung = 1 THEN 2 ELSE 1]
    ELSE [p EXCEPT !.pc = IF res \in {"Ok", "AlreadyExists"} THEN "ok" ELSE "err"]

\* Where put_blob goes after one put_once of the ladder it is on.
AfterPut(p, res) ==
    CASE res \in {"Ok", "AlreadyExists"} -> [p EXCEPT !.pc = "ok"]
      [] unsupported_capability(res) /\ p.rung < LastRung -> [p EXCEPT !.rung = @ + 1]
      [] conditional_create_unsupported(res)
         /\ ~(unsupported_capability(res) /\ p.rung < LastRung)
         /\ p.pc = "create" -> [p EXCEPT !.pc = "recheck"]
      [] OTHER -> [p EXCEPT !.pc = "err"]

\* put_once: one rung of the ladder put_blob is on.
Put(w) ==
    /\ op[w].pc \in PutPoints
    /\ LET p == op[w]
           old == obj[p.digest]
       IN \E a \in PutAnswers(old, Written(p.ct, p.rung), p.rung, p.pc) :
              /\ obj' = [obj EXCEPT ![p.digest] = a.obj]
              /\ op' = [op EXCEPT ![w] = [AfterPut(p, a.res) EXCEPT
                            !.conflict = IF p.pc = "create" THEN Present(old) ELSE @]]

\* The caller takes the result.
Return(w) ==
    /\ op[w].pc \in {"ok", "err"}
    /\ op' = [op EXCEPT ![w].pc = "idle"]
    /\ UNCHANGED obj

Step(w) ==
    \/ Probe(w, "head", "create")
    \/ Probe(w, "recheck", "overwrite")
    \/ Put(w)
    \/ Return(w)

Next ==
    \E w \in Writers :
        \/ \E d \in Digests, t \in Types : Begin(w, d, t)
        \/ Step(w)

\* A call that was made runs on: the runtime polls it and the HTTP client's
\* timeouts end every request.  Nothing obliges anyone to make a call.
Fairness == \A w \in Writers : WF_vars(Step(w))

Spec == Init /\ [][Next]_vars

FairSpec == Spec /\ Fairness

-----------------------------------------------------------------------------
(* Properties.                                                               *)

\* put_blob never reports success for a digest at which nothing is stored,
\* whatever the probes missed and however concurrent writers interleaved.
SuccessMeansStored ==
    \A w \in Writers : op[w].pc = "ok" => Present(obj[op[w].digest])

\* Correct bytes at a digest's key stay there: no fallback of put_blob ever
\* damages or removes them, not even the unconditional write.
GoodBytesStay ==
    [][\A d \in Digests : obj[d].bytes = "good" => obj'[d].bytes = "good"]_vars

\* "Never clobber an object we can observe": a put_blob whose conditional
\* create failed although an object was there gets to the unconditional write
\* only when the second HEAD failed to see that object, whatever the other
\* writers did in between.
ObservedNotClobbered ==
    \A w \in Writers : op[w].pc = "overwrite" => ~op[w].conflict

\* What the handlers take put_blob for (put_blob of ClassicPull and OciPull):
\* the object at a digest changes only into the bytes of a call for that digest
\* with the content type of that call, which is lost only if the backend keeps
\* none; and an object that is there is replaced only by the unconditional
\* write, in a call that has not seen it.
WritesAreTheCallers ==
    [][\A d \in Digests : obj'[d] # obj[d] =>
          \E w \in Writers :
             /\ op[w].digest = d /\ op[w].pc \in PutPoints
             /\ obj'[d] = [bytes |-> "good",
                           ct |-> IF AttrRung < LastRung THEN op[w].ct ELSE NoType]
             /\ Present(obj[d]) => op[w].pc = "overwrite" /\ ~op[w].conflict]_vars

\* Every put_blob call ends: the ladders are finite and the fallback is taken
\* at most once.
PutEnds == \A w \in Writers : op[w].pc # "idle" ~> op[w].pc = "idle"

-----------------------------------------------------------------------------
(* Refinement: a call is pending from its first probe to its last answer.    *)

Atomic == INSTANCE ContentStore WITH
    call <- [w \in Writers |->
        [pc |-> IF op[w].pc \in {"idle", "ok", "err"} THEN op[w].pc ELSE "pending",
         digest |-> op[w].digest, ct |-> op[w].ct]]

\* On a backend with conditional create, and without the transport failures
\* that are taken for a missing capability, put_blob is the atomic
\* write-if-absent of ContentStore.
RefinesContentStore == Atomic!Spec
=============================================================================
