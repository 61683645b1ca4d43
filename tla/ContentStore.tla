---------------------------- MODULE ContentStore ----------------------------
(* What the Storage trait promises of put_blob (crates/helmoci-storage/src/  *)
(* lib.rs): a content-addressed store in which a write takes effect in one   *)
(* step, only if nothing is stored at the digest, and is "silently a no-op   *)
(* if the digest already exists".  ObjectStore is shown to implement this    *)
(* specification on every backend that can create conditionally.             *)
CONSTANTS
    Digests,    \* the digests blobs are stored under
    Types,      \* the content types callers pass
    NoType,     \* no content type: the backend could not persist it
    Writers     \* the tasks that call put_blob

VARIABLES
    obj,        \* what is stored at each digest
    call        \* the pending put_blob call of each writer

vars == <<obj, call>>

Object == [bytes : {"none", "good", "bad"}, ct : Types \cup {NoType}]

\* Nothing is stored at the key.
NoObject == [bytes |-> "none", ct |-> NoType]

Present(o) == o.bytes # "none"

Call == [pc : {"idle", "pending", "ok", "err"}, digest : Digests, ct : Types]

\* A bucket may have been filled, or damaged, before this process started.
Init ==
    /\ obj \in [Digests -> {o \in Object : Present(o) \/ o = NoObject}]
    /\ call \in [Writers -> {c \in Call : c.pc = "idle"}]

Begin(w, d, t) ==
    /\ call[w].pc = "idle"
    /\ call' = [call EXCEPT ![w] = [pc |-> "pending", digest |-> d, ct |-> t]]
    /\ UNCHANGED obj

\* The call ends.  It stores these bytes only where nothing was stored; it
\* succeeds only if something is stored at the digest when it ends.
Finish(w, result) ==
    /\ call[w].pc = "pending"
    /\ LET d == call[w].digest
       IN /\ \/ UNCHANGED obj
             \/ /\ ~Present(obj[d])
                /\ \E t \in {call[w].ct, NoType} :
                       obj' = [obj EXCEPT ![d] = [bytes |-> "good", ct |-> t]]
          /\ result = "ok" => Present(obj'[d])
    /\ call' = [call EXCEPT ![w].pc = result]

Return(w) ==
    /\ call[w].pc \in {"ok", "err"}
    /\ call' = [call EXCEPT ![w].pc = "idle"]
    /\ UNCHANGED obj

Next ==
    \E w \in Writers :
        \/ \E d \in Digests, t \in Types : Begin(w, d, t)
        \/ \E result \in {"ok", "err"} : Finish(w, result)
        \/ Return(w)

Spec == Init /\ [][Next]_vars
=============================================================================
