------------------------- MODULE ObjectStore_proofs --------------------------
(* Proofs about ObjectStore, for every set of digests, content types and      *)
(* writers, every backend capability and every set of faults.                 *)
EXTENDS ObjectStore, TLAPS

\* A create that met an object leaves it there for the second probe to see.
ConflictMeansStored ==
    \A w \in Writers :
        op[w].conflict /\ op[w].pc \in {"head", "create", "recheck", "overwrite"}
            => Present(obj[op[w].digest])

\* The faults and capabilities under which the fallback is never taken.
CleanBackend ==
    CreateMode = "Atomic" /\ "Generic" \notin Faults /\ "LostReply" \notin Faults

FallbackUnused ==
    CleanBackend => \A w \in Writers : op[w].pc \notin {"recheck", "overwrite"}

\* SuccessMeansStored and ObservedNotClobbered strengthened with the history
\* of the failed create.
IInv ==
    /\ TypeOK
    /\ SuccessMeansStored
    /\ ObservedNotClobbered
    /\ ConflictMeansStored
    /\ FallbackUnused

-----------------------------------------------------------------------------
\* What one put_opts may leave at the key: what was there, or the caller's
\* bytes; and on success something is there.
LEMMA PutAnswersFacts ==
    ASSUME NEW old \in Object, NEW new \in Object, Present(new),
           NEW rung \in 1..LastRung, NEW mode \in PutPoints,
           NEW a \in PutAnswers(old, new, rung, mode)
    PROVE  /\ a.obj \in {old, new}
           /\ a.res \in {"Ok", "AlreadyExists", "NotSupported", "Generic", "Denied"}
           /\ a.res \in {"Ok", "AlreadyExists"} => Present(a.obj)
<1> DEFINE healthy == PutAnswer(old, new, rung, mode)
<1>1. /\ healthy.obj \in {old, new}
      /\ healthy.res \in {"Ok", "AlreadyExists", "NotSupported", "Generic"}
      /\ healthy.res \in {"Ok", "AlreadyExists"} => Present(healthy.obj)
  BY BackendAssumption DEF PutAnswer, LastRung
<1>2. \/ a = healthy
      \/ a.res \in {"Generic", "Denied"} /\ a.obj = old
      \/ a.res = "Generic" /\ a.obj = healthy.obj
  BY DEF PutAnswers
<1> QED BY <1>1, <1>2

\* On a clean backend a conditional create is answered without touching a
\* stored object, and never in a way that put_blob takes for a missing
\* capability once it stands on a rung the backend accepts.
LEMMA CleanAnswers ==
    ASSUME CleanBackend,
           NEW old \in Object, NEW new \in Object, Present(new),
           NEW rung \in 1..LastRung,
           NEW a \in PutAnswers(old, new, rung, "create")
    PROVE  /\ a.res # "Generic"
           /\ a.res = "NotSupported" => rung < LastRung /\ a.obj = old
           /\ Present(old) => a.obj = old
<1> DEFINE healthy == PutAnswer(old, new, rung, "create")
<1>1. /\ healthy.res # "Generic"
      /\ healthy.res = "NotSupported" => rung < LastRung /\ healthy.obj = old
      /\ Present(old) => healthy.obj = old
  BY BackendAssumption DEF PutAnswer, LastRung, CleanBackend
<1>2. \/ a = healthy
      \/ a.res = "Denied" /\ a.obj = old
  BY DEF PutAnswers, CleanBackend
<1> QED BY <1>1, <1>2

\* Where a put leads: only forward along put_blob, with its arguments kept.
LEMMA AfterPutFacts ==
    ASSUME NEW p \in Op, p.pc \in PutPoints,
           NEW res \in {"Ok", "AlreadyExists", "NotSupported", "Generic", "Denied"}
    PROVE  LET q == AfterPut(p, res)
           IN  /\ q \in Op
               /\ q.digest = p.digest /\ q.ct = p.ct /\ q.conflict = p.conflict
               /\ q.pc = "ok" => res \in {"Ok", "AlreadyExists"}
               /\ q.pc \in {p.pc, "recheck", "ok", "err"}
               /\ q.pc = p.pc => res = "NotSupported"
               /\ q.pc = "recheck" =>
                      p.pc = "create" /\
                      (res = "Generic" \/ (res = "NotSupported" /\ p.rung >= LastRung))
  BY DEF AfterPut, Op, PutPoints, LastRung, unsupported_capability,
         conditional_create_unsupported

-----------------------------------------------------------------------------
LEMMA InitInv == Init => IInv
<1> SUFFICES ASSUME Init PROVE IInv OBVIOUS
<1>1. TypeOK
  BY DEF Init, TypeOK
<1>2. \A w \in Writers : op[w].pc = "idle"
  BY DEF Init
<1> QED
  BY <1>1, <1>2 DEF IInv, SuccessMeansStored, ObservedNotClobbered,
     ConflictMeansStored, FallbackUnused

\* No step removes an object, and the only bytes a step writes are the
\* caller's.
LEMMA StepKeepsObjects ==
    ASSUME TypeOK, Next, NEW d \in Digests
    PROVE  /\ Present(obj[d]) => Present(obj'[d])
           /\ obj[d].bytes = "good" => obj'[d].bytes = "good"
<1>1. ASSUME NEW w \in Writers, Put(w)
      PROVE  obj'[d] = obj[d] \/ obj'[d].bytes = "good"
  <2> DEFINE p == op[w]
             old == obj[p.digest]
             new == Written(p.ct, p.rung)
  <2>1. p \in Op /\ p.pc \in PutPoints /\ p.digest \in Digests /\ old \in Object
    BY <1>1 DEF Put, TypeOK, Op
  <2>2. new \in Object /\ Present(new) /\ new.bytes = "good"
    BY <2>1 DEF Op, Written, Object, Present, LastRung
  <2>3. PICK a \in PutAnswers(old, new, p.rung, p.pc) :
            obj' = [obj EXCEPT ![p.digest] = a.obj]
    BY <1>1 DEF Put
  <2>4. a.obj \in {old, new}
    <3> HIDE DEF p, old, new
    <3> QED BY <2>1, <2>2, <2>3, PutAnswersFacts DEF Op
  <2> QED BY <2>1, <2>2, <2>3, <2>4 DEF TypeOK
<1>2. ASSUME NEW w \in Writers, ~Put(w),
             (\E e \in Digests, t \in Types : Begin(w, e, t)) \/ Step(w)
      PROVE  obj' = obj
  BY <1>2 DEF Begin, Step, Probe, Return
<1> QED
  BY <1>1, <1>2 DEF Next, Step, Present

LEMMA NextInv == IInv /\ [Next]_vars => IInv'
<1> SUFFICES ASSUME IInv, [Next]_vars PROVE IInv'
  OBVIOUS
<1> USE DEF IInv
<1>1. CASE UNCHANGED vars
  BY <1>1 DEF vars, TypeOK, SuccessMeansStored, ObservedNotClobbered,
     ConflictMeansStored, FallbackUnused, Present
<1>2. CASE Next
  <2>0. \A d \in Digests : Present(obj[d]) => Present(obj'[d])
    BY <1>2, StepKeepsObjects
  <2>1. ASSUME NEW w \in Writers, NEW d \in Digests, NEW t \in Types, Begin(w, d, t)
        PROVE  IInv'
    <3>1. TypeOK'
      BY <2>1 DEF Begin, TypeOK, Op, LastRung
    <3> QED
      BY <2>1, <3>1 DEF Begin, TypeOK, SuccessMeansStored, ObservedNotClobbered,
         ConflictMeansStored, FallbackUnused, Present
  <2>2. ASSUME NEW w \in Writers, NEW at \in {"head", "recheck"},
               NEW ladder \in PutPoints,
               at = "head" => ladder = "create",
               at = "recheck" => ladder = "overwrite",
               Probe(w, at, ladder)
        PROVE  IInv'
    <3>1. CASE /\ already_stored(op[w].digest, TRUE)
               /\ op' = [op EXCEPT ![w].pc = "ok"]
      <4>1. TypeOK'
        BY <2>2, <3>1 DEF Probe, TypeOK, Op
      <4> QED
        BY <2>2, <3>1, <4>1 DEF Probe, TypeOK, already_stored, SuccessMeansStored,
           ObservedNotClobbered, ConflictMeansStored, FallbackUnused, Present
    <3>2. CASE /\ already_stored(op[w].digest, FALSE)
               /\ op' = [op EXCEPT ![w] = [op[w] EXCEPT !.pc = ladder, !.rung = 1,
                              !.conflict = op[w].conflict /\ ~Present(obj[op[w].digest])]]
      <4> DEFINE c == op[w].conflict /\ ~Present(obj[op[w].digest])
                 q == [op[w] EXCEPT !.pc = ladder, !.rung = 1, !.conflict = c]
      <4>0. op' = [op EXCEPT ![w] = q] /\ obj' = obj /\ c \in BOOLEAN
        BY <2>2, <3>2 DEF Probe
      <4>a. c => op[w].conflict /\ ~Present(obj[op[w].digest])
        OBVIOUS
      <4> HIDE DEF c
      <4>1. TypeOK'
        <5>1. 1 \in 1..LastRung
          BY DEF LastRung
        <5>2. q \in Op
          BY <2>2, <4>0, <5>1 DEF TypeOK, Op
        <5> QED BY <4>0, <5>2 DEF TypeOK
      <4>2. /\ op'[w].pc = ladder
            /\ op'[w].digest = op[w].digest /\ op'[w].conflict = c
            /\ \A v \in Writers : v # w => op'[v] = op[v]
            /\ obj' = obj
        BY <4>0 DEF TypeOK, Op
      <4>3. SuccessMeansStored'
        BY <2>2, <4>2 DEF SuccessMeansStored, PutPoints, Present
      <4>4. ConflictMeansStored'
        BY <2>2, <4>a, <4>2 DEF Probe, ConflictMeansStored, Present
      <4>5. ObservedNotClobbered'
        <5>1. ~c
          BY <2>2, <4>a DEF Probe, ConflictMeansStored
        <5> QED BY <4>2, <5>1 DEF ObservedNotClobbered
      <4>6. FallbackUnused'
        BY <2>2, <4>2 DEF Probe, FallbackUnused, CleanBackend
      <4> QED BY <4>1, <4>3, <4>4, <4>5, <4>6
    <3> QED BY <2>2, <3>1, <3>2 DEF Probe
  <2>3. ASSUME NEW w \in Writers, Put(w) PROVE IInv'
    <3> DEFINE p == op[w]
               old == obj[p.digest]
               new == Written(p.ct, p.rung)
    <3>1. p \in Op /\ p.pc \in PutPoints /\ p.digest \in Digests /\ old \in Object
          /\ p.rung \in 1..LastRung
      BY <2>3 DEF Put, TypeOK, Op
    <3>2. new \in Object /\ Present(new)
      BY <3>1 DEF Op, Written, Object, Present, LastRung
    <3>3. PICK a \in PutAnswers(old, new, p.rung, p.pc) :
              /\ obj' = [obj EXCEPT ![p.digest] = a.obj]
              /\ op' = [op EXCEPT ![w] = [AfterPut(p, a.res) EXCEPT
                            !.conflict = IF p.pc = "create" THEN Present(old) ELSE @]]
      BY <2>3 DEF Put
    <3> DEFINE q == AfterPut(p, a.res)
               c == IF p.pc = "create" THEN Present(old) ELSE q.conflict
    <3> HIDE DEF p, old, new
    <3>4. /\ a.obj \in {old, new}
          /\ a.res \in {"Ok", "AlreadyExists", "NotSupported", "Generic", "Denied"}
          /\ a.res \in {"Ok", "AlreadyExists"} => Present(a.obj)
      BY <3>1, <3>2, <3>3, PutAnswersFacts
    <3>5. /\ q \in Op
          /\ q.digest = p.digest /\ q.ct = p.ct /\ q.conflict = p.conflict
          /\ q.pc = "ok" => a.res \in {"Ok", "AlreadyExists"}
          /\ q.pc \in {p.pc, "recheck", "ok", "err"}
          /\ q.pc = p.pc => a.res = "NotSupported"
          /\ q.pc = "recheck" =>
                 p.pc = "create" /\
                 (a.res = "Generic" \/ (a.res = "NotSupported" /\ p.rung >= LastRung))
      BY <3>1, <3>4, AfterPutFacts
    <3> HIDE DEF q
    <3>6. /\ c \in BOOLEAN
          /\ op' = [op EXCEPT ![w] = [q EXCEPT !.conflict = c]]
          /\ [q EXCEPT !.conflict = c] \in Op
      BY <3>3, <3>5 DEF q, Op, Present
    <3>7. TypeOK'
      BY <3>1, <3>2, <3>3, <3>4, <3>6 DEF TypeOK
    <3>8. /\ op'[w].pc = q.pc /\ op'[w].digest = p.digest /\ op'[w].conflict = c
          /\ \A v \in Writers : v # w => op'[v] = op[v]
          /\ obj'[p.digest] = a.obj
      BY <3>1, <3>3, <3>5, <3>6 DEF TypeOK, Op
    <3>9. SuccessMeansStored'
      BY <2>0, <3>4, <3>5, <3>8 DEF SuccessMeansStored, TypeOK, Op
    <3>10. c => Present(old) \/ p.conflict
      BY <3>5
    <3>11. Present(old) => Present(a.obj)
      BY <3>2, <3>4
    <3>12. ConflictMeansStored'
      <4> SUFFICES ASSUME NEW v \in Writers, op'[v].conflict,
                          op'[v].pc \in {"head", "create", "recheck", "overwrite"}
                   PROVE  Present(obj'[op'[v].digest])
        BY DEF ConflictMeansStored
      <4>1. CASE v = w
        <5>1. Present(old)
          BY <4>1, <3>1, <3>8, <3>10 DEF ConflictMeansStored, p, old, PutPoints
        <5> QED BY <5>1, <4>1, <3>8, <3>11
      <4>2. CASE v # w
        BY <4>2, <2>0, <3>8 DEF ConflictMeansStored, TypeOK, Op
      <4> QED BY <4>1, <4>2
    <3>13. ObservedNotClobbered'
      <4> SUFFICES ASSUME NEW v \in Writers, op'[v].pc = "overwrite"
                   PROVE  ~op'[v].conflict
        BY DEF ObservedNotClobbered
      <4>1. CASE v = w
        <5>1. p.pc = "overwrite"
          BY <4>1, <3>5, <3>8
        <5> QED BY <4>1, <5>1, <3>5, <3>8 DEF ObservedNotClobbered, p
      <4>2. CASE v # w
        BY <4>2, <3>8 DEF ObservedNotClobbered
      <4> QED BY <4>1, <4>2
    <3>14. FallbackUnused'
      <4> SUFFICES ASSUME CleanBackend, NEW v \in Writers
                   PROVE  op'[v].pc \notin {"recheck", "overwrite"}
        BY DEF FallbackUnused, CleanBackend
      <4>1. CASE v = w
        <5>1. p.pc = "create"
          BY <3>1 DEF FallbackUnused, PutPoints, p
        <5>2. a.res # "Generic" /\ (a.res = "NotSupported" => p.rung < LastRung)
          BY <5>1, <3>1, <3>2, <3>3, CleanAnswers
        <5> QED BY <4>1, <5>1, <5>2, <3>1, <3>5, <3>8 DEF LastRung
      <4>2. CASE v # w
        BY <4>2, <3>8 DEF FallbackUnused
      <4> QED BY <4>1, <4>2
    <3> QED BY <3>7, <3>9, <3>12, <3>13, <3>14
  <2>4. ASSUME NEW w \in Writers, Return(w) PROVE IInv'
    <3>1. TypeOK'
      BY <2>4 DEF Return, TypeOK, Op
    <3> QED
      BY <2>4, <3>1 DEF Return, TypeOK, SuccessMeansStored, ObservedNotClobbered,
         ConflictMeansStored, FallbackUnused, Present
  <2> QED
    BY <1>2, <2>1, <2>2, <2>3, <2>4 DEF Next, Step, PutPoints
<1> QED BY <1>1, <1>2

-----------------------------------------------------------------------------
LEMMA Invariance == Spec => []IInv
  BY InitInv, NextInv, PTL DEF Spec

\* put_blob keeps its state well-formed on every backend.
THEOREM TypeCorrect == Spec => []TypeOK
<1>1. IInv => TypeOK BY DEF IInv
<1> QED BY <1>1, Invariance, PTL

\* Whatever the backend's capabilities and failures, put_blob reports success
\* only for a digest that has an object.
THEOREM SuccessIsStored == Spec => []SuccessMeansStored
<1>1. IInv => SuccessMeansStored BY DEF IInv
<1> QED BY <1>1, Invariance, PTL

\* The second probe does what its comment says: no put_blob gets to the
\* unconditional write over an object its failed create met, unless that probe
\* failed to see the object.
THEOREM ObservedIsKept == Spec => []ObservedNotClobbered
<1>1. IInv => ObservedNotClobbered BY DEF IInv
<1> QED BY <1>1, Invariance, PTL

\* Correct bytes at a digest's key stay correct, unconditional writes and lost
\* answers included.
THEOREM GoodBytesAreKept == Spec => GoodBytesStay
<1>1. TypeOK /\ [Next]_vars =>
        [\A d \in Digests : obj[d].bytes = "good" => obj'[d].bytes = "good"]_vars
  BY StepKeepsObjects
<1> QED BY <1>1, TypeCorrect, PTL DEF Spec, GoodBytesStay

-----------------------------------------------------------------------------
(* What the handlers rely on.                                                *)

\* A ladder is not climbed beyond the first rung the backend accepts, except by
\* creates that are refused on every rung and write nothing.
RungOK ==
    \A w \in Writers :
        op[w].pc \in PutPoints =>
            op[w].rung <= AttrRung \/ (op[w].pc = "create" /\ CreateMode = "NotSupported")

\* When a put_opts stores the caller's object, it is on the first accepted rung
\* or beyond, and replaces something only in the second ladder.
LEMMA PutAnswersWrite ==
    ASSUME NEW old, NEW new, NEW rung \in 1..LastRung, NEW mode \in PutPoints,
           NEW a \in PutAnswers(old, new, rung, mode), a.obj # old
    PROVE  /\ a.obj = new /\ rung >= AttrRung
           /\ mode = "create" => CreateMode = "Atomic"
           /\ Present(old) => mode = "overwrite"
<1> DEFINE healthy == PutAnswer(old, new, rung, mode)
<1>1. healthy.obj # old =>
        /\ healthy.obj = new /\ rung >= AttrRung
        /\ mode = "create" => CreateMode = "Atomic"
        /\ Present(old) => mode = "overwrite"
  BY BackendAssumption DEF PutAnswer, LastRung, PutPoints
<1>2. a.obj \in {old, healthy.obj}
  BY DEF PutAnswers
<1> QED BY <1>1, <1>2

\* A missing capability is reported below the first accepted rung, or by a
\* backend that does not know conditional creates.
LEMMA PutAnswersClimb ==
    ASSUME NEW old, NEW new, NEW rung \in 1..LastRung, NEW mode \in PutPoints,
           NEW a \in PutAnswers(old, new, rung, mode), a.res = "NotSupported"
    PROVE  rung < AttrRung \/ (mode = "create" /\ CreateMode = "NotSupported")
<1> DEFINE healthy == PutAnswer(old, new, rung, mode)
<1>1. healthy.res = "NotSupported" =>
        rung < AttrRung \/ (mode = "create" /\ CreateMode = "NotSupported")
  BY BackendAssumption DEF PutAnswer, LastRung, PutPoints
<1>2. a = healthy
  BY DEF PutAnswers
<1> QED BY <1>1, <1>2

LEMMA RungInit == Init => RungOK
  BY DEF Init, RungOK, PutPoints

LEMMA RungNext == TypeOK /\ RungOK /\ [Next]_vars => RungOK'
<1> SUFFICES ASSUME TypeOK, RungOK, [Next]_vars PROVE RungOK'
  OBVIOUS
<1>1. CASE UNCHANGED vars
  BY <1>1 DEF vars, RungOK
<1>2. ASSUME NEW w \in Writers, NEW d \in Digests, NEW t \in Types, Begin(w, d, t)
      PROVE  RungOK'
  BY <1>2 DEF Begin, TypeOK, RungOK, PutPoints
<1>3. ASSUME NEW w \in Writers, NEW at, NEW ladder, Probe(w, at, ladder) PROVE RungOK'
  <2>1. /\ op'[w].pc = "ok" \/ op'[w].rung = 1
        /\ \A v \in Writers : v # w => op'[v] = op[v]
    <3>1. CASE op' = [op EXCEPT ![w].pc = "ok"]
      BY <3>1 DEF TypeOK, Op
    <3>2. ASSUME NEW c, op' = [op EXCEPT ![w] =
                                  [op[w] EXCEPT !.pc = ladder, !.rung = 1, !.conflict = c]]
          PROVE  op'[w].rung = 1 /\ \A v \in Writers : v # w => op'[v] = op[v]
      BY <3>2 DEF TypeOK, Op
    <3> QED BY <1>3, <3>1, <3>2 DEF Probe
  <2> QED BY <2>1, BackendAssumption DEF RungOK, PutPoints, LastRung
<1>4. ASSUME NEW w \in Writers, Put(w) PROVE RungOK'
  <2> DEFINE p == op[w]
             old == obj[p.digest]
             new == Written(p.ct, p.rung)
  <2>1. p \in Op /\ p.pc \in PutPoints /\ p.rung \in 1..LastRung
    BY <1>4 DEF Put, TypeOK, Op
  <2>2. PICK a \in PutAnswers(old, new, p.rung, p.pc) :
            op' = [op EXCEPT ![w] = [AfterPut(p, a.res) EXCEPT
                      !.conflict = IF p.pc = "create" THEN Present(old) ELSE @]]
    BY <1>4 DEF Put
  <2> DEFINE q == AfterPut(p, a.res)
  <2>3. /\ q.pc \in PutPoints => q.pc = p.pc /\ q.rung = p.rung + 1 /\ a.res = "NotSupported"
        /\ DOMAIN q = DOMAIN p
    BY <2>1 DEF AfterPut, Op, PutPoints, LastRung, unsupported_capability,
                conditional_create_unsupported
  <2> HIDE DEF q
  <2>4. /\ op'[w].pc = q.pc /\ op'[w].rung = q.rung
        /\ \A v \in Writers : v # w => op'[v] = op[v]
    BY <2>1, <2>2, <2>3 DEF q, TypeOK, Op
  <2> HIDE DEF p, old, new
  <2>5. a.res = "NotSupported" =>
            p.rung < AttrRung \/ (p.pc = "create" /\ CreateMode = "NotSupported")
    BY <2>1, <2>2, PutAnswersClimb
  <2>6. q.pc \in PutPoints =>
            q.rung <= AttrRung \/ (q.pc = "create" /\ CreateMode = "NotSupported")
    BY <2>1, <2>3, <2>5, BackendAssumption DEF LastRung
  <2> QED BY <2>4, <2>6 DEF RungOK
<1>5. ASSUME NEW w \in Writers, Return(w) PROVE RungOK'
  BY <1>5 DEF Return, TypeOK, RungOK, PutPoints, Op
<1> QED BY <1>1, <1>2, <1>3, <1>4, <1>5 DEF Next, Step

\* A step that changes an object is a write of the call that takes it.
LEMMA StepWrites ==
    ASSUME IInv, RungOK, Next, NEW d \in Digests, obj'[d] # obj[d]
    PROVE  \E w \in Writers :
             /\ op[w].digest = d /\ op[w].pc \in PutPoints
             /\ obj'[d] = [bytes |-> "good",
                           ct |-> IF AttrRung < LastRung THEN op[w].ct ELSE NoType]
             /\ Present(obj[d]) => op[w].pc = "overwrite" /\ ~op[w].conflict
<1>1. PICK w \in Writers : Put(w)
  BY DEF Next, Step, Begin, Probe, Return
<1> DEFINE p == op[w]
           old == obj[p.digest]
           new == Written(p.ct, p.rung)
<1>2. p \in Op /\ p.pc \in PutPoints /\ p.rung \in 1..LastRung /\ p.digest \in Digests
  BY <1>1 DEF Put, IInv, TypeOK, Op
<1>3. PICK a \in PutAnswers(old, new, p.rung, p.pc) : obj' = [obj EXCEPT ![p.digest] = a.obj]
  BY <1>1 DEF Put
<1>4. p.digest = d /\ obj'[d] = a.obj /\ old = obj[d]
  BY <1>2, <1>3 DEF IInv, TypeOK
<1>5. p.rung <= AttrRung \/ (p.pc = "create" /\ CreateMode = "NotSupported")
  BY <1>2 DEF RungOK
<1>6. /\ a.obj = new /\ p.rung >= AttrRung
      /\ p.pc = "create" => CreateMode = "Atomic"
      /\ Present(old) => p.pc = "overwrite"
  <2> HIDE DEF p, old, new
  <2> QED BY <1>2, <1>3, <1>4, PutAnswersWrite
<1>7. p.rung = AttrRung
  BY <1>2, <1>5, <1>6, BackendAssumption DEF LastRung
<1>8. new = [bytes |-> "good", ct |-> IF AttrRung < LastRung THEN p.ct ELSE NoType]
  BY <1>7 DEF Written
<1>9. p.pc = "overwrite" => ~p.conflict
  BY DEF IInv, ObservedNotClobbered
<1> QED BY <1>2, <1>4, <1>6, <1>8, <1>9

\* The handlers' own put_blob is the one of objstore.rs on every backend: what a
\* call leaves at its digest is what was there or its own bytes and type, and
\* only a call on the second ladder that has not seen an object replaces it.
THEOREM WritesAreAsCalled == Spec => WritesAreTheCallers
<1>1. Spec => []RungOK
  BY RungInit, RungNext, TypeCorrect, PTL DEF Spec
<1>2. IInv /\ RungOK /\ [Next]_vars =>
        [\A d \in Digests : obj'[d] # obj[d] =>
            \E w \in Writers :
               /\ op[w].digest = d /\ op[w].pc \in PutPoints
               /\ obj'[d] = [bytes |-> "good",
                             ct |-> IF AttrRung < LastRung THEN op[w].ct ELSE NoType]
               /\ Present(obj[d]) => op[w].pc = "overwrite" /\ ~op[w].conflict]_vars
  BY StepWrites
<1> QED BY <1>1, <1>2, Invariance, PTL DEF Spec, WritesAreTheCallers

\* On a backend with conditional create, and without the transport failures that
\* are taken for a missing capability, nothing that is stored is ever replaced:
\* there the handlers run without their Overwrite fault.
THEOREM NothingIsReplaced ==
    ASSUME CleanBackend
    PROVE  Spec => [][\A d \in Digests : Present(obj[d]) => obj'[d] = obj[d]]_vars
<1>1. Spec => []RungOK
  BY RungInit, RungNext, TypeCorrect, PTL DEF Spec
<1>2. IInv /\ RungOK /\ [Next]_vars =>
        [\A d \in Digests : Present(obj[d]) => obj'[d] = obj[d]]_vars
  BY StepWrites DEF IInv, FallbackUnused
<1> QED BY <1>1, <1>2, Invariance, PTL DEF Spec

-----------------------------------------------------------------------------
(* Refinement of ContentStore.                                                *)

LEMMA InitRefines == Init => Atomic!Init
<1> SUFFICES ASSUME Init PROVE Atomic!Init OBVIOUS
<1>1. obj \in [Digests -> {o \in Atomic!Object : Atomic!Present(o) \/ o = Atomic!NoObject}]
  BY DEF Init, Object, Present, NoObject, Atomic!Object, Atomic!Present, Atomic!NoObject
<1>2. ASSUME NEW w \in Writers
      PROVE  op[w].pc = "idle" /\ op[w].digest \in Digests /\ op[w].ct \in Types
  BY DEF Init, Op
<1> QED BY <1>1, <1>2 DEF Atomic!Init, Atomic!Call

\* On a clean backend every request of put_blob is a step of the atomic
\* specification or invisible to it: probes and refused rungs are invisible,
\* the answer that ends the call is the atomic step.
LEMMA StepRefines ==
    ASSUME CleanBackend, IInv, [Next]_vars
    PROVE  [Atomic!Next]_(Atomic!vars)
<1> DEFINE abs(p) ==
        [pc |-> IF p.pc \in {"idle", "ok", "err"} THEN p.pc ELSE "pending",
         digest |-> p.digest, ct |-> p.ct]
           acall == [w \in Writers |-> abs(op[w])]
           acall1 == [w \in Writers |-> abs(op'[w])]
<1> USE DEF IInv
<1>1. CASE UNCHANGED vars
  BY <1>1 DEF vars, Atomic!vars
<1>2. ASSUME NEW w \in Writers, NEW d \in Digests, NEW t \in Types, Begin(w, d, t)
      PROVE  Atomic!Next
  <2>1. op'[w].pc = "head" /\ op'[w].digest = d /\ op'[w].ct = t /\ obj' = obj
    BY <1>2 DEF Begin, TypeOK
  <2>2. \A v \in Writers : v # w => op'[v] = op[v]
    BY <1>2 DEF Begin, TypeOK
  <2>3. acall1 = [acall EXCEPT ![w] = [pc |-> "pending", digest |-> d, ct |-> t]]
    BY <2>1, <2>2
  <2>4. acall[w].pc = "idle"
    BY <1>2 DEF Begin
  <2>5. Atomic!Begin(w, d, t)
    BY <2>1, <2>3, <2>4 DEF Atomic!Begin
  <2> QED BY <2>5 DEF Atomic!Next
<1>3. ASSUME NEW w \in Writers, Probe(w, "head", "create")
      PROVE  [Atomic!Next]_(Atomic!vars)
  <2>1. CASE already_stored(op[w].digest, TRUE) /\ op' = [op EXCEPT ![w].pc = "ok"]
    <3>1. /\ op'[w].pc = "ok" /\ op'[w].digest = op[w].digest /\ op'[w].ct = op[w].ct
          /\ \A v \in Writers : v # w => op'[v] = op[v]
          /\ obj' = obj
      BY <1>3, <2>1 DEF Probe, TypeOK, Op
    <3>2. acall1 = [acall EXCEPT ![w].pc = "ok"]
      BY <3>1
    <3>3. acall[w].pc = "pending" /\ acall[w].digest = op[w].digest
      BY <1>3 DEF Probe
    <3>4. Atomic!Present(obj'[op[w].digest])
      BY <2>1, <3>1 DEF already_stored, Present, Atomic!Present
    <3>5. Atomic!Finish(w, "ok")
      BY <3>1, <3>2, <3>3, <3>4 DEF Atomic!Finish
    <3> QED BY <3>5 DEF Atomic!Next
  <2>2. CASE op' = [op EXCEPT ![w] = [op[w] EXCEPT !.pc = "create", !.rung = 1,
                        !.conflict = op[w].conflict /\ ~Present(obj[op[w].digest])]]
    <3>1. /\ op'[w].pc = "create" /\ op'[w].digest = op[w].digest
          /\ op'[w].ct = op[w].ct
          /\ \A v \in Writers : v # w => op'[v] = op[v]
          /\ obj' = obj
      BY <1>3, <2>2 DEF Probe, TypeOK, Op
    <3>2. acall1 = acall
      BY <1>3, <3>1 DEF Probe
    <3> QED BY <3>1, <3>2 DEF Atomic!vars
  <2> QED BY <1>3, <2>1, <2>2 DEF Probe
<1>4. ASSUME NEW w \in Writers, Put(w)
      PROVE  [Atomic!Next]_(Atomic!vars)
  <2> DEFINE p == op[w]
             old == obj[p.digest]
             new == Written(p.ct, p.rung)
  <2>1. /\ p \in Op /\ p.pc = "create" /\ p.digest \in Digests
        /\ old \in Object /\ p.rung \in 1..LastRung
    BY <1>4 DEF Put, TypeOK, Op, FallbackUnused, PutPoints
  <2>2. /\ new \in Object /\ Present(new)
        /\ \E t \in {p.ct, NoType} : new = [bytes |-> "good", ct |-> t]
    BY <2>1 DEF Op, Written, Object, Present, LastRung
  <2>3. PICK a \in PutAnswers(old, new, p.rung, p.pc) :
            /\ obj' = [obj EXCEPT ![p.digest] = a.obj]
            /\ op' = [op EXCEPT ![w] = [AfterPut(p, a.res) EXCEPT
                          !.conflict = IF p.pc = "create" THEN Present(old) ELSE @]]
    BY <1>4 DEF Put
  <2> DEFINE q == AfterPut(p, a.res)
  <2> HIDE DEF p, old, new
  <2>4. /\ a.obj \in {old, new}
        /\ a.res \in {"Ok", "AlreadyExists", "NotSupported", "Generic", "Denied"}
        /\ a.res \in {"Ok", "AlreadyExists"} => Present(a.obj)
    BY <2>1, <2>2, <2>3, PutAnswersFacts DEF PutPoints
  <2>5. /\ a.res # "Generic"
        /\ a.res = "NotSupported" => p.rung < LastRung /\ a.obj = old
        /\ Present(old) => a.obj = old
    BY <2>1, <2>2, <2>3, CleanAnswers
  <2>6. /\ q \in Op
        /\ q.digest = p.digest /\ q.ct = p.ct
        /\ q.pc = "ok" => a.res \in {"Ok", "AlreadyExists"}
        /\ q.pc \in {p.pc, "recheck", "ok", "err"}
        /\ q.pc = p.pc => a.res = "NotSupported"
        /\ q.pc # "recheck"
    BY <2>1, <2>4, <2>5, AfterPutFacts DEF PutPoints, LastRung
  <2> HIDE DEF q
  <2>7. /\ op'[w].pc = q.pc /\ op'[w].digest = p.digest /\ op'[w].ct = p.ct
        /\ \A v \in Writers : v # w => op'[v] = op[v]
    BY <2>3, <2>6 DEF TypeOK, Op, q
  <2>8. acall[w].pc = "pending" /\ acall[w].digest = p.digest /\ acall[w].ct = p.ct
    BY <2>1 DEF p
  <2>9. CASE q.pc \in {"ok", "err"}
    <3>1. acall1 = [acall EXCEPT ![w].pc = q.pc]
      BY <2>7, <2>9 DEF p
    <3>2. \/ obj' = obj
          \/ /\ ~Atomic!Present(obj[p.digest])
             /\ \E t \in {p.ct, NoType} :
                    obj' = [obj EXCEPT ![p.digest] = [bytes |-> "good", ct |-> t]]
      <4>1. CASE a.obj = old
        BY <4>1, <2>1, <2>3 DEF TypeOK, old
      <4>2. CASE a.obj = new /\ a.obj # old
        <5>1. ~Present(old)
          BY <4>2, <2>5
        <5> QED BY <4>2, <5>1, <2>2, <2>3 DEF Present, Atomic!Present, old
      <4> QED BY <4>1, <4>2, <2>4
    <3>3. q.pc = "ok" => Atomic!Present(obj'[p.digest])
      BY <2>1, <2>3, <2>4, <2>6 DEF TypeOK, Present, Atomic!Present
    <3>4. CASE q.pc = "ok"
      <4>1. Atomic!Finish(w, "ok")
        BY <2>8, <3>1, <3>2, <3>3, <3>4 DEF Atomic!Finish
      <4> QED BY <4>1 DEF Atomic!Next
    <3>5. CASE q.pc = "err"
      <4>1. Atomic!Finish(w, "err")
        BY <2>8, <3>1, <3>2, <3>5 DEF Atomic!Finish
      <4> QED BY <4>1 DEF Atomic!Next
    <3> QED BY <2>9, <3>4, <3>5
  <2>10. CASE q.pc = p.pc
    <3>1. acall1 = acall
      BY <2>1, <2>7, <2>10 DEF p
    <3>2. obj' = obj
      BY <2>1, <2>3, <2>5, <2>6, <2>10 DEF TypeOK, old
    <3> QED BY <3>1, <3>2 DEF Atomic!vars
  <2> QED BY <2>6, <2>9, <2>10
<1>5. ASSUME NEW w \in Writers, Return(w) PROVE Atomic!Next
  <2>1. /\ op'[w].pc = "idle" /\ op'[w].digest = op[w].digest /\ op'[w].ct = op[w].ct
        /\ \A v \in Writers : v # w => op'[v] = op[v]
        /\ obj' = obj
    BY <1>5 DEF Return, TypeOK, Op
  <2>2. acall1 = [acall EXCEPT ![w].pc = "idle"]
    BY <2>1
  <2>3. acall[w].pc \in {"ok", "err"}
    BY <1>5 DEF Return
  <2>4. Atomic!Return(w)
    BY <2>1, <2>2, <2>3 DEF Atomic!Return
  <2> QED BY <2>4 DEF Atomic!Next
<1>6. \A w \in Writers : ~Probe(w, "recheck", "overwrite")
  BY DEF Probe, FallbackUnused
<1> QED BY <1>1, <1>2, <1>3, <1>4, <1>5, <1>6 DEF Next, Step

\* put_blob implements the atomic write-if-absent the Storage trait documents,
\* for any number of writers, on a backend with conditional create and without
\* the transport failures it takes for a missing capability.
THEOREM ImplementsContentStore ==
    ASSUME CleanBackend PROVE Spec => RefinesContentStore
<1>1. IInv /\ [Next]_vars => [Atomic!Next]_(Atomic!vars)
  BY StepRefines
<1> QED BY <1>1, InitRefines, Invariance, PTL DEF Spec, Atomic!Spec, RefinesContentStore
=============================================================================
