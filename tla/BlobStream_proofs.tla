------------------------- MODULE BlobStream_proofs --------------------------
(***************************************************************************)
(* The safety properties of BlobStream for every set of body lengths and   *)
(* every limit.                                                            *)
(***************************************************************************)
EXTENDS BlobStream, TLAPS

\* How the counters relate at each point of the handler.
Positions ==
    /\ pc \in {"idle", "fetching"} =>
          /\ body = NoBody /\ got = 0 /\ held = 0 /\ prefix = 0 /\ sent = 0
          /\ promised = NoLength /\ origin = "none"
    /\ pc = "document" =>
          /\ prefix = got /\ prefix <= ReadLimit /\ sent = 0
          /\ promised = NoLength /\ origin = "document"
    /\ pc = "buffering" =>
          /\ prefix = got /\ prefix <= MaxBuffered /\ held = 0 /\ sent = 0
          /\ promised = NoLength /\ origin = "cache"
    /\ pc = "verifying" =>
          /\ sent + held = got /\ (got > 0 => held > 0)
          /\ promised = body.len /\ body.len > 0 /\ origin = "cache"
    /\ pc = "writing_through" =>
          /\ prefix = got /\ prefix <= CacheLimit /\ sent = 0
          /\ promised = NoLength /\ origin = "written"
    /\ pc = "prefix" =>
          /\ prefix = CacheLimit /\ CacheLimit < got /\ sent = 0
          /\ promised = ContentLength(body) /\ origin = "relay"
    /\ pc = "tail" =>
          /\ prefix = CacheLimit /\ CacheLimit < got /\ sent = prefix
          /\ promised = ContentLength(body) /\ origin = "relay"
    /\ pc = "relaying" =>
          /\ sent = got /\ promised = ContentLength(body) /\ origin = "relay"
          /\ (store => body.len > CacheLimit)

\* Nothing is decided before the end.
Undecided == pc # "done" => end = "none" /\ ~kept

\* The inductive invariant.
IInv ==
    /\ TypeOK
    /\ got <= body.len
    /\ Positions
    /\ Undecided
    /\ CorruptEndsShort
    /\ BodyInOrder
    /\ LimitExact
    /\ WriteThrough

USE LengthsAreNat, LimitsAreNat

-----------------------------------------------------------------------------
\* The length of a body is a number.
LEMMA BodyLength ==
    ASSUME NEW b \in Bodies \cup {NoBody}
    PROVE  b.len \in Nat /\ b.intact \in BOOLEAN /\ b.sized \in BOOLEAN
<1>1. CASE b \in Bodies
  BY <1>1 DEF Bodies
<1>2. CASE b = NoBody
  <2>1. b.len = 0 /\ b.intact = TRUE /\ b.sized = FALSE
    BY <1>2, Zenon DEF NoBody
  <2>2. b.len \in Nat
    BY <2>1
  <2>3. b.intact \in BOOLEAN /\ b.sized \in BOOLEAN
    BY <2>1, Zenon
  <2> QED BY <2>2, <2>3
<1> QED BY <1>1, <1>2

\* What is known of the absent body.
LEMMA NoBodyFacts == NoBody.len = 0 /\ NoBody.intact
<1>1. NoBody.len = 0 /\ NoBody.intact = TRUE
  BY Zenon DEF NoBody
<1> QED BY <1>1

\* An announced length is the body's.
LEMMA ContentLengthFacts ==
    ASSUME NEW b \in Bodies \cup {NoBody}
    PROVE  ContentLength(b) \in {NoLength, b.len}
BY BodyLength DEF ContentLength

\* A request starts with nothing read and nothing sent.
LEMMA InitIInv == Init => IInv
<1> SUFFICES ASSUME Init PROVE IInv
  OBVIOUS
<1>1. skewed \in BOOLEAN /\ kept \in BOOLEAN
  BY Zenon DEF Init
<1>2. ~skewed /\ ~kept
  BY Zenon DEF Init
<1> QED BY <1>1, <1>2, NoBodyFacts
        DEF Init, IInv, TypeOK, Positions, Undecided, CorruptEndsShort, BodyInOrder,
            LimitExact, WriteThrough, Bounded, Streaming, Reading, Origins, Ends,
            NoLength, ContentLength

-----------------------------------------------------------------------------
\* Choosing what to read keeps the invariant.
LEMMA BeginIInv ==
    ASSUME IInv, ReadDocument \/ CachedBlob \/ NoCachedBlob
    PROVE  IInv'
<1> USE DEF IInv, TypeOK, Positions, Undecided, CorruptEndsShort, BodyInOrder,
        LimitExact, WriteThrough, Bounded, Streaming, Reading, Origins, Ends,
        NoLength, Limit
<1>1. CASE ReadDocument
  BY <1>1, BodyLength DEF ReadDocument, Finish
<1>2. CASE CachedBlob
  <2>1. PICK b \in Bodies :
            /\ body' = [b EXCEPT !.sized = TRUE]
            /\ IF b.len > MaxBuffered
               THEN pc' = "verifying" /\ promised' = b.len
               ELSE pc' = "buffering" /\ UNCHANGED promised
    BY <1>2 DEF CachedBlob
  <2>2. body' \in Bodies /\ body'.len = b.len /\ b.len \in Nat
    BY <2>1 DEF Bodies
  <2> QED BY <1>2, <2>1, <2>2 DEF CachedBlob
<1>3. CASE NoCachedBlob
  BY <1>3, BodyLength, NoBodyFacts DEF NoCachedBlob
<1> QED BY <1>1, <1>2, <1>3

\* Asking upstream keeps the invariant.
LEMMA FetchIInv ==
    ASSUME IInv, Fetch \/ FetchFails
    PROVE  IInv'
<1> USE DEF IInv, TypeOK, Positions, Undecided, CorruptEndsShort, BodyInOrder,
        LimitExact, WriteThrough, Bounded, Streaming, Reading, Origins, Ends,
        NoLength, Limit
<1>1. CASE Fetch
  BY <1>1, BodyLength, ContentLengthFacts DEF Fetch, ContentLength
<1>2. CASE FetchFails
  BY <1>2, BodyLength, NoBodyFacts DEF FetchFails, Finish
<1> QED BY <1>1, <1>2

\* Taking a chunk keeps the invariant: each reader moves its counters together.
LEMMA ReadChunkIInv ==
    ASSUME IInv, ReadChunk
    PROVE  IInv'
<1>1. PICK n \in Chunks :
          \/ pc \in Bounded /\ ReadBoundedChunk(n)
          \/ pc = "verifying" /\ VerifyChunk(n)
          \/ pc = "writing_through" /\ WriteThroughChunk(n)
          \/ pc = "relaying" /\ RelayChunk(n)
  BY DEF ReadChunk
<1>2. body.len \in Nat /\ body.intact \in BOOLEAN /\ got \in Nat
  BY BodyLength DEF IInv, TypeOK
<1>3. n \in Nat /\ n > 0 /\ got + n <= body.len
  BY <1>1, <1>2 DEF Chunks
<1> USE DEF IInv, TypeOK, Positions, Undecided, CorruptEndsShort, BodyInOrder,
        LimitExact, WriteThrough, Bounded, Streaming, Reading, Origins, Ends,
        NoLength, Limit
<1>4. CASE pc \in Bounded /\ ReadBoundedChunk(n)
  BY <1>2, <1>3, <1>4, NoBodyFacts DEF ReadBoundedChunk, Finish, FallBack
<1>5. CASE pc = "verifying" /\ VerifyChunk(n)
  BY <1>2, <1>3, <1>5 DEF VerifyChunk, Emit
<1>6. CASE pc = "writing_through" /\ WriteThroughChunk(n)
  BY <1>2, <1>3, <1>6, ContentLengthFacts DEF WriteThroughChunk, Spill, ContentLength
<1>7. CASE pc = "relaying" /\ RelayChunk(n)
  BY <1>2, <1>3, <1>7, ContentLengthFacts DEF RelayChunk, Emit, ContentLength
<1> QED BY <1>1, <1>4, <1>5, <1>6, <1>7

\* Finding the end keeps the invariant: all bytes are read, and only a body
\* that matches its digest is answered from the store or written to it.
LEMMA ReadEndIInv ==
    ASSUME IInv, ReadEnd
    PROVE  IInv'
<1>1. body.len \in Nat /\ body.intact \in BOOLEAN /\ got = body.len
  BY BodyLength DEF IInv, TypeOK, ReadEnd
<1> USE DEF IInv, TypeOK, Positions, Undecided, CorruptEndsShort, BodyInOrder,
        LimitExact, WriteThrough, Bounded, Streaming, Reading, Origins, Ends,
        NoLength, Limit, Finish
<1>2. CASE pc \in Bounded /\ ReadBoundedEnd
  BY <1>1, <1>2, NoBodyFacts DEF ReadBoundedEnd, Emit, FallBack
<1>3. CASE pc = "verifying" /\ VerifyEnd
  <2>1. CASE body.intact
    BY <1>1, <1>3, <2>1 DEF VerifyEnd, Emit
  <2>2. CASE ~body.intact
    BY <1>1, <1>3, <2>2 DEF VerifyEnd
  <2> QED BY <2>1, <2>2
<1>4. CASE pc = "writing_through" /\ WriteThroughEnd
  <2>1. CASE kept' = TRUE /\ body.intact /\ promised' = prefix /\ Emit(0, prefix) /\ Finish("ok")
    <3>1. kept' \in BOOLEAN /\ kept'
      BY <2>1, Zenon
    <3> QED BY <1>1, <1>4, <2>1, <3>1 DEF WriteThroughEnd, Emit
  <2>2. CASE Finish("error") /\ UNCHANGED <<promised, sent, skewed, kept>>
    BY <1>1, <1>4, <2>2 DEF WriteThroughEnd
  <2> QED BY <1>4, <2>1, <2>2 DEF WriteThroughEnd
<1>5. CASE pc = "relaying" /\ RelayEnd
  BY <1>1, <1>5, ContentLengthFacts DEF RelayEnd, ContentLength
<1> QED BY <1>2, <1>3, <1>4, <1>5 DEF ReadEnd

\* A failure or a departure at any point keeps the invariant.
LEMMA BreakIInv ==
    ASSUME IInv, ReadFails \/ HangUp
    PROVE  IInv'
<1>1. body.len \in Nat /\ body.intact \in BOOLEAN
  BY BodyLength DEF IInv, TypeOK
<1> USE DEF IInv, TypeOK, Positions, Undecided, CorruptEndsShort, BodyInOrder,
        LimitExact, WriteThrough, Bounded, Streaming, Reading, Origins, Ends,
        NoLength, Limit, Finish
<1>2. CASE ReadFails
  BY <1>1, <1>2, NoBodyFacts DEF ReadFails, FallBack
<1>3. CASE HangUp
  BY <1>1, <1>3 DEF HangUp
<1> QED BY <1>2, <1>3

\* Sending the pieces of a split body keeps the invariant.
LEMMA SpillIInv ==
    ASSUME IInv, SendPrefix \/ SendTail
    PROVE  IInv'
<1>1. body.len \in Nat /\ body.intact \in BOOLEAN
  BY BodyLength DEF IInv, TypeOK
<1> USE DEF IInv, TypeOK, Positions, Undecided, CorruptEndsShort, BodyInOrder,
        LimitExact, WriteThrough, Bounded, Streaming, Reading, Origins, Ends,
        NoLength, Limit
<1>2. CASE SendPrefix
  BY <1>1, <1>2, ContentLengthFacts DEF SendPrefix, Emit, ContentLength
<1>3. CASE SendTail
  BY <1>1, <1>3, ContentLengthFacts DEF SendTail, Emit, ContentLength
<1> QED BY <1>2, <1>3

\* Every step keeps the invariant.
LEMMA NextIInv == IInv /\ [Next]_vars => IInv'
<1> SUFFICES ASSUME IInv, [Next]_vars PROVE IInv'
  OBVIOUS
<1>1. CASE UNCHANGED vars
  BY <1>1 DEF vars, IInv, TypeOK, Positions, Undecided, CorruptEndsShort,
       BodyInOrder, LimitExact, WriteThrough, Limit, ContentLength
<1>2. CASE Next
  <2>1. CASE Done
    BY <2>1, <1>1 DEF Done
  <2> QED BY <1>2, <2>1, BeginIInv, FetchIInv, ReadChunkIInv, ReadEndIInv,
             BreakIInv, SpillIInv DEF Next
<1> QED BY <1>1, <1>2

LEMMA Invariance == Spec => []IInv
BY InitIInv, NextIInv, PTL DEF Spec

-----------------------------------------------------------------------------
\* The counters and flags of a request keep their types.
THEOREM TypeCorrect == Spec => []TypeOK
BY Invariance, PTL DEF IInv

\* verified_cached_blob: for every body and every way to cut it into non-empty
\* chunks, stored bytes that do not match the digest never fill the promised
\* Content-Length.
THEOREM CorruptBodiesEndShort == Spec => []CorruptEndsShort
BY Invariance, PTL DEF IInv

\* Holding back, splitting and prepending keep every byte in its place.
THEOREM BodiesAreInOrder == Spec => []BodyInOrder
BY Invariance, PTL DEF IInv

\* read_bounded and read_upstream_blob keep to their limits, and refuse no
\* body that keeps to them.
THEOREM LimitsAreExact == Spec => []LimitExact
BY Invariance, PTL DEF IInv

\* A blob that fits is written through, and nothing else is.
THEOREM FittingBlobsAreWrittenThrough == Spec => []WriteThrough
BY Invariance, PTL DEF IInv
=============================================================================
