----------------------------- MODULE BlobStream -----------------------------
(***************************************************************************)
(* How the bytes of one body move through the proxy, chunk by chunk: the   *)
(* part of a blob GET that OciPull takes as one step, and the bounded      *)
(* reads of manifests, indexes, tag lists, charts and token answers.       *)
(*                                                                         *)
(* A body is its length and whether its bytes hash to the digest that was  *)
(* asked for; a byte is its position.  The source hands out the next chunk *)
(* of any non-empty size, ends after the last byte or fails at any point.  *)
(* What the client receives is the count of bytes sent, and a note (skewed)*)
(* of whether a piece was ever sent that does not continue the one before. *)
(*                                                                         *)
(* That chunks are not empty is an assumption about the backends: a        *)
(* corrupt body whose last chunk is empty would be sent in full before     *)
(* verified_cached_blob finds out.                                         *)
(***************************************************************************)
EXTENDS Integers

CONSTANTS
    Lengths,     \* the lengths a body may have
    MaxBuffered, \* MAX_BUFFERED_CACHED_BLOB_BYTES
    CacheLimit,  \* settings.max_chart_bytes
    ReadLimit    \* the limit of a bounded read (MAX_MANIFEST_BYTES, ...)

ASSUME LengthsAreNat == Lengths \subseteq Nat
ASSUME LimitsAreNat == MaxBuffered \in Nat /\ CacheLimit \in Nat /\ ReadLimit \in Nat

\* No Content-Length header.
NoLength == -1

VARIABLES
    pc,       \* where the handler is, and from where its response body comes
    store,    \* target.store
    body,     \* the body that is being read
    got,      \* bytes read of it
    held,     \* length of the chunk that is held back
    prefix,   \* bytes in the buffer
    sent,     \* bytes given to the client
    skewed,   \* a piece was given that does not start where the last one ended
    promised, \* the response's Content-Length
    origin,   \* what the response consists of
    kept,     \* put_blob has stored the body
    end       \* how the request ended

vars == <<pc, store, body, got, held, prefix, sent, skewed, promised, origin, kept, end>>

-----------------------------------------------------------------------------
\* sized: the source announces the length.  HTTP framing and the object's
\* metadata make an announced length the length of what is delivered in full.
Bodies == [len : Lengths, intact : BOOLEAN, sized : BOOLEAN]

NoBody == [len |-> 0, intact |-> TRUE, sized |-> FALSE]

\* Points at which a chunk of the body is awaited.
Bounded == {"document", "buffering"}
Streaming == {"verifying", "relaying"}
Reading == Bounded \cup Streaming \cup {"writing_through"}

\* What a response consists of: a document handed to another handler, bytes
\* of the store, bytes written through to the store, or the upstream's own.
Origins == {"none", "document", "cache", "written", "relay"}

\* "ok" is a complete response; "error" one with an error status; "aborted"
\* one whose body broke off; "gone" one whose client left.
Ends == {"none", "ok", "error", "too_large", "aborted", "gone"}

TypeOK ==
    /\ pc \in Reading \cup {"idle", "fetching", "prefix", "tail", "done"}
    /\ store \in BOOLEAN
    /\ body \in Bodies \cup {NoBody}
    /\ got \in Nat /\ held \in Nat /\ prefix \in Nat /\ sent \in Nat
    /\ skewed \in BOOLEAN
    /\ promised \in Nat \cup {NoLength}
    /\ origin \in Origins
    /\ kept \in BOOLEAN
    /\ end \in Ends

Init ==
    /\ pc = "idle"
    /\ store \in BOOLEAN
    /\ body = NoBody
    /\ got = 0 /\ held = 0 /\ prefix = 0 /\ sent = 0
    /\ skewed = FALSE
    /\ promised = NoLength
    /\ origin = "none"
    /\ kept = FALSE
    /\ end = "none"

\* The request is over.
Finish(how) == pc' = "done" /\ end' = how

\* The client is given the bytes after position lo up to position hi.
Emit(lo, hi) ==
    /\ sent' = sent + (hi - lo)
    /\ skewed' = (skewed \/ lo # sent)

\* response.content_length().
ContentLength(b) == IF b.sized THEN b.len ELSE NoLength

\* The sizes the next chunk may have.
Chunks == 1 .. (body.len - got)

\* The limit of read_bounded at a point of the handler.
Limit(p) == IF p = "document" THEN ReadLimit ELSE MaxBuffered

-----------------------------------------------------------------------------
\* read_response of anything but a blob: refused at once if the announced
\* length is over the limit.
ReadDocument ==
    /\ pc = "idle"
    /\ origin' = "document"
    /\ \E b \in Bodies :
          /\ body' = b
          /\ IF b.sized /\ b.len > ReadLimit
             THEN Finish("too_large")
             ELSE pc' = "document" /\ UNCHANGED end
    /\ UNCHANGED <<store, got, held, prefix, sent, skewed, promised, kept>>

\* blob() finds the digest in storage.  A long entry is streamed with the
\* length the store gives for it, a short one is buffered.
CachedBlob ==
    /\ pc = "idle" /\ store
    /\ origin' = "cache"
    /\ \E b \in Bodies :
          /\ body' = [b EXCEPT !.sized = TRUE]
          /\ IF b.len > MaxBuffered
             THEN pc' = "verifying" /\ promised' = b.len
             ELSE pc' = "buffering" /\ UNCHANGED promised
    /\ UNCHANGED <<store, got, held, prefix, sent, skewed, kept, end>>

\* blob() without a cached entry, or without looking for one.
NoCachedBlob ==
    /\ pc = "idle"
    /\ pc' = "fetching"
    /\ UNCHANGED <<store, body, got, held, prefix, sent, skewed, promised, origin, kept, end>>

\* cached_blob_response returns None: the handler asks upstream.
FallBack ==
    /\ pc' = "fetching"
    /\ body' = NoBody /\ got' = 0 /\ prefix' = 0
    /\ origin' = "none"
    /\ UNCHANGED end

-----------------------------------------------------------------------------
\* read_bounded takes a chunk.  A limit that is checked before the chunk is
\* counted lets one chunk too many in.
ReadBoundedChunk_late(n) ==
    /\ IF prefix > Limit(pc)
       THEN Finish("too_large") /\ UNCHANGED <<body, got, prefix, origin>>
       ELSE /\ got' = got + n
            /\ prefix' = prefix + n
            /\ UNCHANGED <<pc, body, origin, end>>
    /\ UNCHANGED <<store, held, sent, skewed, promised, kept>>

ReadBoundedChunk(n) ==
    /\ IF prefix + n > Limit(pc)
       THEN IF pc = "document"
            THEN Finish("too_large") /\ UNCHANGED <<body, got, prefix, origin>>
            ELSE FallBack
       ELSE /\ got' = got + n
            /\ prefix' = prefix + n
            /\ UNCHANGED <<pc, body, origin, end>>
    /\ UNCHANGED <<store, held, sent, skewed, promised, kept>>

\* The end of a bounded read.  A cached blob is hashed and answered, or
\* fetched again; any other document is returned to its handler.
ReadBoundedEnd ==
    /\ \/ pc = "document" /\ Finish("ok")
             /\ UNCHANGED <<body, got, prefix, sent, skewed, promised, origin>>
       \/ pc = "buffering" /\ body.intact
             /\ promised' = prefix
             /\ Emit(0, prefix)
             /\ Finish("ok")
             /\ UNCHANGED <<body, got, prefix, origin>>
       \/ pc = "buffering" /\ ~body.intact /\ FallBack
             /\ UNCHANGED <<sent, skewed, promised>>
    /\ UNCHANGED <<store, held, kept>>

\* A chunk goes to the client as soon as it is hashed.
VerifyChunk_at_once(n) ==
    /\ got' = got + n
    /\ Emit(got, got + n)
    /\ UNCHANGED <<pc, store, body, held, prefix, promised, origin, kept, end>>

\* verified_cached_blob: a chunk is hashed and takes the place of the one
\* that was held, which goes to the client.
VerifyChunk(n) ==
    /\ got' = got + n
    /\ held' = n
    /\ IF held > 0
       THEN Emit(got - held, got)
       ELSE UNCHANGED <<sent, skewed>>
    /\ UNCHANGED <<pc, store, body, prefix, promised, origin, kept, end>>

\* verified_cached_blob: the last chunk is given only to a digest that matches.
VerifyEnd ==
    /\ IF body.intact
       THEN Emit(got - held, got) /\ Finish("ok")
       ELSE Finish("aborted") /\ UNCHANGED <<sent, skewed>>
    /\ held' = 0
    /\ UNCHANGED <<store, body, got, prefix, promised, origin, kept>>

-----------------------------------------------------------------------------
\* blob(): upstream answers.  With write-through the body is buffered up to
\* the limit; otherwise it is passed on.
Fetch ==
    /\ pc = "fetching"
    /\ \E b \in Bodies :
          /\ body' = b
          /\ IF store /\ ~(b.sized /\ b.len > CacheLimit)
             THEN pc' = "writing_through" /\ origin' = "written" /\ UNCHANGED promised
             ELSE pc' = "relaying" /\ origin' = "relay" /\ promised' = ContentLength(b)
    /\ UNCHANGED <<store, got, held, prefix, sent, skewed, kept, end>>

\* blob(): upstream cannot be asked, or answers with an error status.
FetchFails ==
    /\ pc = "fetching"
    /\ Finish("error")
    /\ UNCHANGED <<store, body, got, held, prefix, sent, skewed, promised, origin, kept>>

\* read_upstream_blob: the response becomes a stream of the buffer, what is
\* left of the chunk and the rest of the body.
Spill ==
    /\ pc' = "prefix"
    /\ origin' = "relay"
    /\ promised' = ContentLength(body)

\* A body that fills the limit exactly is not cached.
WriteThroughChunk_at_limit(n) ==
    LET room == CacheLimit - prefix IN
    /\ got' = got + n
    /\ IF n >= room
       THEN prefix' = prefix + room /\ Spill
       ELSE prefix' = prefix + n /\ UNCHANGED <<pc, promised, origin>>
    /\ UNCHANGED <<store, body, held, sent, skewed, kept, end>>

\* read_upstream_blob takes a chunk; one that does not fit is split.
WriteThroughChunk(n) ==
    LET room == CacheLimit - prefix IN
    /\ got' = got + n
    /\ IF n > room
       THEN prefix' = prefix + room /\ Spill
       ELSE prefix' = prefix + n /\ UNCHANGED <<pc, promised, origin>>
    /\ UNCHANGED <<store, body, held, sent, skewed, kept, end>>

\* read_upstream_blob: the whole body is buffered.  It is hashed, stored and
\* only then answered.
WriteThroughEnd ==
    /\ \/ /\ body.intact
          /\ kept' = TRUE
          /\ promised' = prefix
          /\ Emit(0, prefix)
          /\ Finish("ok")
       \/ \* the digest does not match, or put_blob fails
          Finish("error") /\ UNCHANGED <<promised, sent, skewed, kept>>
    /\ UNCHANGED <<store, body, got, held, prefix, origin>>

\* The first pieces of the stream that read_upstream_blob leaves.
SendPrefix ==
    /\ pc = "prefix"
    /\ Emit(0, prefix)
    /\ pc' = "tail"
    /\ UNCHANGED <<store, body, got, held, prefix, promised, origin, kept, end>>

\* The rest of the split chunk is forgotten.
SendTail_lost ==
    /\ pc = "tail"
    /\ pc' = "relaying"
    /\ UNCHANGED <<store, body, got, held, prefix, sent, skewed, promised, origin, kept, end>>

SendTail ==
    /\ pc = "tail"
    /\ Emit(prefix, got)
    /\ pc' = "relaying"
    /\ UNCHANGED <<store, body, got, held, prefix, promised, origin, kept, end>>

\* The upstream's stream, passed on as it comes.
RelayChunk(n) ==
    /\ got' = got + n
    /\ Emit(got, got + n)
    /\ UNCHANGED <<pc, store, body, held, prefix, promised, origin, kept, end>>

RelayEnd ==
    /\ Finish("ok")
    /\ UNCHANGED <<store, body, got, held, prefix, sent, skewed, promised, origin, kept>>

-----------------------------------------------------------------------------
\* The reader of the body takes the next chunk.
ReadChunk ==
    \E n \in Chunks :
        \/ pc \in Bounded /\ ReadBoundedChunk(n)
        \/ pc = "verifying" /\ VerifyChunk(n)
        \/ pc = "writing_through" /\ WriteThroughChunk(n)
        \/ pc = "relaying" /\ RelayChunk(n)

\* The reader of the body finds its end.
ReadEnd ==
    /\ got = body.len
    /\ \/ pc \in Bounded /\ ReadBoundedEnd
       \/ pc = "verifying" /\ VerifyEnd
       \/ pc = "writing_through" /\ WriteThroughEnd
       \/ pc = "relaying" /\ RelayEnd

\* The source fails.  Before the response has begun that is an error status,
\* or another attempt for a cached blob; afterwards the body breaks off.
ReadFails ==
    /\ \/ pc \in {"document", "writing_through"} /\ Finish("error")
             /\ UNCHANGED <<body, got, prefix, origin>>
       \/ pc = "buffering" /\ FallBack
       \/ pc \in Streaming /\ Finish("aborted")
             /\ UNCHANGED <<body, got, prefix, origin>>
    /\ UNCHANGED <<store, held, sent, skewed, promised, kept>>

\* The client leaves; the handler or the stream is dropped.
HangUp ==
    /\ pc # "done"
    /\ Finish("gone")
    /\ UNCHANGED <<store, body, got, held, prefix, sent, skewed, promised, origin, kept>>

Done == pc = "done" /\ UNCHANGED vars

Next ==
    \/ ReadDocument \/ CachedBlob \/ NoCachedBlob
    \/ Fetch \/ FetchFails
    \/ ReadChunk \/ ReadEnd \/ ReadFails
    \/ SendPrefix \/ SendTail
    \/ HangUp \/ Done

Spec == Init /\ [][Next]_vars

-----------------------------------------------------------------------------
\* verified_cached_blob, "a corrupt entry always ends short of what it
\* promised": a response made of stored or written-through bytes that do not
\* match the digest is at every moment short of its Content-Length, however
\* the bytes are cut into chunks.
CorruptEndsShort ==
    (origin \in {"cache", "written"} /\ ~body.intact)
        => sent < promised \/ (sent = 0 /\ promised = NoLength)

\* verified_cached_blob and read_upstream_blob: holding a chunk back, splitting
\* one at the cache limit and putting the buffer in front of the rest lose no
\* byte, repeat none and keep their order; a response that ends without an
\* error is the whole body, and none is longer than it promised.
BodyInOrder ==
    /\ ~skewed
    /\ end = "ok" /\ origin # "document" => sent = body.len
    /\ promised # NoLength => sent <= promised

\* read_bounded and read_upstream_blob: no buffer grows past its limit, a
\* body is refused as too large only if it is, and one that is accepted has
\* been read to its end.
LimitExact ==
    /\ pc \in Bounded => prefix <= Limit(pc)
    /\ pc \in {"writing_through", "prefix", "tail"} => prefix <= CacheLimit
    /\ end = "too_large" => body.len > ReadLimit
    /\ end = "ok" /\ origin = "document" => prefix = body.len /\ prefix <= ReadLimit

\* blob(), "which must not silently disable write-through": a blob of a stored
\* target that was answered from upstream and fits the limit is in the store,
\* whether or not its length was announced; a longer one or a wrong one never.
WriteThrough ==
    /\ (store /\ end = "ok" /\ origin \in {"written", "relay"} /\ body.len <= CacheLimit) => kept
    /\ kept => origin = "written" /\ body.intact /\ body.len <= CacheLimit

=============================================================================
