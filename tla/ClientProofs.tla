---------------------------- MODULE ClientProofs ----------------------------
(***************************************************************************)
(* What two clients keep of their own: the Node.js wrapper's stream, and   *)
(* the cuckoo filter a client sends in place of a list of accounts.        *)
(*                                                                         *)
(* ConsumerSeesTheStream holds for every number of reads, callers, updates *)
(* and writes.  Its inductive invariant follows an update from the source  *)
(* through the one read the wrapper has in flight to the consumer, and a   *)
(* failed send to whoever takes its error.                                 *)
(*                                                                         *)
(* NoFalseNegatives and CleanIsSent hold for every set of items, every     *)
(* assignment of their fingerprints and buckets and every size of the      *)
(* table.  The inductive invariant says where each item sits, the one that *)
(* an insert has evicted included.                                         *)
(***************************************************************************)
EXTENDS NodeStream, CuckooSet, FiniteSetTheorems, SequenceTheorems, WellFoundedInduction,
        NaturalsInduction, TLAPS

ReadStates == {"none", "ready", "pending", "ended", "settled"}
Outcomes == {"opening", "rejected", "none", "eof", "error", "user"}

StreamTypes ==
    /\ sent \in Nat
    /\ source \in Seq(Int)
    /\ reads \in [Reads -> ReadStates]
    /\ result \in [Reads -> Int]
    /\ pushed \in Seq(Int)
    /\ outcome \in Outcomes
    /\ destroyed <=> outcome # "none"
    /\ outcome = "opening" => sent = 0

\* A result is there when the promise is settled, only a pending read waits to be woken,
\* and the wrapper has one read at a time.
ReadsInv ==
    /\ \A r \in Reads : result[r] # NoResult => reads[r] = "settled"
    /\ \A r \in waiters \cup towake : r \in Reads /\ reads[r] = "pending"
    /\ waiters \cap towake = {}
    /\ \A r \in JsReads : reads[r] # "none" => _readInFlight
    /\ \A r, q \in JsReads : reads[r] # "none" /\ reads[q] # "none" => r = q

Update(v) == v > 0

\* Updates leave the source in their order, and go to one read each.
OrderInv ==
    /\ \A i \in DOMAIN source : source[i] \in 1 .. sent \/ source[i] = StreamError
    /\ \A i, j \in DOMAIN source : i < j /\ Update(source[i]) /\ Update(source[j]) => source[i] < source[j]
    /\ \A r \in Reads : result[r] <= sent
    /\ \A j \in DOMAIN pushed : pushed[j] <= sent
    /\ \A i \in DOMAIN source, r \in Reads : Update(source[i]) => result[r] < source[i]
    /\ \A i \in DOMAIN source, j \in DOMAIN pushed : Update(source[i]) => pushed[j] < source[i]
    /\ \A r \in JsReads, j \in DOMAIN pushed : Update(result[r]) => pushed[j] < result[r]
    /\ \A i, j \in DOMAIN pushed : i < j => pushed[i] < pushed[j]

InSource(u) == \E i \in DOMAIN source : source[i] = u
InPushed(u) == \E j \in DOMAIN pushed : pushed[j] = u
InResult(u, R) == \E r \in R : result[r] = u

\* As long as the stream is open, every update is in the source, with a read, or pushed.
CoverInv ==
    outcome = "none" => \A u \in 1 .. sent : InSource(u) \/ InPushed(u) \/ InResult(u, Reads)

\* A read sees the end only behind the last update.
EndInv ==
    /\ \A r \in Reads : reads[r] = "ended" \/ result[r] = EndOfStream => ended /\ source = <<>>
    /\ outcome = "eof" => ended /\ \A u \in 1 .. sent : InPushed(u) \/ InResult(u, Callers)

\* The error of a failed send waits for the next read that ends, or was taken.
FailedInv ==
    /\ outcome = "none" /\ failed =>
          \/ InResult(StreamError, Reads)
          \/ terminal_error /\ ~InResult(EndOfStream, JsReads)
    /\ outcome = "eof" /\ failed => InResult(StreamError, Callers)

\* Nothing is written before there is a stream.
OpeningInv == outcome = "opening" => writing = "idle" /\ ~failed

StreamInv == StreamTypes /\ ReadsInv /\ OrderInv /\ CoverInv /\ EndInv /\ FailedInv

-----------------------------------------------------------------------------
(* What a step that leaves the data alone keeps                            *)

dataVars == <<sent, source, result, pushed>>

LEMMA OrderUnchanged ==
    ASSUME OrderInv, UNCHANGED dataVars
    PROVE  OrderInv'
BY DEF OrderInv, dataVars, Update

LEMMA CoverUnchanged ==
    ASSUME CoverInv, UNCHANGED dataVars, outcome' = "none" => outcome = "none"
    PROVE  CoverInv'
BY DEF CoverInv, dataVars, InSource, InPushed, InResult

LEMMA EndUnchanged ==
    ASSUME EndInv, UNCHANGED dataVars, ended' = ended, outcome' = "eof" => outcome = "eof",
           \A r \in Reads : reads'[r] = "ended" => reads[r] = "ended"
    PROVE  EndInv'
BY DEF EndInv, dataVars, InPushed, InResult

LEMMA FailedUnchanged ==
    ASSUME FailedInv, UNCHANGED <<result, terminal_error, failed>>,
           outcome' = outcome \/ outcome' \notin {"none", "eof"}
    PROVE  FailedInv'
BY DEF FailedInv, InResult

\* Everything that StreamInv is about
watchedVars == <<dataVars, ended, waiters, towake, reads, terminal_error, _readInFlight, destroyed, outcome, failed>>

LEMMA InvUnchanged ==
    ASSUME StreamInv, UNCHANGED watchedVars
    PROVE  StreamInv'
<1>1. UNCHANGED <<sent, source, result, pushed, ended, waiters, towake, reads, terminal_error, _readInFlight,
                  destroyed, outcome, failed>> /\ UNCHANGED dataVars
  BY DEF watchedVars, dataVars
<1>2. StreamTypes' /\ ReadsInv'
  BY <1>1 DEF StreamInv, StreamTypes, ReadsInv
<1>3. OrderInv' /\ CoverInv' /\ EndInv' /\ FailedInv'
  BY <1>1, OrderUnchanged, CoverUnchanged, EndUnchanged, FailedUnchanged DEF StreamInv
<1> QED
  BY <1>2, <1>3 DEF StreamInv

-----------------------------------------------------------------------------
(* The wrapped stream                                                      *)

LEMMA ServerUpdateKeeps ==
    ASSUME StreamInv, ServerUpdate
    PROVE  StreamInv'
<1>1. /\ sent' = sent + 1 /\ source' = Append(source, sent + 1) /\ ~ended
      /\ outcome \notin {"opening", "rejected"}
      /\ UNCHANGED <<result, pushed, ended, waiters, towake, reads, terminal_error, _readInFlight, destroyed,
                     outcome, failed>>
  BY DEF ServerUpdate, Arrives, Opened, sharedVars, channelVars, jsVars, writeVars
<1>2. /\ sent \in Nat /\ source \in Seq(Int) /\ Len(source) \in Nat
      /\ result \in [Reads -> Int] /\ pushed \in Seq(Int)
  BY DEF StreamInv, StreamTypes
<1>3. /\ source' \in Seq(Int) /\ DOMAIN source = 1 .. Len(source) /\ DOMAIN source' = 1 .. Len(source) + 1
      /\ source'[Len(source) + 1] = sent + 1
      /\ \A i \in DOMAIN source : source'[i] = source[i]
  BY <1>1, <1>2
<1>4. StreamTypes' /\ ReadsInv'
  <2>1. StreamTypes'
    BY <1>1, <1>2, <1>3 DEF StreamInv, StreamTypes
  <2>2. ReadsInv'
    BY <1>1 DEF StreamInv, ReadsInv
  <2> QED
    BY <2>1, <2>2
<1>5. /\ \A i \in DOMAIN source' : i \in DOMAIN source \/ (i = Len(source) + 1 /\ source'[i] = sent + 1)
      /\ \A i \in DOMAIN source : source[i] \in Int /\ source[i] <= sent /\ i <= Len(source)
      /\ \A r \in Reads : result[r] \in Int /\ result[r] <= sent
      /\ \A j \in DOMAIN pushed : pushed[j] \in Int /\ pushed[j] <= sent
  BY <1>2, <1>3 DEF StreamInv, OrderInv, StreamError
<1>6. OrderInv'
  <2>1. \A i \in DOMAIN source' : source'[i] \in 1 .. sent' \/ source'[i] = StreamError
    BY <1>1, <1>2, <1>3, <1>5 DEF StreamInv, OrderInv
  <2>2. ASSUME NEW i \in DOMAIN source', NEW j \in DOMAIN source', i < j, Update(source'[i]), Update(source'[j])
        PROVE  source'[i] < source'[j]
    <3>1. i \in DOMAIN source
      BY <1>2, <1>3, <2>2
    <3>2. CASE j \in DOMAIN source
      BY <1>3, <2>2, <3>1, <3>2 DEF StreamInv, OrderInv
    <3>3. CASE j \notin DOMAIN source
      BY <1>2, <1>3, <1>5, <3>1, <3>3
    <3> QED
      BY <3>2, <3>3
  <2>3. ASSUME NEW i \in DOMAIN source', Update(source'[i])
        PROVE  /\ \A r \in Reads : result[r] < source'[i]
               /\ \A j \in DOMAIN pushed : pushed[j] < source'[i]
    <3>1. CASE i \in DOMAIN source
      BY <1>3, <2>3, <3>1 DEF StreamInv, OrderInv
    <3>2. CASE i \notin DOMAIN source
      BY <1>2, <1>5, <3>2
    <3> QED
      BY <3>1, <3>2
  <2>4. /\ \A r \in Reads : result'[r] <= sent'
        /\ \A j \in DOMAIN pushed' : pushed'[j] <= sent'
    BY <1>1, <1>2, <1>5
  <2> QED
    BY <1>1, <2>1, <2>2, <2>3, <2>4 DEF StreamInv, OrderInv, Update
<1>7. CoverInv'
  <2> SUFFICES ASSUME outcome = "none", NEW u \in 1 .. sent + 1
               PROVE  (InSource(u) \/ InPushed(u) \/ InResult(u, Reads))'
    BY <1>1 DEF CoverInv
  <2>1. CASE u \in 1 .. sent
    <3>1. InSource(u) \/ InPushed(u) \/ InResult(u, Reads)
      BY <2>1 DEF StreamInv, CoverInv
    <3>2. InSource(u) => InSource(u)'
      BY <1>2, <1>3 DEF InSource
    <3>3. (InPushed(u) => InPushed(u)') /\ (InResult(u, Reads) => InResult(u, Reads)')
      BY <1>1 DEF InPushed, InResult
    <3> QED
      BY <3>1, <3>2, <3>3
  <2>2. CASE u = sent + 1
    BY <1>2, <1>3, <2>2 DEF InSource
  <2>3. u \in 1 .. sent \/ u = sent + 1
    BY ONLY <1>2, u \in 1 .. sent + 1
  <2> QED
    BY ONLY <2>1, <2>2, <2>3
<1>8. EndInv' /\ FailedInv'
  <2>1. EndInv'
    BY <1>1 DEF StreamInv, EndInv
  <2>2. FailedInv'
    BY <1>1, FailedUnchanged DEF StreamInv
  <2> QED
    BY <2>1, <2>2
<1> QED
  BY <1>4, <1>6, <1>7, <1>8 DEF StreamInv

LEMMA ServerEndsKeeps ==
    ASSUME StreamInv, ServerEnds
    PROVE  StreamInv'
<1>1. /\ source' \in {source, Append(source, StreamError)} /\ ~ended
      /\ UNCHANGED <<sent, result, pushed, waiters, towake, reads, terminal_error, _readInFlight, destroyed,
                     outcome, failed>>
  BY DEF ServerEnds, Arrives, sharedVars, channelVars, jsVars, writeVars
<1>2. /\ sent \in Nat /\ source \in Seq(Int) /\ Len(source) \in Nat /\ DOMAIN source = 1 .. Len(source)
  BY DEF StreamInv, StreamTypes
<1>3. /\ source' \in Seq(Int)
      /\ \A i \in DOMAIN source : i \in DOMAIN source' /\ source'[i] = source[i]
      /\ \A i \in DOMAIN source' : i \in DOMAIN source \/ source'[i] = StreamError
  BY <1>1, <1>2 DEF StreamError
<1>4. StreamTypes' /\ ReadsInv'
  <2>1. StreamTypes'
    BY <1>1, <1>3 DEF StreamInv, StreamTypes
  <2>2. ReadsInv'
    BY <1>1 DEF StreamInv, ReadsInv
  <2> QED
    BY <2>1, <2>2
<1>5. OrderInv'
  <2>1. \A i \in DOMAIN source' : Update(source'[i]) => i \in DOMAIN source /\ source'[i] = source[i]
    BY <1>3 DEF Update, StreamError
  <2>2. \A i \in DOMAIN source' : source'[i] \in 1 .. sent' \/ source'[i] = StreamError
    BY <1>1, <1>3 DEF StreamInv, OrderInv
  <2> QED
    BY <1>1, <2>1, <2>2 DEF StreamInv, OrderInv, Update
<1>6. CoverInv'
  <2>1. \A u : InSource(u) => InSource(u)'
    BY <1>3 DEF InSource
  <2>2. \A u : (InPushed(u) => InPushed(u)') /\ (InResult(u, Reads) => InResult(u, Reads)')
    BY <1>1 DEF InPushed, InResult
  <2> QED
    BY <1>1, <2>1, <2>2 DEF StreamInv, CoverInv
<1>7. EndInv'
  <2>1. \A r \in Reads : ~(reads[r] = "ended" \/ result[r] = EndOfStream)
    BY <1>1 DEF StreamInv, EndInv
  <2>2. outcome # "eof"
    BY <1>1 DEF StreamInv, EndInv
  <2> QED
    BY <1>1, <2>1, <2>2 DEF EndInv
<1>8. FailedInv'
  BY <1>1, FailedUnchanged DEF StreamInv
<1> QED
  BY <1>4, <1>5, <1>6, <1>7, <1>8 DEF StreamInv

-----------------------------------------------------------------------------
(* Reads that are started, put to sleep and woken                          *)

\* A step that only moves a read between the states in which it has no result
LEMMA ReadsMove ==
    ASSUME StreamInv, UNCHANGED <<dataVars, ended, terminal_error, destroyed, outcome, failed>>,
           reads' \in [Reads -> ReadStates], ReadsInv',
           \A r \in Reads : reads'[r] = "ended" => reads[r] = "ended"
    PROVE  StreamInv'
<1>1. UNCHANGED <<sent, source, result, pushed, ended, terminal_error, destroyed, outcome, failed>>
  BY DEF dataVars
<1>2. StreamTypes'
  BY <1>1 DEF StreamInv, StreamTypes
<1>3. OrderInv' /\ CoverInv' /\ EndInv' /\ FailedInv'
  BY <1>1, OrderUnchanged, CoverUnchanged, EndUnchanged, FailedUnchanged DEF StreamInv
<1> QED
  BY <1>2, <1>3 DEF StreamInv

LEMMA WakeByRefKeeps ==
    ASSUME StreamInv, WakeByRef
    PROVE  StreamInv'
<1>1. /\ towake' = waiters /\ waiters' = {} /\ reads' = reads /\ _readInFlight' = _readInFlight
      /\ result' = result
      /\ UNCHANGED <<dataVars, ended, terminal_error, destroyed, outcome, failed>>
  BY DEF WakeByRef, channelVars, jsVars, writeVars, dataVars
<1>2. ReadsInv'
  BY <1>1 DEF StreamInv, ReadsInv
<1>3. reads \in [Reads -> ReadStates]
  BY DEF StreamInv, StreamTypes
<1> QED
  BY <1>1, <1>2, <1>3, ReadsMove

LEMMA WakeKeeps ==
    ASSUME StreamInv, NEW r \in Reads, Wake(r)
    PROVE  StreamInv'
<1>1. /\ r \in towake /\ towake' = towake \ {r} /\ waiters' = waiters /\ reads' = [reads EXCEPT ![r] = "ready"]
      /\ _readInFlight' = _readInFlight /\ result' = result
      /\ UNCHANGED <<dataVars, ended, terminal_error, destroyed, outcome, failed>>
  BY DEF Wake, streamVars, channelVars, jsVars, writeVars, dataVars
<1>2. reads \in [Reads -> ReadStates] /\ reads[r] = "pending" /\ result[r] = NoResult
  BY <1>1 DEF StreamInv, StreamTypes, ReadsInv
<1>3. reads' \in [Reads -> ReadStates] /\ \A q \in Reads : q # r => reads'[q] = reads[q]
  BY <1>1, <1>2 DEF ReadStates
<1>4. reads'[r] = "ready"
  BY <1>1, <1>2
<1>5. JsReads \subseteq Reads
  BY DEF Reads
<1>6. ReadsInv'
  <2>1. \A q \in Reads : result'[q] # NoResult => reads'[q] = "settled"
    BY <1>1, <1>2, <1>3 DEF StreamInv, ReadsInv
  <2>2. /\ \A q \in waiters' \cup towake' : q \in Reads /\ reads'[q] = "pending"
        /\ waiters' \cap towake' = {}
    BY <1>1, <1>3 DEF StreamInv, ReadsInv
  <2>3. \A q \in JsReads : reads'[q] # "none" => reads[q] # "none"
    BY <1>2, <1>3, <1>5
  <2> QED
    BY <1>1, <2>1, <2>2, <2>3 DEF StreamInv, ReadsInv
<1>7. \A q \in Reads : reads'[q] = "ended" => reads[q] = "ended"
  BY <1>3, <1>4
<1> QED
  BY <1>1, <1>3, <1>6, <1>7, ReadsMove

\* A read is started that was not in use: by the wrapper, whose only one it is, or by
\* somebody else.
LEMMA StartReadKeeps ==
    ASSUME StreamInv, NEW r \in Reads, reads[r] = "none", reads' = [reads EXCEPT ![r] = "ready"],
           UNCHANGED <<dataVars, ended, waiters, towake, terminal_error, destroyed, outcome, failed>>,
           r \in JsReads => ~_readInFlight /\ _readInFlight',
           r \notin JsReads => _readInFlight' = _readInFlight
    PROVE  StreamInv'
<1>1. waiters' = waiters /\ towake' = towake /\ result' = result
  BY DEF dataVars
<1>2. reads \in [Reads -> ReadStates] /\ JsReads \subseteq Reads
  BY DEF StreamInv, StreamTypes, Reads
<1>3. /\ reads' \in [Reads -> ReadStates] /\ reads'[r] = "ready"
      /\ \A q \in Reads : q # r => reads'[q] = reads[q]
  BY <1>2 DEF ReadStates
<1>4. ReadsInv'
  <2>1. \A q \in Reads : result'[q] # NoResult => reads'[q] = "settled"
    BY <1>1, <1>3 DEF StreamInv, ReadsInv
  <2>2. /\ \A q \in waiters' \cup towake' : q \in Reads /\ reads'[q] = "pending"
        /\ waiters' \cap towake' = {}
    BY <1>1, <1>3 DEF StreamInv, ReadsInv
  <2>3. CASE r \in JsReads
    <3>1. \A q \in JsReads : reads[q] = "none"
      BY <2>3 DEF StreamInv, ReadsInv
    <3>2. \A q \in JsReads : reads'[q] # "none" => q = r
      BY <1>2, <1>3, <3>1
    <3> QED
      BY <2>1, <2>2, <2>3, <3>2 DEF ReadsInv
  <2>4. CASE r \notin JsReads
    <3>1. \A q \in JsReads : reads'[q] = reads[q]
      BY <1>2, <1>3, <2>4
    <3> QED
      BY <2>1, <2>2, <2>4, <3>1 DEF StreamInv, ReadsInv
  <2> QED
    BY <2>3, <2>4
<1>5. \A q \in Reads : reads'[q] = "ended" => reads[q] = "ended"
  BY <1>3
<1>6. UNCHANGED <<dataVars, ended, terminal_error, destroyed, outcome, failed>>
  OBVIOUS
<1> QED
  BY <1>3, <1>4, <1>5, <1>6, ReadsMove

LEMMA ReadKeeps ==
    ASSUME StreamInv, NEW r \in JsReads, Read(r)
    PROVE  StreamInv'
<1>1. /\ reads[r] = "none" /\ reads' = [reads EXCEPT ![r] = "ready"] /\ ~_readInFlight /\ _readInFlight'
      /\ UNCHANGED <<dataVars, ended, waiters, towake, terminal_error, destroyed, outcome, failed>>
  BY DEF Read, StartRead, Pulling, streamVars, channelVars, writeVars, dataVars
<1>2. r \in Reads
  BY DEF Reads
<1> QED
  BY <1>1, <1>2, StartReadKeeps

LEMMA CallerReadsKeeps ==
    ASSUME StreamInv, NEW r \in Reads, CallerReads(r)
    PROVE  StreamInv'
<1>1. /\ reads[r] = "none" /\ reads' = [reads EXCEPT ![r] = "ready"] /\ _readInFlight' = _readInFlight
      /\ UNCHANGED <<dataVars, ended, waiters, towake, terminal_error, destroyed, outcome, failed>>
  BY DEF CallerReads, StartRead, streamVars, channelVars, jsVars, writeVars, dataVars
<1>2. r \notin JsReads
  BY NodeAssumption DEF CallerReads, NodeAssumption
<1> QED
  BY <1>1, <1>2, StartReadKeeps

-----------------------------------------------------------------------------
(* Polls: a read gets an update, an error or the end                       *)

\* A read that has no result yet gets one; the others keep theirs.
LEMMA ResultsKept ==
    ASSUME StreamInv, NEW r \in Reads, reads[r] # "settled", NEW v \in Int,
           result' = [result EXCEPT ![r] = v]
    PROVE  /\ result[r] = NoResult /\ result'[r] = v /\ result' \in [Reads -> Int]
           /\ \A q \in Reads : q # r => result'[q] = result[q]
           /\ \A u : u # NoResult => /\ InResult(u, Reads) => InResult(u, Reads)'
                                     /\ InResult(u, Callers) => InResult(u, Callers)'
           /\ InResult(v, Reads)'
<1>1. result \in [Reads -> Int] /\ result[r] = NoResult
  BY DEF StreamInv, StreamTypes, ReadsInv
<1>2. result'[r] = v /\ result' \in [Reads -> Int] /\ \A q \in Reads : q # r => result'[q] = result[q]
  BY <1>1
<1>3. Callers \subseteq Reads
  BY DEF Reads
<1>4. \A u : u # NoResult => /\ InResult(u, Reads) => InResult(u, Reads)'
                             /\ InResult(u, Callers) => InResult(u, Callers)'
  BY <1>1, <1>2, <1>3 DEF InResult
<1>5. InResult(v, Reads)'
  BY <1>2 DEF InResult
<1> QED
  BY <1>1, <1>2, <1>4, <1>5

\* The states of a read that goes from one that is no wait and no rest to another
LEMMA ReadGoesOn ==
    ASSUME StreamInv, NEW r \in Reads, reads[r] \in {"ready", "ended"}, NEW x \in {"ended", "settled"},
           reads' = [reads EXCEPT ![r] = x],
           UNCHANGED <<waiters, towake, _readInFlight>>,
           \A q \in Reads : q # r => result'[q] = result[q],
           x = "ended" => result'[r] = NoResult
    PROVE  ReadsInv' /\ reads' \in [Reads -> ReadStates] /\ reads'[r] = x /\ \A q \in Reads : q # r => reads'[q] = reads[q]
<1>1. reads \in [Reads -> ReadStates] /\ JsReads \subseteq Reads
  BY DEF StreamInv, StreamTypes, Reads
<1>2. reads' \in [Reads -> ReadStates] /\ reads'[r] = x /\ \A q \in Reads : q # r => reads'[q] = reads[q]
  BY <1>1 DEF ReadStates
<1>3. \A q \in Reads : result'[q] # NoResult => reads'[q] = "settled"
  BY <1>2 DEF StreamInv, ReadsInv
<1>4. /\ \A q \in waiters' \cup towake' : q \in Reads /\ reads'[q] = "pending"
      /\ waiters' \cap towake' = {}
  BY <1>2 DEF StreamInv, ReadsInv
<1>5. \A q \in JsReads : reads'[q] # "none" => reads[q] # "none"
  BY <1>1, <1>2
<1>6. ReadsInv'
  BY <1>3, <1>4, <1>5 DEF StreamInv, ReadsInv
<1> QED
  BY <1>2, <1>6

\* The head of the source goes to the read.
LEMMA PollItemKeeps ==
    ASSUME StreamInv, NEW r \in Reads, PollNext(r), source # <<>>
    PROVE  StreamInv'
<1>1. /\ reads[r] = "ready" /\ reads' = [reads EXCEPT ![r] = "settled"]
      /\ result' = [result EXCEPT ![r] = Head(source)] /\ source' = Tail(source)
      /\ UNCHANGED <<sent, pushed, ended, waiters, towake, terminal_error, _readInFlight, destroyed, outcome, failed>>
  BY DEF PollNext, Settle, channelVars, jsVars, writeVars
<1>2. PICK v : v = Head(source)
  OBVIOUS
<1>3. /\ sent \in Nat /\ source \in Seq(Int) /\ Len(source) \in Nat /\ pushed \in Seq(Int) /\ result \in [Reads -> Int]
      /\ JsReads \subseteq Reads
  BY DEF StreamInv, StreamTypes, Reads
<1>4. /\ v = source[1] /\ 1 \in DOMAIN source /\ v \in Int /\ source' \in Seq(Int)
      /\ DOMAIN source = 1 .. Len(source) /\ DOMAIN source' = 1 .. Len(source) - 1
      /\ \A i \in DOMAIN source' : source'[i] = source[i + 1] /\ i + 1 \in DOMAIN source /\ 1 < i + 1
      /\ \A i \in DOMAIN source : i = 1 \/ (i - 1 \in DOMAIN source' /\ source'[i - 1] = source[i])
  <2>1. Len(source) >= 1 /\ DOMAIN source = 1 .. Len(source)
    BY <1>3
  <2>2. v = source[1] /\ 1 \in DOMAIN source /\ v \in Int
    BY <1>2, <1>3, <2>1
  <2>3. source' \in Seq(Int) /\ DOMAIN source' = 1 .. Len(source) - 1
    BY <1>1, <1>3, <2>1
  <2>4. \A i \in DOMAIN source' : source'[i] = source[i + 1] /\ i + 1 \in DOMAIN source /\ 1 < i + 1
    BY <1>1, <1>3, <2>1, <2>3
  <2>5. \A i \in DOMAIN source : i = 1 \/ (i - 1 \in DOMAIN source' /\ source'[i - 1] = source[i])
    BY <1>1, <1>3, <2>1, <2>3
  <2> QED
    BY <2>1, <2>2, <2>3, <2>4, <2>5
<1>5. /\ result[r] = NoResult /\ result'[r] = v /\ result' \in [Reads -> Int]
      /\ \A q \in Reads : q # r => result'[q] = result[q]
      /\ \A u : u # NoResult => /\ InResult(u, Reads) => InResult(u, Reads)'
                                /\ InResult(u, Callers) => InResult(u, Callers)'
      /\ InResult(v, Reads)'
  BY <1>1, <1>2, <1>4, ResultsKept
<1>6. ReadsInv' /\ reads' \in [Reads -> ReadStates] /\ reads'[r] = "settled" /\ \A q \in Reads : q # r => reads'[q] = reads[q]
  BY <1>1, <1>5, ReadGoesOn
<1>7. StreamTypes'
  BY <1>1, <1>4, <1>5, <1>6 DEF StreamInv, StreamTypes
<1>8. (v \in 1 .. sent \/ v = StreamError) /\ v # EndOfStream /\ v <= sent
  <2>1. v \in 1 .. sent \/ v = StreamError
    BY <1>4 DEF StreamInv, OrderInv
  <2> QED
    BY <1>3, <2>1 DEF StreamError, EndOfStream
<1>9. OrderInv'
  <2>1. \A i \in DOMAIN source' : source'[i] \in 1 .. sent \/ source'[i] = StreamError
    BY <1>4 DEF StreamInv, OrderInv
  <2>2. ASSUME NEW i \in DOMAIN source', NEW j \in DOMAIN source', i < j, Update(source'[i]), Update(source'[j])
        PROVE  source'[i] < source'[j]
    <3>1. i + 1 < j + 1
      BY <1>4, <2>2
    <3> QED
      BY <1>4, <2>2, <3>1 DEF StreamInv, OrderInv
  <2>3. \A q \in Reads : result'[q] <= sent
    BY <1>5, <1>8 DEF StreamInv, OrderInv
  <2>4. ASSUME NEW i \in DOMAIN source', Update(source'[i]), NEW q \in Reads
        PROVE  result'[q] < source'[i]
    <3>1. CASE q # r
      BY <1>4, <1>5, <2>4, <3>1 DEF StreamInv, OrderInv
    <3>2. CASE q = r /\ Update(v)
      BY <1>4, <1>5, <2>4, <3>2 DEF StreamInv, OrderInv
    <3>3. CASE q = r /\ ~Update(v)
      <4>1. v = StreamError /\ source'[i] > 0 /\ source'[i] \in Int
        BY <1>3, <1>4, <1>8, <2>4, <3>3 DEF Update
      <4> QED
        BY <1>5, <3>3, <4>1 DEF StreamError
    <3> QED
      BY <3>1, <3>2, <3>3
  <2>5. \A i \in DOMAIN source', j \in DOMAIN pushed : Update(source'[i]) => pushed[j] < source'[i]
    BY <1>4 DEF StreamInv, OrderInv
  <2>6. ASSUME NEW q \in JsReads, NEW j \in DOMAIN pushed, Update(result'[q])
        PROVE  pushed[j] < result'[q]
    <3>1. CASE q # r
      BY <1>3, <1>5, <2>6, <3>1 DEF StreamInv, OrderInv
    <3>2. CASE q = r
      BY <1>4, <1>5, <2>6, <3>2 DEF StreamInv, OrderInv
    <3> QED
      BY <3>1, <3>2
  <2> QED
    BY <1>1, <2>1, <2>2, <2>3, <2>4, <2>5, <2>6 DEF StreamInv, OrderInv, Update
<1>10. CoverInv'
  <2> SUFFICES ASSUME outcome = "none", NEW u \in 1 .. sent
               PROVE  (InSource(u) \/ InPushed(u) \/ InResult(u, Reads))'
    BY <1>1 DEF CoverInv
  <2>1. u # NoResult
    BY <1>3 DEF NoResult
  <2>2. InSource(u) \/ InPushed(u) \/ InResult(u, Reads)
    BY DEF StreamInv, CoverInv
  <2>3. ASSUME InSource(u)
        PROVE  InSource(u)' \/ InResult(u, Reads)'
    <3>1. PICK i \in DOMAIN source : source[i] = u
      BY <2>3 DEF InSource
    <3>2. CASE i = 1
      BY <1>4, <1>5, <3>1, <3>2
    <3>3. CASE i # 1
      <4>1. i - 1 \in DOMAIN source' /\ source'[i - 1] = u
        BY <1>4, <3>1, <3>3
      <4> QED
        BY <4>1 DEF InSource
    <3> QED
      BY <3>2, <3>3
  <2>4. InPushed(u) => InPushed(u)'
    BY <1>1 DEF InPushed
  <2> QED
    BY <1>5, <2>1, <2>2, <2>3, <2>4
<1>11. EndInv'
  <2>1. \A q \in Reads : ~(reads[q] = "ended" \/ result[q] = EndOfStream)
    BY DEF StreamInv, EndInv
  <2>2. \A q \in Reads : ~(reads'[q] = "ended" \/ result'[q] = EndOfStream)
    BY <1>5, <1>6, <1>8, <2>1
  <2>3. \A u \in 1 .. sent : u # NoResult
    BY <1>3 DEF NoResult
  <2>4. \A u : InPushed(u) => InPushed(u)'
    BY <1>1 DEF InPushed
  <2> QED
    BY <1>1, <1>5, <2>2, <2>3, <2>4 DEF StreamInv, EndInv
<1>12. FailedInv'
  <2>1. StreamError # NoResult /\ EndOfStream # NoResult
    BY DEF StreamError, EndOfStream, NoResult
  <2>2. ~InResult(EndOfStream, JsReads) => ~InResult(EndOfStream, JsReads)'
    BY <1>3, <1>5, <1>8 DEF InResult
  <2> QED
    BY <1>1, <1>5, <2>1, <2>2 DEF StreamInv, FailedInv
<1> QED
  BY <1>6, <1>7, <1>9, <1>10, <1>11, <1>12 DEF StreamInv

\* There is nothing: the read waits, or sees the end.
LEMMA PollNothingKeeps ==
    ASSUME StreamInv, NEW r \in Reads, PollNext(r), source = <<>>
    PROVE  StreamInv'
<1>1. /\ reads[r] = "ready" /\ reads' = [reads EXCEPT ![r] = IF ended THEN "ended" ELSE "pending"]
      /\ waiters' = IF ended THEN waiters ELSE waiters \cup {r}
      /\ UNCHANGED <<sent, source, result, pushed, ended, towake, terminal_error, _readInFlight, destroyed, outcome, failed>>
  BY DEF PollNext, Waiters, channelVars, jsVars, writeVars
<1>2. reads \in [Reads -> ReadStates] /\ JsReads \subseteq Reads /\ result[r] = NoResult
  BY <1>1 DEF StreamInv, StreamTypes, Reads, ReadsInv
<1>3. UNCHANGED dataVars
  BY <1>1 DEF dataVars
<1>4. CASE ended
  <2>1. ReadsInv' /\ reads' \in [Reads -> ReadStates] /\ reads'[r] = "ended" /\ \A q \in Reads : q # r => reads'[q] = reads[q]
    BY <1>1, <1>2, <1>4, ReadGoesOn
  <2>2. StreamTypes'
    BY <1>1, <2>1 DEF StreamInv, StreamTypes
  <2>3. EndInv'
    BY <1>1, <1>4 DEF StreamInv, EndInv, InPushed, InResult
  <2>4. OrderInv' /\ CoverInv' /\ FailedInv'
    BY <1>1, <1>3, OrderUnchanged, CoverUnchanged, FailedUnchanged DEF StreamInv
  <2> QED
    BY <2>1, <2>2, <2>3, <2>4 DEF StreamInv
<1>5. CASE ~ended
  <2>1. /\ reads' \in [Reads -> ReadStates] /\ reads'[r] = "pending"
        /\ \A q \in Reads : q # r => reads'[q] = reads[q]
    BY <1>1, <1>2, <1>5 DEF ReadStates
  <2>2. \A q \in Reads : result'[q] # NoResult => reads'[q] = "settled"
    BY <1>1, <1>2, <2>1 DEF StreamInv, ReadsInv
  <2>3. /\ \A q \in waiters' \cup towake' : q \in Reads /\ reads'[q] = "pending"
        /\ waiters' \cap towake' = {}
    BY <1>1, <1>5, <2>1 DEF StreamInv, ReadsInv
  <2>4. \A q \in JsReads : reads'[q] # "none" => reads[q] # "none"
    BY <1>1, <1>2, <2>1
  <2>5. ReadsInv'
    BY <1>1, <2>2, <2>3, <2>4 DEF StreamInv, ReadsInv
  <2>6. \A q \in Reads : reads'[q] = "ended" => reads[q] = "ended"
    BY <2>1
  <2> QED
    BY <1>1, <1>3, <2>1, <2>5, <2>6, ReadsMove
<1> QED
  BY <1>4, <1>5

LEMMA RecvEndKeeps ==
    ASSUME StreamInv, NEW r \in Reads, RecvEnd(r)
    PROVE  StreamInv'
<1>1. PICK v : v = IF terminal_error THEN StreamError ELSE EndOfStream
  OBVIOUS
<1>2. /\ reads[r] = "ended" /\ reads' = [reads EXCEPT ![r] = "settled"] /\ result' = [result EXCEPT ![r] = v]
      /\ terminal_error' = FALSE
      /\ UNCHANGED <<sent, source, pushed, ended, waiters, towake, _readInFlight, destroyed, outcome, failed>>
  BY <1>1 DEF RecvEnd, Settle, get_terminal_error, streamVars, jsVars, writeVars
<1>3. v \in Int /\ ~Update(v) /\ v # NoResult /\ \A n \in Nat : v <= n
  BY <1>1 DEF StreamError, EndOfStream, Update, NoResult
<1>4. /\ result[r] = NoResult /\ result'[r] = v /\ result' \in [Reads -> Int]
      /\ \A q \in Reads : q # r => result'[q] = result[q]
      /\ \A u : u # NoResult => /\ InResult(u, Reads) => InResult(u, Reads)'
                                /\ InResult(u, Callers) => InResult(u, Callers)'
      /\ InResult(v, Reads)'
  BY <1>2, <1>3, ResultsKept
<1>5. ReadsInv' /\ reads' \in [Reads -> ReadStates] /\ reads'[r] = "settled" /\ \A q \in Reads : q # r => reads'[q] = reads[q]
  BY <1>2, <1>4, ReadGoesOn
<1>6. ended /\ source = <<>> /\ sent \in Nat
  BY <1>2 DEF StreamInv, EndInv, StreamTypes
<1>7. StreamTypes'
  BY <1>2, <1>4, <1>5 DEF StreamInv, StreamTypes
<1>8. OrderInv'
  <2>1. \A q \in Reads : result'[q] <= sent
    BY <1>3, <1>4, <1>6 DEF StreamInv, OrderInv
  <2>2. \A q \in Reads : Update(result'[q]) => result'[q] = result[q]
    BY <1>3, <1>4
  <2>3. JsReads \subseteq Reads /\ DOMAIN source' = {}
    BY <1>2, <1>6 DEF Reads
  <2> QED
    BY <1>2, <2>1, <2>2, <2>3 DEF StreamInv, OrderInv, Update
<1>9. CoverInv' /\ EndInv'
  <2>1. \A u \in 1 .. sent : u # NoResult
    BY <1>6 DEF NoResult
  <2>2. \A u : (InPushed(u) => InPushed(u)') /\ (InSource(u) => InSource(u)')
    BY <1>2 DEF InPushed, InSource
  <2>3. CoverInv'
    BY <1>2, <1>4, <2>1, <2>2 DEF StreamInv, CoverInv
  <2>4. EndInv'
    BY <1>2, <1>4, <1>6, <2>1, <2>2 DEF StreamInv, EndInv
  <2> QED
    BY <2>3, <2>4
<1>10. FailedInv'
  <2>1. StreamError # NoResult
    BY DEF StreamError, NoResult
  <2>2. terminal_error => InResult(StreamError, Reads)'
    BY <1>1, <1>4
  <2> QED
    BY <1>2, <1>4, <2>1, <2>2 DEF StreamInv, FailedInv
<1> QED
  BY <1>5, <1>7, <1>8, <1>9, <1>10 DEF StreamInv

-----------------------------------------------------------------------------
(* The handlers of the wrapper's promise                                   *)

\* The result of the one read is taken, which is at rest then or started again.
LEMMA HandledReads ==
    ASSUME StreamInv, NEW r \in JsReads, reads[r] = "settled", NEW x \in {"none", "ready"},
           reads' = [reads EXCEPT ![r] = x], result' = [result EXCEPT ![r] = NoResult],
           UNCHANGED <<waiters, towake>>, x = "ready" => _readInFlight'
    PROVE  /\ ReadsInv' /\ reads' \in [Reads -> ReadStates] /\ result' \in [Reads -> Int]
           /\ r \in Reads /\ r \notin Callers /\ result'[r] = NoResult
           /\ \A q \in Reads : q # r => result'[q] = result[q]
           /\ \A q \in Reads : reads'[q] = "ended" => reads[q] = "ended"
           /\ \A q \in Reads : q # r /\ q \notin Callers => result[q] = NoResult
           /\ \A u : InResult(u, Callers)' <=> InResult(u, Callers)
<1>1. /\ reads \in [Reads -> ReadStates] /\ result \in [Reads -> Int] /\ JsReads \subseteq Reads /\ Callers \subseteq Reads
      /\ r \in Reads /\ r \notin Callers /\ \A q \in Reads : q \notin Callers => q \in JsReads
  BY NodeAssumption DEF StreamInv, StreamTypes, Reads, NodeAssumption
<1>2. /\ reads' \in [Reads -> ReadStates] /\ reads'[r] = x /\ \A q \in Reads : q # r => reads'[q] = reads[q]
  BY <1>1 DEF ReadStates
<1>3. /\ result' \in [Reads -> Int] /\ result'[r] = NoResult /\ \A q \in Reads : q # r => result'[q] = result[q]
  BY <1>1 DEF NoResult
<1>4. \A q \in JsReads : q # r => reads[q] = "none"
  BY DEF StreamInv, ReadsInv
<1>5. \A q \in JsReads : q # r => result[q] = NoResult
  BY <1>1, <1>4 DEF StreamInv, ReadsInv
<1>6. ReadsInv'
  <2>1. \A q \in Reads : result'[q] # NoResult => reads'[q] = "settled"
    BY <1>2, <1>3 DEF StreamInv, ReadsInv
  <2>2. /\ \A q \in waiters' \cup towake' : q \in Reads /\ reads'[q] = "pending"
        /\ waiters' \cap towake' = {}
    BY <1>2 DEF StreamInv, ReadsInv
  <2>3. \A q \in JsReads : reads'[q] # "none" => q = r /\ x = "ready"
    BY <1>1, <1>2, <1>4
  <2> QED
    BY <2>1, <2>2, <2>3 DEF ReadsInv
<1>7. \A u : InResult(u, Callers)' <=> InResult(u, Callers)
  BY <1>1, <1>3 DEF InResult
<1>8. \A q \in Reads : reads'[q] = "ended" => reads[q] = "ended"
  BY <1>2
<1> QED
  BY <1>1, <1>2, <1>3, <1>5, <1>6, <1>7, <1>8

\* What a taken result leaves of the order of the updates, when nothing is pushed
LEMMA OrderTaken ==
    ASSUME StreamInv, NEW r \in JsReads, UNCHANGED <<sent, source, pushed>>, result'[r] = NoResult,
           \A q \in Reads : q # r => result'[q] = result[q]
    PROVE  OrderInv'
<1>1. sent \in Nat /\ JsReads \subseteq Reads /\ source \in Seq(Int)
  BY DEF StreamInv, StreamTypes, Reads
<1>2. \A q \in Reads : result'[q] <= sent
  BY <1>1 DEF StreamInv, OrderInv, NoResult
<1>3. \A i \in DOMAIN source, q \in Reads : Update(source[i]) => result'[q] < source[i]
  BY <1>1 DEF StreamInv, OrderInv, NoResult, Update
<1>4. \A q \in JsReads : Update(result'[q]) => result'[q] = result[q]
  BY <1>1 DEF NoResult, Update
<1> QED
  BY <1>2, <1>3, <1>4 DEF StreamInv, OrderInv, Update

LEMMA ThenLateKeeps ==
    ASSUME StreamInv, NEW r \in JsReads, ThenLate(r)
    PROVE  StreamInv'
<1>1. /\ reads[r] = "settled" /\ result' = [result EXCEPT ![r] = NoResult] /\ reads' = [reads EXCEPT ![r] = "none"]
      /\ destroyed
      /\ UNCHANGED <<sent, source, pushed, ended, waiters, towake, terminal_error, destroyed, outcome, failed>>
  BY DEF ThenLate, Handled, streamVars, channelVars, writeVars
<1>2. /\ ReadsInv' /\ reads' \in [Reads -> ReadStates] /\ result' \in [Reads -> Int]
      /\ r \in Reads /\ r \notin Callers /\ result'[r] = NoResult
      /\ \A q \in Reads : q # r => result'[q] = result[q]
      /\ \A q \in Reads : reads'[q] = "ended" => reads[q] = "ended"
      /\ \A u : InResult(u, Callers)' <=> InResult(u, Callers)
  BY <1>1, HandledReads
<1>3. outcome # "none" /\ outcome' # "none"
  BY <1>1 DEF StreamInv, StreamTypes
<1>4. StreamTypes'
  BY <1>1, <1>2 DEF StreamInv, StreamTypes
<1>5. OrderInv'
  BY <1>1, <1>2, OrderTaken
<1>6. CoverInv' /\ FailedInv'
  BY <1>1, <1>2, <1>3 DEF StreamInv, CoverInv, FailedInv
<1>7. EndInv'
  <2>1. \A q \in Reads : result'[q] = EndOfStream => result[q] = EndOfStream
    BY <1>2 DEF EndOfStream, NoResult
  <2>2. \A u : InPushed(u) => InPushed(u)'
    BY <1>1 DEF InPushed
  <2> QED
    BY <1>1, <1>2, <2>1, <2>2 DEF StreamInv, EndInv
<1> QED
  BY <1>2, <1>4, <1>5, <1>6, <1>7 DEF StreamInv

LEMMA ThenUpdateKeeps ==
    ASSUME StreamInv, NEW r \in JsReads, ThenUpdate(r)
    PROVE  StreamInv'
<1>0. PICK v : v = result[r]
  OBVIOUS
<1>1. /\ reads[r] = "settled" /\ result' = [result EXCEPT ![r] = NoResult] /\ v > 0
      /\ pushed' = Append(pushed, v) /\ ~destroyed
      /\ UNCHANGED <<sent, source, ended, waiters, towake, terminal_error, destroyed, outcome, failed>>
  BY <1>0 DEF ThenUpdate, Handled, streamVars, channelVars, writeVars
<1>2. PICK x \in {"none", "ready"} : reads' = [reads EXCEPT ![r] = x] /\ (x = "ready" => _readInFlight')
  <2>1. reads \in [Reads -> ReadStates] /\ r \in Reads
    BY DEF StreamInv, StreamTypes, Reads
  <2>2. CASE buffer' < HighWaterMark
    <3>1. reads' = [[reads EXCEPT ![r] = "none"] EXCEPT ![r] = "ready"] /\ _readInFlight'
      BY <2>2 DEF ThenUpdate, StartRead
    <3>2. reads' = [reads EXCEPT ![r] = "ready"]
      BY <2>1, <3>1
    <3> QED
      BY <3>1, <3>2
  <2>3. CASE ~(buffer' < HighWaterMark)
    BY <2>3 DEF ThenUpdate
  <2> QED
    BY <2>2, <2>3
<1>3. /\ ReadsInv' /\ reads' \in [Reads -> ReadStates] /\ result' \in [Reads -> Int]
      /\ r \in Reads /\ r \notin Callers /\ result'[r] = NoResult
      /\ \A q \in Reads : q # r => result'[q] = result[q]
      /\ \A q \in Reads : reads'[q] = "ended" => reads[q] = "ended"
      /\ \A q \in Reads : q # r /\ q \notin Callers => result[q] = NoResult
      /\ \A u : InResult(u, Callers)' <=> InResult(u, Callers)
  BY <1>1, <1>2, HandledReads
<1>4. /\ outcome = "none" /\ outcome' = "none" /\ sent \in Nat /\ pushed \in Seq(Int) /\ Len(pushed) \in Nat
      /\ v \in Int /\ JsReads \subseteq Reads /\ source \in Seq(Int) /\ Callers \cap JsReads = {}
  BY <1>0, <1>1, <1>3, NodeAssumption DEF StreamInv, StreamTypes, Reads, NodeAssumption
<1>5. /\ pushed' \in Seq(Int) /\ DOMAIN pushed = 1 .. Len(pushed) /\ DOMAIN pushed' = 1 .. Len(pushed) + 1
      /\ pushed'[Len(pushed) + 1] = v
      /\ \A j \in DOMAIN pushed : pushed'[j] = pushed[j]
      /\ \A j \in DOMAIN pushed' : j \in DOMAIN pushed \/ j = Len(pushed) + 1
  BY <1>1, <1>4
<1>6. StreamTypes'
  BY <1>1, <1>3, <1>5 DEF StreamInv, StreamTypes
<1>7. OrderInv'
  <2>1. v <= sent /\ \A j \in DOMAIN pushed' : pushed'[j] <= sent
    BY <1>0, <1>3, <1>5 DEF StreamInv, OrderInv
  <2>2. \A q \in Reads : result'[q] <= sent
    BY <1>3, <1>4 DEF StreamInv, OrderInv, NoResult
  <2>3. \A i \in DOMAIN source, q \in Reads : Update(source[i]) => result'[q] < source[i]
    BY <1>3, <1>4 DEF StreamInv, OrderInv, NoResult, Update
  <2>4. ASSUME NEW i \in DOMAIN source, NEW j \in DOMAIN pushed', Update(source[i])
        PROVE  pushed'[j] < source[i]
    <3>1. CASE j \in DOMAIN pushed
      BY <1>5, <2>4, <3>1 DEF StreamInv, OrderInv
    <3>2. CASE j = Len(pushed) + 1
      BY <1>0, <1>3, <1>5, <2>4, <3>2 DEF StreamInv, OrderInv
    <3> QED
      BY <1>5, <3>1, <3>2
  <2>5. \A q \in JsReads : ~Update(result'[q])
    <3>1. \A q \in JsReads : result'[q] = NoResult
      BY <1>3, <1>4
    <3> QED
      BY <3>1 DEF Update, NoResult
  <2>6. ASSUME NEW i \in DOMAIN pushed', NEW j \in DOMAIN pushed', i < j
        PROVE  pushed'[i] < pushed'[j]
    <3>1. i \in DOMAIN pushed
      BY <1>4, <1>5, <2>6
    <3>2. CASE j \in DOMAIN pushed
      BY <1>5, <2>6, <3>1, <3>2 DEF StreamInv, OrderInv
    <3>3. CASE j = Len(pushed) + 1
      BY <1>0, <1>1, <1>5, <3>1, <3>3 DEF StreamInv, OrderInv, Update
    <3> QED
      BY <1>5, <3>2, <3>3
  <2> QED
    BY <1>1, <2>1, <2>2, <2>3, <2>4, <2>5, <2>6 DEF StreamInv, OrderInv, Update
<1>8. CoverInv'
  <2> SUFFICES ASSUME NEW u \in 1 .. sent
               PROVE  (InSource(u) \/ InPushed(u) \/ InResult(u, Reads))'
    BY <1>1 DEF CoverInv
  <2>1. InSource(u) \/ InPushed(u) \/ InResult(u, Reads)
    BY <1>4 DEF StreamInv, CoverInv
  <2>2. InSource(u) => InSource(u)'
    BY <1>1 DEF InSource
  <2>3. InPushed(u) => InPushed(u)'
    BY <1>4, <1>5 DEF InPushed
  <2>4. InResult(u, Reads) => InPushed(u)' \/ InResult(u, Reads)'
    <3>1. InPushed(v)'
      BY <1>4, <1>5 DEF InPushed
    <3> QED
      BY <1>0, <1>3, <3>1 DEF InResult
  <2> QED
    BY <2>1, <2>2, <2>3, <2>4
<1>9. EndInv'
  <2>1. \A q \in Reads : result'[q] = EndOfStream => result[q] = EndOfStream
    BY <1>3 DEF EndOfStream, NoResult
  <2> QED
    BY <1>1, <1>3, <1>4, <2>1 DEF StreamInv, EndInv
<1>10. FailedInv'
  <2>1. InResult(StreamError, Reads) => InResult(StreamError, Reads)'
    BY <1>0, <1>1, <1>3 DEF InResult, StreamError
  <2>2. InResult(EndOfStream, JsReads)' => InResult(EndOfStream, JsReads)
    BY <1>3, <1>4 DEF InResult, EndOfStream, NoResult
  <2> QED
    BY <1>1, <1>4, <2>1, <2>2 DEF StreamInv, FailedInv
<1> QED
  BY <1>3, <1>6, <1>7, <1>8, <1>9, <1>10 DEF StreamInv

LEMMA ThenEndsKeeps ==
    ASSUME StreamInv, NEW r \in JsReads, ThenEnds(r)
    PROVE  StreamInv'
<1>1. /\ reads[r] = "settled" /\ result' = [result EXCEPT ![r] = NoResult] /\ reads' = [reads EXCEPT ![r] = "none"]
      /\ ~destroyed /\ destroyed' /\ outcome' = IF result[r] = EndOfStream THEN "eof" ELSE "error"
      /\ UNCHANGED <<sent, source, pushed, ended, waiters, towake, terminal_error, failed>>
  BY DEF ThenEnds, Handled, Destroy, streamVars, writeVars
<1>2. /\ ReadsInv' /\ reads' \in [Reads -> ReadStates] /\ result' \in [Reads -> Int]
      /\ r \in Reads /\ r \notin Callers /\ result'[r] = NoResult
      /\ \A q \in Reads : q # r => result'[q] = result[q]
      /\ \A q \in Reads : reads'[q] = "ended" => reads[q] = "ended"
      /\ \A q \in Reads : q # r /\ q \notin Callers => result[q] = NoResult
      /\ \A u : InResult(u, Callers)' <=> InResult(u, Callers)
  BY <1>1, HandledReads
<1>3. outcome = "none" /\ sent \in Nat
  BY <1>1 DEF StreamInv, StreamTypes
<1>4. StreamTypes'
  BY <1>1, <1>2, <1>3 DEF StreamInv, StreamTypes, Outcomes
<1>5. OrderInv'
  BY <1>1, <1>2, OrderTaken
<1>6. CoverInv'
  BY <1>1 DEF CoverInv
<1>7. EndInv'
  <2>1. \A q \in Reads : result'[q] = EndOfStream => result[q] = EndOfStream
    BY <1>2 DEF EndOfStream, NoResult
  <2>2. ASSUME result[r] = EndOfStream, NEW u \in 1 .. sent
        PROVE  InPushed(u)' \/ InResult(u, Callers)'
    <3>1. source = <<>>
      BY <1>2, <2>2 DEF StreamInv, EndInv
    <3>2. InPushed(u) \/ InResult(u, Reads)
      BY <1>3, <3>1 DEF StreamInv, CoverInv, InSource
    <3>3. InResult(u, Reads) => InResult(u, Callers)
      BY <1>2, <1>3, <2>2 DEF InResult, EndOfStream, NoResult
    <3>4. InPushed(u) => InPushed(u)'
      BY <1>1 DEF InPushed
    <3> QED
      BY <1>2, <3>2, <3>3, <3>4
  <2>3. result[r] = EndOfStream => ended
    BY <1>2 DEF StreamInv, EndInv
  <2> QED
    BY <1>1, <1>2, <2>1, <2>2, <2>3 DEF StreamInv, EndInv
<1>8. FailedInv'
  <2> SUFFICES ASSUME result[r] = EndOfStream, failed
               PROVE  InResult(StreamError, Callers)
    BY <1>1, <1>2 DEF FailedInv
  <2>1. InResult(EndOfStream, JsReads)
    BY DEF InResult
  <2>2. InResult(StreamError, Reads)
    BY <1>3, <2>1 DEF StreamInv, FailedInv
  <2> QED
    BY <1>2, <2>2 DEF InResult, EndOfStream, StreamError, NoResult
<1> QED
  BY <1>2, <1>4, <1>5, <1>6, <1>7, <1>8 DEF StreamInv

-----------------------------------------------------------------------------
(* Opening, closing and writing                                            *)

\* The stream is destroyed for another reason than its end.
LEMMA DestroyKeeps ==
    ASSUME StreamInv, ~destroyed, destroyed', outcome' \in {"error", "user"},
           UNCHANGED <<dataVars, ended, waiters, towake, reads, terminal_error, _readInFlight, failed>>
    PROVE  StreamInv'
<1>1. UNCHANGED <<sent, source, result, pushed, ended, waiters, towake, reads, terminal_error, _readInFlight, failed>>
  BY DEF dataVars
<1>2. StreamTypes'
  BY <1>1 DEF StreamInv, StreamTypes, Outcomes
<1>3. ReadsInv'
  BY <1>1 DEF StreamInv, ReadsInv
<1>4. OrderInv' /\ CoverInv' /\ EndInv' /\ FailedInv'
  BY <1>1, OrderUnchanged, CoverUnchanged, EndUnchanged, FailedUnchanged DEF StreamInv
<1> QED
  BY <1>2, <1>3, <1>4 DEF StreamInv

LEMMA OpensKeeps ==
    ASSUME StreamInv, OpeningInv, NEW accepted, Opens(accepted)
    PROVE  StreamInv'
<1>1. /\ outcome = "opening" /\ outcome' \in {"none", "rejected"} /\ destroyed' = (outcome' # "none")
      /\ UNCHANGED <<sent, source, result, pushed, ended, waiters, towake, reads, terminal_error, _readInFlight, failed>>
  BY DEF Opens, streamVars, sharedVars, writeVars
<1>2. sent = 0 /\ UNCHANGED dataVars
  BY <1>1 DEF StreamInv, StreamTypes, dataVars
<1>3. StreamTypes'
  BY <1>1 DEF StreamInv, StreamTypes, Outcomes
<1>4. ReadsInv'
  BY <1>1 DEF StreamInv, ReadsInv
<1>5. CoverInv'
  BY <1>1, <1>2 DEF CoverInv
<1>6. OrderInv' /\ EndInv'
  BY <1>1, <1>2, OrderUnchanged, EndUnchanged DEF StreamInv
<1>7. FailedInv'
  BY <1>1 DEF OpeningInv, FailedInv
<1> QED
  BY <1>3, <1>4, <1>5, <1>6, <1>7 DEF StreamInv

LEMMA SendFailsKeeps ==
    ASSUME StreamInv, SendFails
    PROVE  StreamInv'
<1>1. /\ terminal_error' = TRUE
      /\ failed' = (failed \/ (outcome # "eof" /\ \A r \in JsReads : reads[r] # "ended" /\ result[r] # EndOfStream))
      /\ UNCHANGED <<sent, source, result, pushed, ended, waiters, towake, reads, _readInFlight, destroyed, outcome>>
  BY DEF SendFails, streamVars, sharedVars, jsVars
<1>2. StreamTypes' /\ ReadsInv'
  BY <1>1 DEF StreamInv, StreamTypes, ReadsInv
<1>3. OrderInv' /\ CoverInv' /\ EndInv'
  BY <1>1, OrderUnchanged, CoverUnchanged, EndUnchanged DEF StreamInv, dataVars
<1>4. FailedInv'
  <2>1. \A u, R : InResult(u, R)' <=> \E r \in R : result[r] = u
    BY <1>1 DEF InResult
  <2>2. CASE failed
    BY <1>1, <2>2 DEF StreamInv, FailedInv, InResult
  <2>3. CASE ~failed
    BY <1>1, <2>3 DEF FailedInv, InResult
  <2> QED
    BY <2>2, <2>3
<1> QED
  BY <1>2, <1>3, <1>4 DEF StreamInv

LEMMA WriteCheckedKeeps ==
    ASSUME StreamInv, NEW accepted, WriteChecked(accepted)
    PROVE  StreamInv'
<1>1. /\ ~destroyed
      /\ UNCHANGED <<dataVars, ended, waiters, towake, reads, terminal_error, _readInFlight, failed>>
      /\ (destroyed' = destroyed /\ outcome' = outcome) \/ (destroyed' /\ outcome' = "error")
  BY DEF WriteChecked, Destroy, dataVars, streamVars, sharedVars
<1>2. CASE destroyed' = destroyed /\ outcome' = outcome
  BY <1>1, <1>2, InvUnchanged DEF watchedVars
<1>3. CASE destroyed' /\ outcome' = "error"
  BY <1>1, <1>3, DestroyKeeps
<1> QED
  BY <1>1, <1>2, <1>3

LEMMA WriteCallbackKeeps ==
    ASSUME StreamInv, WriteCallback
    PROVE  StreamInv'
<1>1. /\ UNCHANGED <<dataVars, ended, waiters, towake, reads, terminal_error, _readInFlight, failed>>
      /\ (destroyed' = destroyed /\ outcome' = outcome) \/ (~destroyed /\ destroyed' /\ outcome' = "error")
  BY DEF WriteCallback, Destroy, dataVars, streamVars, sharedVars
<1>2. CASE destroyed' = destroyed /\ outcome' = outcome
  BY <1>1, <1>2, InvUnchanged DEF watchedVars
<1>3. CASE ~destroyed /\ destroyed' /\ outcome' = "error"
  BY <1>1, <1>3, DestroyKeeps
<1> QED
  BY <1>1, <1>2, <1>3

LEMMA UserDestroysKeeps ==
    ASSUME StreamInv, UserDestroys
    PROVE  StreamInv'
<1>1. /\ ~destroyed /\ destroyed' /\ outcome' = "user"
      /\ UNCHANGED <<dataVars, ended, waiters, towake, reads, terminal_error, _readInFlight, failed>>
  BY DEF UserDestroys, Destroy, dataVars, streamVars, sharedVars, writeVars
<1> QED
  BY <1>1, DestroyKeeps

-----------------------------------------------------------------------------

LEMMA StreamInit ==
    ASSUME Init
    PROVE  StreamInv
<1>1. StreamTypes
  BY DEF Init, StreamTypes, ReadStates, Outcomes, NoResult
<1>2. ReadsInv
  BY DEF Init, ReadsInv, Reads
<1>3. OrderInv
  BY DEF Init, OrderInv, Update, NoResult, Reads
<1>4. CoverInv /\ FailedInv
  BY DEF Init, CoverInv, FailedInv
<1>5. EndInv
  BY DEF Init, EndInv, EndOfStream, NoResult
<1> QED
  BY <1>1, <1>2, <1>3, <1>4, <1>5 DEF StreamInv

LEMMA OpeningInductive ==
    ASSUME StreamInv, OpeningInv, [Next]_vars
    PROVE  OpeningInv'
<1>1. destroyed <=> outcome # "none"
  BY DEF StreamInv, StreamTypes
<1>2. outcome' = "opening" => outcome = "opening"
  <2>1. CASE outcome' = outcome
    BY <2>1
  <2>2. CASE outcome' # outcome
    <3>1. outcome' # "opening"
      BY <2>2 DEF Next, vars, ServerUpdate, ServerEnds, Arrives, ServerTakesRequest, ReceiverDropped, WakeByRef, Wake,
                  PollNext, RecvEnd, CallerReads, Read, ThenLate, ThenUpdate, ThenEnds, ConsumerTakes, UserDestroys,
                  WriteCallback, Sent, SendFails, Subscribe, Write, SubscribeDeshred, WriteDeshred, WriteChecked, Opens,
                  Destroy, jsVars
    <3> QED
      BY <3>1
  <2> QED
    BY <2>1, <2>2
<1>3. outcome = "opening" => writing' = writing /\ failed' = failed
  BY <1>1 DEF OpeningInv, Next, vars, ServerUpdate, ServerEnds, Arrives, ServerTakesRequest, ReceiverDropped, WakeByRef,
              Wake, PollNext, RecvEnd, CallerReads, Read, ThenLate, ThenUpdate, ThenEnds, ConsumerTakes, UserDestroys,
              WriteCallback, Sent, SendFails, Subscribe, Write, SubscribeDeshred, WriteDeshred, WriteChecked, Opens, writeVars
<1> QED
  BY <1>2, <1>3 DEF OpeningInv

LEMMA StreamInductive ==
    ASSUME StreamInv, OpeningInv, [Next]_vars
    PROVE  StreamInv'
<1>1. CASE ServerUpdate
  BY <1>1, ServerUpdateKeeps
<1>2. CASE ServerEnds
  BY <1>2, ServerEndsKeeps
<1>3. CASE ServerTakesRequest \/ ReceiverDropped \/ ConsumerTakes \/ Sent \/ UNCHANGED vars
  <2>1. UNCHANGED watchedVars
    BY <1>3 DEF ServerTakesRequest, ReceiverDropped, ConsumerTakes, Sent, vars, watchedVars, dataVars,
                streamVars, sharedVars, channelVars, jsVars, writeVars
  <2> QED
    BY <2>1, InvUnchanged
<1>4. CASE WakeByRef
  BY <1>4, WakeByRefKeeps
<1>5. ASSUME NEW r \in Reads, Wake(r) \/ PollNext(r) \/ RecvEnd(r) \/ CallerReads(r)
      PROVE  StreamInv'
  BY <1>5, WakeKeeps, PollItemKeeps, PollNothingKeeps, RecvEndKeeps, CallerReadsKeeps
<1>6. ASSUME NEW r \in JsReads, Read(r) \/ ThenLate(r) \/ ThenUpdate(r) \/ ThenEnds(r)
      PROVE  StreamInv'
  BY <1>6, ReadKeeps, ThenLateKeeps, ThenUpdateKeeps, ThenEndsKeeps
<1>7. CASE UserDestroys
  BY <1>7, UserDestroysKeeps
<1>8. CASE WriteCallback
  BY <1>8, WriteCallbackKeeps
<1>9. CASE SendFails
  BY <1>9, SendFailsKeeps
<1>10. ASSUME NEW req \in Requests, Subscribe(req) \/ Write(req)
       PROVE  StreamInv'
  BY <1>10, OpensKeeps, WriteCheckedKeeps DEF Subscribe, Write
<1>11. CASE SubscribeDeshred
  BY <1>11, OpensKeeps DEF SubscribeDeshred
<1>12. ASSUME NEW req \in DeshredRequests, WriteDeshred(req)
       PROVE  StreamInv'
  BY <1>12, WriteCheckedKeeps DEF WriteDeshred
<1> QED
  BY <1>1, <1>2, <1>3, <1>4, <1>5, <1>6, <1>7, <1>8, <1>9, <1>10, <1>11, <1>12 DEF Next

LEMMA ConsumerFollows ==
    ASSUME StreamInv
    PROVE  ConsumerSeesTheStream
<1>1. \A i, j \in DOMAIN pushed : i < j => pushed[i] < pushed[j]
  BY DEF StreamInv, OrderInv
<1>2. outcome = "eof" => 1 .. sent \subseteq {pushed[i] : i \in DOMAIN pushed} \cup TakenBy(Callers)
  BY DEF StreamInv, EndInv, InPushed, InResult, TakenBy
<1>3. outcome = "eof" => (StreamError \notin TakenBy(Callers) => ~failed)
  BY DEF StreamInv, FailedInv, InResult, TakenBy
<1> QED
  BY <1>1, <1>2, <1>3 DEF ConsumerSeesTheStream

\* The consumer of the Node.js stream gets the updates in their order, and takes the end for
\* a clean one only if it has every update nobody else took and no send had failed.
THEOREM ConsumerAlwaysSeesTheStream == Spec => []ConsumerSeesTheStream
<1>1. Init => StreamInv /\ OpeningInv
  BY StreamInit DEF Init, OpeningInv
<1>2. StreamInv /\ OpeningInv /\ [Next]_vars => StreamInv' /\ OpeningInv'
  BY StreamInductive, OpeningInductive
<1>3. StreamInv => ConsumerSeesTheStream
  BY ConsumerFollows
<1> QED
  BY <1>1, <1>2, <1>3, PTL DEF Spec

-----------------------------------------------------------------------------
(* The cuckoo filter: every item has a seat of its own                     *)

CuckooTypes ==
    /\ fp_of \in [Items -> Fingerprints]
    /\ i1_of \in [Items -> Index]
    /\ mask_of \in [Fingerprints -> Index]
    /\ buckets \in [Index -> [Places -> Fingerprints \cup {0}]]
    /\ items \subseteq Items
    /\ dirty \in BOOLEAN /\ table_full \in BOOLEAN

\* An eviction has a fingerprint in hand, for a bucket without room.
KickInv ==
    ~NotEvicting =>
        /\ kick \in [item : Items \ items, fp : Fingerprints, i : Index, n : Nat]
        /\ \A e \in Places : buckets[kick.i][e] # 0

\* The places that hold a fingerprint, and the hand of the eviction loop.
Hand == <<>>
Seats == Occupied \cup (IF NotEvicting THEN {} ELSE {Hand})
Guests == items \cup (IF NotEvicting THEN {} ELSE {kick.item})

\* The item's fingerprint is there, in one of its two buckets.
Fits(x, seat) ==
    IF seat = Hand THEN kick.fp = fp_of[x] /\ kick.i \in {I1(x), I2(x)}
    ELSE buckets[seat[1]][seat[2]] = fp_of[x] /\ seat[1] \in {I1(x), I2(x)}

Seating(h) ==
    /\ h \in [Guests -> Seats]
    /\ \A x, y \in Guests : h[x] = h[y] => x = y
    /\ \A seat \in Seats : \E x \in Guests : h[x] = seat
    /\ \A x \in Guests : Fits(x, h[x])

SeatInv == ~table_full => \E h : Seating(h)

CuckooInv == CuckooTypes /\ KickInv /\ SeatInv

LEMMA FingerprintTypes == Fingerprints \subseteq Nat \ {0}
<1> SUFFICES ASSUME NEW bits \in HashBits PROVE fingerprint_from_hash(bits) \in Nat \ {0}
    BY DEF Fingerprints
<1>1. bits \in Nat
    BY CuckooAssumption DEF CuckooAssumption
<1> QED BY <1>1 DEF fingerprint_from_hash

LEMMA IndexPair ==
    ASSUME CuckooTypes, NEW x \in Items, NEW i \in {I1(x), I2(x)}
    PROVE  /\ I1(x) \in Index /\ I2(x) \in Index
           /\ i \in Index
           /\ Alternate(i, fp_of[x]) \in {I1(x), I2(x)}
           /\ {i, Alternate(i, fp_of[x])} = {I1(x), I2(x)}
BY XorAssumption DEF CuckooTypes, XorAssumption, I1, I2, Alternate

LEMMA AlternateIndex ==
    ASSUME CuckooTypes, NEW i \in Index, NEW fp \in Fingerprints
    PROVE  Alternate(i, fp) \in Index
BY XorAssumption DEF CuckooTypes, XorAssumption, Alternate

\* Two items with one fingerprint that share a bucket share both.
LEMMA SamePair ==
    ASSUME CuckooTypes, NEW x \in Items, NEW y \in Items, fp_of[x] = fp_of[y],
           NEW i \in {I1(x), I2(x)}, i \in {I1(y), I2(y)}
    PROVE  {I1(x), I2(x)} = {I1(y), I2(y)}
BY IndexPair

\* The first place of some
LEMMA FirstIsOne ==
    ASSUME NEW S \in SUBSET Places, S # {}
    PROVE  First(S) \in S
<1>1. S \subseteq Nat
    BY DEF Places
<1>2. PICK e \in S : \A o \in S : ~(<<o, e>> \in OpToRel(<, Nat))
    BY <1>1, NatLessThanWellFounded, WFMin
<1>3. \A o \in S : ~(o < e)
    BY <1>1, <1>2 DEF OpToRel
<1>4. \A o \in S : e <= o
    BY <1>1, <1>3
<1> QED BY <1>4 DEF First

LEMMA PlaceTypes ==
    /\ Places \subseteq Nat
    /\ \A k \in Nat : k % EntriesPerBucket \in Places
<1>1. EntriesPerBucket \in Nat \ {0}
    BY CuckooAssumption DEF CuckooAssumption
<1>2. \A k \in Nat : k % EntriesPerBucket \in 0..(EntriesPerBucket - 1)
    BY <1>1
<1> QED BY <1>1, <1>2 DEF Places
-----------------------------------------------------------------------------

LEMMA KickTypes ==
    ASSUME CuckooTypes, KickInv, ~NotEvicting
    PROVE  /\ kick.item \in Items \ items /\ kick.fp \in Fingerprints
           /\ kick.i \in Index /\ kick.n \in Nat
           /\ (kick.n + kick.fp) % EntriesPerBucket \in Places
           /\ \A e \in Places : buckets[kick.i][e] \in Fingerprints
<1>1. /\ kick.item \in Items \ items /\ kick.fp \in Fingerprints
      /\ kick.i \in Index /\ kick.n \in Nat
    BY DEF KickInv
<1>2. kick.n \in Nat /\ kick.fp \in Nat
    BY <1>1, FingerprintTypes
<1>3. \A e \in Places : buckets[kick.i][e] \in Fingerprints
    BY <1>1 DEF CuckooTypes, KickInv
<1> QED BY <1>1, <1>2, <1>3, PlaceTypes

LEMMA CuckooInitial == CuckooInit => CuckooInv
<1> SUFFICES ASSUME CuckooInit PROVE CuckooInv
    OBVIOUS
<1>1. CuckooTypes
    BY DEF CuckooInit, CuckooTypes, Fingerprints, EmptyBucket
<1>2. KickInv
    BY DEF CuckooInit, KickInv, NotEvicting
<1>3. Guests = {} /\ Seats = {}
    BY DEF CuckooInit, Guests, Seats, NotEvicting, Occupied, EmptyBucket
<1>4. Seating([x \in {} |-> Hand])
    BY <1>3 DEF Seating
<1> QED BY <1>1, <1>2, <1>4 DEF CuckooInv, SeatInv

LEMMA StoredTypes ==
    ASSUME CuckooTypes, NEW i \in Index, NEW fp \in Fingerprints, PlacesOf(i, 0) # {}
    PROVE  /\ Stored(i, fp) \in [Index -> [Places -> Fingerprints \cup {0}]]
           /\ \E e \in Places : /\ buckets[i][e] = 0
                                /\ Stored(i, fp) = [buckets EXCEPT ![i][e] = fp]
<1>1. First(PlacesOf(i, 0)) \in PlacesOf(i, 0)
    BY FirstIsOne DEF PlacesOf
<1>2. First(PlacesOf(i, 0)) \in Places /\ buckets[i][First(PlacesOf(i, 0))] = 0
    BY <1>1 DEF PlacesOf
<1> QED BY <1>2 DEF Stored, CuckooTypes

LEMMA InsertStep ==
    ASSUME CuckooInv, NEW x \in Items, Insert(x)
    PROVE  CuckooInv'
<1>0. CuckooTypes /\ NotEvicting /\ NotEvicting' /\ x \notin items /\ fp_of[x] \in Fingerprints
      /\ UNCHANGED <<fp_of, i1_of, mask_of, kick, table_full>> /\ items' = items \cup {x}
    BY DEF Insert, NotEvicting, CuckooInv, CuckooTypes, hashVars
<1>1. PICK i \in {I1(x), I2(x)} : PlacesOf(i, 0) # {} /\ buckets' = Stored(i, fp_of[x])
    BY DEF Insert
<1>2. i \in Index
    BY <1>0, <1>1, IndexPair
<1>3. PICK e \in Places : buckets[i][e] = 0 /\ buckets' = [buckets EXCEPT ![i][e] = fp_of[x]]
  <2>1. \E e \in Places : buckets[i][e] = 0 /\ Stored(i, fp_of[x]) = [buckets EXCEPT ![i][e] = fp_of[x]]
    BY <1>0, <1>1, <1>2, StoredTypes
  <2> QED BY <2>1, <1>1, Zenon
<1>4. CuckooTypes'
    BY <1>0, <1>1, <1>2, StoredTypes DEF CuckooTypes, Insert
<1>5. KickInv'
    BY <1>0 DEF KickInv
<1>6. ASSUME ~table_full, NEW h, Seating(h)
      PROVE  \E g : Seating(g)'
  <2> DEFINE seat == <<i, e>>
  <2>0. PICK g : g = [y \in items \cup {x} |-> IF y = x THEN seat ELSE h[y]]
    OBVIOUS
  <2>1. /\ Guests = items /\ Guests' = items \cup {x}
        /\ Seats = Occupied /\ Seats' = Occupied'
    BY <1>0 DEF Guests, Seats
  <2>2. Occupied' = Occupied \cup {seat} /\ seat \notin Occupied
    BY <1>0, <1>2, <1>3, FingerprintTypes DEF Occupied, CuckooTypes
  <2>3. g \in [Guests' -> Seats']
    BY <2>0, <2>1, <2>2, <1>6 DEF Seating
  <2>4. \A y, z \in Guests' : g[y] = g[z] => y = z
    BY <2>0, <2>1, <2>2, <1>6 DEF Seating
  <2>5. \A s \in Seats' : \E y \in Guests' : g[y] = s
    BY <2>0, <2>1, <2>2, <1>6, <1>0 DEF Seating
  <2>6. ASSUME NEW y \in Guests' PROVE Fits(y, g[y])'
    <3>1. /\ buckets'[i][e] = fp_of[x]
          /\ \A s \in Occupied : buckets'[s[1]][s[2]] = buckets[s[1]][s[2]]
      BY <1>0, <1>2, <1>3 DEF Occupied, CuckooTypes
    <3>2. seat # Hand /\ \A s \in Occupied : s # Hand
      BY <1>2 DEF Hand, Occupied, Index
    <3>3. /\ I1(y)' = I1(y) /\ I2(y)' = I2(y)
      BY <1>0 DEF I1, I2, Alternate
    <3>4. CASE y = x
      BY <2>0, <3>1, <3>2, <3>3, <3>4, <1>0, <1>1 DEF Fits
    <3>5. CASE y # x
      <4>1. y \in Guests /\ g[y] = h[y] /\ h[y] \in Occupied /\ Fits(y, h[y])
        BY <2>0, <2>1, <2>6, <3>5, <1>6 DEF Seating
      <4> QED BY <4>1, <3>1, <3>2, <3>3, <1>0 DEF Fits
    <3> QED BY <3>4, <3>5
  <2>7. Seating(g)'
    BY <2>3, <2>4, <2>5, <2>6 DEF Seating
  <2> QED BY <2>7
<1> QED BY <1>0, <1>4, <1>5, <1>6 DEF CuckooInv, SeatInv

LEMMA InsertEvictsStep ==
    ASSUME CuckooInv, NEW x \in Items, InsertEvicts(x)
    PROVE  CuckooInv'
<1>0. CuckooTypes /\ NotEvicting /\ x \notin items /\ fp_of[x] \in Fingerprints
      /\ UNCHANGED <<fp_of, i1_of, mask_of, buckets, items, dirty, table_full>>
      /\ kick' = [item |-> x, fp |-> fp_of[x], i |-> I1(x), n |-> 0]
    BY DEF InsertEvicts, CuckooInv, CuckooTypes, hashVars
<1>1. ~NotEvicting'
  <2>1. kick'.fp # 0
    BY <1>0, FingerprintTypes
  <2> QED BY <2>1 DEF NotEvicting, NoKick
<1>2. CuckooTypes'
    BY <1>0 DEF CuckooTypes
<1>3. KickInv'
  <2>1. I1(x) \in Index
    BY <1>0 DEF I1, CuckooTypes
  <2>2. kick' \in [item : Items \ items, fp : Fingerprints, i : Index, n : Nat]
    BY <2>1, <1>0
  <2>3. \A e \in Places : buckets[I1(x)][e] # 0
    BY DEF InsertEvicts, PlacesOf
  <2> QED BY <2>2, <2>3, <1>0 DEF KickInv
<1>4. ASSUME ~table_full, NEW h, Seating(h)
      PROVE  \E g : Seating(g)'
  <2>0. PICK g : g = [y \in items \cup {x} |-> IF y = x THEN Hand ELSE h[y]]
    OBVIOUS
  <2>1. /\ Guests = items /\ Guests' = items \cup {x}
        /\ Seats = Occupied /\ Seats' = Occupied \cup {Hand}
    BY <1>0, <1>1 DEF Guests, Seats, Occupied
  <2>2. Hand \notin Occupied
    BY DEF Hand, Occupied
  <2>3. g \in [Guests' -> Seats']
    BY <2>0, <2>1, <2>2, <1>4 DEF Seating
  <2>4. \A y, z \in Guests' : g[y] = g[z] => y = z
    BY <2>0, <2>1, <2>2, <1>4 DEF Seating
  <2>5. \A s \in Seats' : \E y \in Guests' : g[y] = s
    BY <2>0, <2>1, <2>2, <1>4, <1>0 DEF Seating
  <2>6. ASSUME NEW y \in Guests' PROVE Fits(y, g[y])'
    <3>3. I1(y)' = I1(y) /\ I2(y)' = I2(y)
      BY <1>0 DEF I1, I2, Alternate
    <3>4. CASE y = x
      BY <2>0, <3>3, <3>4, <1>0 DEF Fits
    <3>5. CASE y # x
      <4>1. y \in Guests /\ g[y] = h[y] /\ h[y] \in Occupied /\ Fits(y, h[y])
        BY <2>0, <2>1, <2>6, <3>5, <1>4 DEF Seating
      <4> QED BY <4>1, <3>3, <1>0, <2>2 DEF Fits
    <3> QED BY <3>4, <3>5
  <2>7. Seating(g)'
    BY <2>3, <2>4, <2>5, <2>6 DEF Seating
  <2> QED BY <2>7
<1> QED BY <1>0, <1>2, <1>3, <1>4 DEF CuckooInv, SeatInv

\* One turn of the eviction loop: whoever had the hand takes the place, and whoever had the
\* place takes the seat the evicted fingerprint gets.
LEMMA KickSeats ==
    ASSUME CuckooInv, ~NotEvicting, NEW e \in Places, NEW to, NEW h, Seating(h),
           NEW place, place = <<kick.i, e>>,
           UNCHANGED <<fp_of, i1_of, mask_of>>,
           Guests' = Guests, Seats' = Occupied \cup {to}, to \notin Occupied,
           \A s \in Occupied \ {place} : buckets'[s[1]][s[2]] = buckets[s[1]][s[2]],
           buckets'[kick.i][e] = kick.fp,
           \A y \in Guests : fp_of[y] = buckets[kick.i][e] /\ kick.i \in {I1(y), I2(y)} => Fits(y, to)'
    PROVE  \E g : Seating(g)'
<1>0. PICK g : g = [y \in Guests |-> IF h[y] = Hand THEN place ELSE IF h[y] = place THEN to ELSE h[y]]
    OBVIOUS
<1>1. place \in Occupied /\ Hand \notin Occupied /\ Seats = Occupied \cup {Hand}
  <2>1. kick.i \in Index /\ buckets[kick.i][e] # 0
    BY DEF CuckooInv, KickInv
  <2> QED BY <2>1 DEF Occupied, Hand, Seats
<1>2. \A y, z \in Guests : h[y] = h[z] => y = z
    BY DEF Seating
<1>3. \A y \in Guests : h[y] \in Occupied \cup {Hand} /\ Fits(y, h[y])
    BY <1>1 DEF Seating
<1>4. g \in [Guests -> Occupied \cup {to}]
    BY <1>0, <1>1, <1>3
<1>5. \A y, z \in Guests : g[y] = g[z] => y = z
    BY <1>0, <1>1, <1>2, <1>3
<1>6. ASSUME NEW s \in Occupied \cup {to} PROVE \E y \in Guests : g[y] = s
  <2>1. \A t \in Seats : \E y \in Guests : h[y] = t
    BY DEF Seating
  <2>2. CASE s = to
    BY <2>1, <2>2, <1>0, <1>1
  <2>3. CASE s = place
    BY <2>1, <2>3, <1>0, <1>1
  <2>4. CASE s # to /\ s # place
    BY <2>1, <2>4, <1>0, <1>1, <1>6
  <2> QED BY <2>2, <2>3, <2>4
<1>7. ASSUME NEW y \in Guests PROVE Fits(y, g[y])'
  <2>1. I1(y)' = I1(y) /\ I2(y)' = I2(y)
    BY DEF I1, I2, Alternate
  <2>2. CASE h[y] = Hand
    <3>1. kick.fp = fp_of[y] /\ kick.i \in {I1(y), I2(y)}
      BY <1>3, <2>2 DEF Fits
    <3>2. g[y] = place /\ place # Hand /\ place[1] = kick.i /\ place[2] = e
      BY <1>0, <1>1, <2>2
    <3> QED BY <3>1, <3>2, <2>1 DEF Fits
  <2>3. CASE h[y] = place
    <3>1. buckets[kick.i][e] = fp_of[y] /\ kick.i \in {I1(y), I2(y)}
      BY <1>1, <1>3, <2>3 DEF Fits
    <3>2. g[y] = to
      BY <1>0, <1>1, <2>3
    <3> QED BY <3>1, <3>2
  <2>4. CASE h[y] # Hand /\ h[y] # place
    <3>1. g[y] = h[y] /\ h[y] \in Occupied \ {place} /\ h[y] # Hand /\ Fits(y, h[y])
      BY <1>0, <1>3, <2>4
    <3> QED BY <3>1, <2>1 DEF Fits
  <2> QED BY <2>2, <2>3, <2>4
<1>8. Seating(g)'
    BY <1>4, <1>5, <1>6, <1>7 DEF Seating
<1> QED BY <1>8

LEMMA KickStep ==
    ASSUME CuckooInv, Kick
    PROVE  CuckooInv'
<1> DEFINE e == (kick.n + kick.fp) % EntriesPerBucket
           evicted == buckets[kick.i][e]
           i == Destination(kick.i, kick.fp, evicted)
           swapped == [buckets EXCEPT ![kick.i][e] = kick.fp]
           room == {o \in Places : swapped[i][o] = 0}
<1>0. /\ CuckooTypes /\ KickInv /\ ~NotEvicting
      /\ UNCHANGED <<fp_of, i1_of, mask_of, table_full>>
    BY DEF CuckooInv, Kick, hashVars
<1>1. /\ kick.item \in Items \ items /\ kick.fp \in Fingerprints /\ kick.i \in Index /\ kick.n \in Nat
      /\ e \in Places /\ evicted \in Fingerprints
      /\ \A o \in Places : buckets[kick.i][o] \in Fingerprints
    BY <1>0, KickTypes
<1>2. i \in Index /\ i = Alternate(kick.i, evicted)
    BY <1>0, <1>1, AlternateIndex DEF Destination
<1>3. PICK p : p = <<kick.i, e>>
    OBVIOUS
<1>4. PICK d : d = e
    OBVIOUS
<1>5. CASE room # {}
  <2>1. /\ buckets' = [swapped EXCEPT ![i][First(room)] = evicted]
        /\ items' = items \cup {kick.item} /\ dirty' = TRUE /\ kick' = NoKick
    BY <1>5 DEF Kick
  <2>2. First(room) \in room
    BY <1>5, FirstIsOne
  <2>3. PICK o : o = First(room)
    OBVIOUS
  <2>4. o \in Places /\ swapped[i][o] = 0 /\ buckets' = [swapped EXCEPT ![i][o] = evicted]
    BY <2>1, <2>2, <2>3
  <2>5. swapped \in [Index -> [Places -> Fingerprints \cup {0}]]
    BY <1>0, <1>1 DEF CuckooTypes
  <2>6. CuckooTypes'
    <3>1. buckets' \in [Index -> [Places -> Fingerprints \cup {0}]]
      BY <2>4, <2>5, <1>1, <1>2
    <3> QED BY <3>1, <2>1, <1>0, <1>1 DEF CuckooTypes
  <2>7. NotEvicting' /\ KickInv'
    BY <2>1 DEF NotEvicting, KickInv
  <2>8. <<i, o>> # <<kick.i, e>> /\ buckets[i][o] = 0 /\ buckets'[kick.i][e] = kick.fp
        /\ buckets'[i][o] = evicted
        /\ \A s \in Index \X Places : s # <<i, o>> /\ s # <<kick.i, e>> =>
              buckets'[s[1]][s[2]] = buckets[s[1]][s[2]]
    <3>1. /\ swapped[kick.i][e] = kick.fp
          /\ \A s \in Index \X Places : s # <<kick.i, e>> => swapped[s[1]][s[2]] = buckets[s[1]][s[2]]
      <4> HIDE DEF e, evicted, i, room
      <4> QED BY <1>0, <1>1 DEF CuckooTypes
    <3> HIDE DEF e, evicted, i, swapped, room
    <3>2. <<i, o>> # <<kick.i, e>>
      BY <3>1, <2>4, <1>1, FingerprintTypes
    <3>3. buckets[i][o] = 0
      <4>1. PICK s : s = <<i, o>>
        OBVIOUS
      <4>2. s \in Index \X Places /\ s # <<kick.i, e>> /\ s[1] = i /\ s[2] = o
        BY <4>1, <3>2, <2>4, <1>2
      <4> QED BY <4>2, <3>1, <2>4
    <3>4. /\ buckets'[i][o] = evicted
          /\ \A s \in Index \X Places : s # <<i, o>> => buckets'[s[1]][s[2]] = swapped[s[1]][s[2]]
      BY <2>4, <2>5, <1>2
    <3>5. buckets'[kick.i][e] = kick.fp
      <4>1. PICK s : s = <<kick.i, e>>
        OBVIOUS
      <4>2. s \in Index \X Places /\ s # <<i, o>> /\ s[1] = kick.i /\ s[2] = e
        BY <4>1, <3>2, <1>1
      <4> QED BY <4>2, <3>1, <3>4
    <3> QED BY <3>1, <3>2, <3>3, <3>4, <3>5
  <2>9. PICK to : to = <<i, o>>
    OBVIOUS
  <2>10. ASSUME ~table_full, NEW h, Seating(h) PROVE \E g : Seating(g)'
    <3>1. Guests' = Guests
      BY <2>1, <2>7, <1>0 DEF Guests
    <3>2. to \notin Occupied
      BY <2>8, <2>9 DEF Occupied
    <3>3. Seats' = Occupied \cup {to}
      <4>1. Seats' = Occupied'
        BY <2>7 DEF Seats
      <4>2. ASSUME NEW s \in Index \X Places PROVE s \in Occupied' <=> s \in Occupied \cup {to}
        <5>1. CASE s = <<i, o>>
          BY <5>1, <2>8, <2>9, <1>1, FingerprintTypes DEF Occupied
        <5>2. CASE s = <<kick.i, e>>
          BY <5>2, <2>8, <1>1, FingerprintTypes DEF Occupied
        <5>3. CASE s # <<i, o>> /\ s # <<kick.i, e>>
          BY <5>3, <2>8, <2>9 DEF Occupied
        <5> QED BY <5>1, <5>2, <5>3
      <4>3. Occupied' \subseteq Index \X Places /\ Occupied \cup {to} \subseteq Index \X Places
        <5> HIDE DEF e, evicted, i, swapped, room
        <5> QED BY <2>4, <2>9, <1>2 DEF Occupied
      <4> QED BY <4>1, <4>2, <4>3
    <3>4. ASSUME NEW y \in Guests, fp_of[y] = evicted, kick.i \in {I1(y), I2(y)} PROVE Fits(y, to)'
      <4>1. y \in Items
        BY <1>0, <1>1 DEF Guests, CuckooTypes
      <4>2. i \in {I1(y), I2(y)}
        BY <4>1, <3>4, <1>0, <1>2, IndexPair
      <4>3. I1(y)' = I1(y) /\ I2(y)' = I2(y)
        BY <1>0 DEF I1, I2, Alternate
      <4>4. to # Hand
        BY <2>9 DEF Hand
      <4> QED BY <4>2, <4>3, <4>4, <3>4, <2>8, <2>9, <1>0 DEF Fits
    <3>5. \A s \in Occupied \ {p} : buckets'[s[1]][s[2]] = buckets[s[1]][s[2]]
      BY <2>8, <2>9, <3>2, <1>3 DEF Occupied
    <3>6. d \in Places /\ p = <<kick.i, d>> /\ buckets'[kick.i][d] = kick.fp /\ evicted = buckets[kick.i][d]
      BY <1>1, <1>3, <1>4, <2>8
    <3> HIDE DEF e, evicted, i, swapped, room
    <3> QED BY <3>1, <3>2, <3>3, <3>4, <3>5, <3>6, <2>10, <1>0, KickSeats
  <2> QED BY <2>6, <2>7, <2>10, <1>0 DEF CuckooInv, SeatInv
<1>6. CASE room = {}
  <2>1. /\ buckets' = swapped /\ kick' = [kick EXCEPT !.fp = evicted, !.i = i, !.n = @ + 1]
        /\ UNCHANGED <<items, dirty>>
    BY <1>6 DEF Kick
  <2>2. CuckooTypes'
    BY <2>1, <1>0, <1>1 DEF CuckooTypes
  <2>3. kick' \in [item : Items \ items, fp : Fingerprints, i : Index, n : Nat]
        /\ kick'.item = kick.item /\ kick'.fp = evicted /\ kick'.i = i
    <3>1. kick \in [item : Items \ items, fp : Fingerprints, i : Index, n : Nat]
      BY <1>0 DEF KickInv
    <3> HIDE DEF e, evicted, i, swapped, room
    <3>2. kick.n \in Nat /\ kick.n + 1 \in Nat
      BY <1>1
    <3>3. kick' = [item |-> kick.item, fp |-> evicted, i |-> i, n |-> kick.n + 1]
      BY <3>1, <2>1
    <3> QED BY <3>2, <3>3, <1>1, <1>2
  <2>4. ~NotEvicting'
    BY <2>3, <1>1, FingerprintTypes DEF NotEvicting, NoKick
  <2>5. KickInv'
    BY <2>1, <2>3, <1>6 DEF KickInv
  <2>8. buckets'[kick.i][e] = kick.fp
        /\ \A s \in Index \X Places : s # <<kick.i, e>> => buckets'[s[1]][s[2]] = buckets[s[1]][s[2]]
    BY <2>1, <1>0, <1>1 DEF CuckooTypes
  <2>10. ASSUME ~table_full, NEW h, Seating(h) PROVE \E g : Seating(g)'
    <3>1. Guests' = Guests
      BY <2>1, <2>3, <2>4, <1>0 DEF Guests
    <3>2. Hand \notin Occupied
      BY DEF Hand, Occupied
    <3>3. Seats' = Occupied \cup {Hand}
      <4>1. ASSUME NEW s \in Index \X Places PROVE s \in Occupied' <=> s \in Occupied
        <5>1. CASE s = <<kick.i, e>>
          BY <5>1, <2>8, <1>1, FingerprintTypes DEF Occupied
        <5>2. CASE s # <<kick.i, e>>
          BY <5>2, <2>8 DEF Occupied
        <5> QED BY <5>1, <5>2
      <4>2. Occupied' \subseteq Index \X Places /\ Occupied \subseteq Index \X Places
        BY DEF Occupied
      <4> QED BY <4>1, <4>2, <2>4 DEF Seats
    <3>4. ASSUME NEW y \in Guests, fp_of[y] = evicted, kick.i \in {I1(y), I2(y)} PROVE Fits(y, Hand)'
      <4>1. y \in Items
        BY <1>0, <1>1 DEF Guests, CuckooTypes
      <4>2. i \in {I1(y), I2(y)}
        BY <4>1, <3>4, <1>0, <1>2, IndexPair
      <4>3. I1(y)' = I1(y) /\ I2(y)' = I2(y)
        BY <1>0 DEF I1, I2, Alternate
      <4> QED BY <4>2, <4>3, <3>4, <2>3, <1>0 DEF Fits
    <3>5. \A s \in Occupied \ {p} : buckets'[s[1]][s[2]] = buckets[s[1]][s[2]]
      BY <2>8, <1>3 DEF Occupied
    <3>6. d \in Places /\ p = <<kick.i, d>> /\ buckets'[kick.i][d] = kick.fp /\ evicted = buckets[kick.i][d]
      BY <1>1, <1>3, <1>4, <2>8
    <3> HIDE DEF e, evicted, i, swapped, room
    <3> QED BY <3>1, <3>2, <3>3, <3>4, <3>5, <3>6, <2>10, <1>0, KickSeats DEF Hand
  <2> QED BY <2>2, <2>5, <2>10, <1>0 DEF CuckooInv, SeatInv
<1> QED BY <1>5, <1>6

\* remove finds a copy of the fingerprint and clears it, perhaps another item's.
LEMMA RemovedOne ==
    ASSUME CuckooTypes, NEW x \in Items
    PROVE  \/ /\ Removed(x) = buckets
              /\ \A i \in {I1(x), I2(x)}, e \in Places : buckets[i][e] # fp_of[x]
           \/ \E i \in {I1(x), I2(x)}, e \in Places :
                 buckets[i][e] = fp_of[x] /\ Removed(x) = [buckets EXCEPT ![i][e] = 0]
<1>1. ASSUME NEW i \in {I1(x), I2(x)}, PlacesOf(i, fp_of[x]) # {}, Removed(x) = Cleared(i, fp_of[x])
      PROVE  \E e \in Places : buckets[i][e] = fp_of[x] /\ Removed(x) = [buckets EXCEPT ![i][e] = 0]
  <2>1. First(PlacesOf(i, fp_of[x])) \in PlacesOf(i, fp_of[x])
    BY <1>1, FirstIsOne DEF PlacesOf
  <2> QED BY <2>1, <1>1 DEF PlacesOf, Cleared
<1>2. CASE PlacesOf(I1(x), fp_of[x]) # {}
  <2>1. Removed(x) = Cleared(I1(x), fp_of[x])
    BY <1>2 DEF Removed
  <2>2. \E e \in Places : buckets[I1(x)][e] = fp_of[x] /\ Removed(x) = [buckets EXCEPT ![I1(x)][e] = 0]
    BY <2>1, <1>1, <1>2
  <2> QED BY <2>2, Zenon
<1>3. CASE PlacesOf(I1(x), fp_of[x]) = {} /\ PlacesOf(I2(x), fp_of[x]) # {}
  <2>1. Removed(x) = Cleared(I2(x), fp_of[x])
    BY <1>3 DEF Removed
  <2>2. \E e \in Places : buckets[I2(x)][e] = fp_of[x] /\ Removed(x) = [buckets EXCEPT ![I2(x)][e] = 0]
    BY <2>1, <1>1, <1>3
  <2> QED BY <2>2, Zenon
<1>4. CASE PlacesOf(I1(x), fp_of[x]) = {} /\ PlacesOf(I2(x), fp_of[x]) = {}
    BY <1>4 DEF Removed, PlacesOf
<1> QED BY <1>2, <1>3, <1>4

LEMMA RemoveStep ==
    ASSUME CuckooInv, NEW x \in Items, remove(x)
    PROVE  CuckooInv'
<1>0. /\ CuckooTypes /\ NotEvicting /\ NotEvicting' /\ x \in items /\ fp_of[x] \in Fingerprints
      /\ UNCHANGED <<fp_of, i1_of, mask_of, kick, table_full>>
      /\ items' = items \ {x} /\ buckets' = Removed(x)
    BY DEF remove, NotEvicting, CuckooInv, CuckooTypes, hashVars
<1>1. I1(x) \in Index /\ I2(x) \in Index
    BY <1>0, IndexPair
<1>2. CuckooTypes'
  <2>1. Removed(x) \in [Index -> [Places -> Fingerprints \cup {0}]]
    <3>1. CASE Removed(x) = buckets
      BY <3>1, <1>0 DEF CuckooTypes
    <3>2. ASSUME NEW i \in {I1(x), I2(x)}, NEW e \in Places, Removed(x) = [buckets EXCEPT ![i][e] = 0]
          PROVE  Removed(x) \in [Index -> [Places -> Fingerprints \cup {0}]]
      BY <3>2, <1>0, <1>1 DEF CuckooTypes
    <3> QED BY <3>1, <3>2, <1>0, RemovedOne, Zenon
  <2> QED BY <2>1, <1>0 DEF CuckooTypes, remove
<1>3. KickInv'
    BY <1>0 DEF KickInv
<1>4. ASSUME ~table_full, NEW h, Seating(h)
      PROVE  \E g : Seating(g)'
  <2>1. Guests = items /\ Guests' = items \ {x} /\ Seats = Occupied /\ Seats' = Occupied'
    BY <1>0 DEF Guests, Seats
  <2>2. /\ \A y \in items : h[y] \in Occupied /\ h[y] # Hand /\ Fits(y, h[y])
        /\ \A y, z \in items : h[y] = h[z] => y = z
        /\ \A s \in Occupied : \E y \in items : h[y] = s
    BY <2>1, <1>4 DEF Seating, Occupied, Hand
  <2>3. h[x] = <<h[x][1], h[x][2]>> /\ h[x][1] \in {I1(x), I2(x)} /\ h[x][2] \in Places
        /\ buckets[h[x][1]][h[x][2]] = fp_of[x]
    BY <2>2, <1>0 DEF Fits, Occupied
  <2>4. PICK i \in {I1(x), I2(x)}, e \in Places :
            buckets[i][e] = fp_of[x] /\ buckets' = [buckets EXCEPT ![i][e] = 0]
    BY <2>3, <1>0, RemovedOne
  <2>5. PICK p : p = <<i, e>>
    OBVIOUS
  <2>6. p \in Occupied /\ Occupied' = Occupied \ {p}
        /\ \A s \in Occupied' : buckets'[s[1]][s[2]] = buckets[s[1]][s[2]]
    <3>1. i \in Index
      BY <1>1
    <3>2. p \in Occupied
      BY <3>1, <2>4, <2>5, <1>0, FingerprintTypes DEF Occupied
    <3>3. buckets'[i][e] = 0
          /\ \A s \in Index \X Places : s # p => buckets'[s[1]][s[2]] = buckets[s[1]][s[2]]
      BY <3>1, <2>4, <2>5, <1>0 DEF CuckooTypes
    <3>4. p[1] = i /\ p[2] = e
      BY <2>5
    <3> QED BY <3>2, <3>3, <3>4 DEF Occupied
  <2>7. PICK w \in items : h[w] = p
    BY <2>2, <2>6
  <2>8. h[x] \in Occupied
    BY <2>2, <1>0
  <2>9. PICK g : g = [y \in items \ {x} |-> IF y = w THEN h[x] ELSE h[y]]
    OBVIOUS
  <2>10. g \in [Guests' -> Seats']
    BY <2>1, <2>2, <2>6, <2>7, <2>8, <2>9, <1>0
  <2>11. \A y, z \in Guests' : g[y] = g[z] => y = z
    BY <2>1, <2>2, <2>7, <2>9, <1>0
  <2>12. ASSUME NEW s \in Seats' PROVE \E y \in Guests' : g[y] = s
    <3>1. s \in Occupied /\ s # p
      BY <2>1, <2>6
    <3>2. PICK y \in items : h[y] = s
      BY <3>1, <2>2
    <3>3. y # w
      BY <3>1, <3>2, <2>7
    <3>4. CASE y = x
      BY <3>2, <3>3, <3>4, <2>1, <2>7, <2>9
    <3>5. CASE y # x
      BY <3>2, <3>3, <3>5, <2>1, <2>9
    <3> QED BY <3>4, <3>5
  <2>13. ASSUME NEW y \in Guests' PROVE Fits(y, g[y])'
    <3>1. I1(y)' = I1(y) /\ I2(y)' = I2(y) /\ y \in items
      BY <1>0, <2>1 DEF I1, I2, Alternate
    <3>2. g[y] \in Occupied' /\ g[y] # Hand
      BY <2>1, <2>10, <2>13, <2>6 DEF Occupied, Hand
    <3>3. buckets[g[y][1]][g[y][2]] = fp_of[y] /\ g[y][1] \in {I1(y), I2(y)}
      <4>1. CASE y # w
        BY <4>1, <3>1, <2>2, <2>1, <2>9 DEF Fits
      <4>2. CASE y = w
        <5>1. g[y] = h[x]
          BY <4>2, <2>1, <2>9
        <5>2. Fits(w, p) /\ p # Hand /\ p[1] = i /\ p[2] = e
          BY <2>2, <2>5, <2>7
        <5>3. fp_of[y] = fp_of[x] /\ i \in {I1(y), I2(y)}
          BY <5>2, <4>2, <2>4 DEF Fits
        <5>4. y \in Items
          BY <3>1, <1>0 DEF CuckooTypes
        <5>5. {I1(y), I2(y)} = {I1(x), I2(x)}
          BY <5>3, <5>4, <1>0, <2>4, SamePair
        <5> QED BY <5>1, <5>3, <5>5, <2>3
      <4> QED BY <4>1, <4>2
    <3> QED BY <3>1, <3>2, <3>3, <2>6, <1>0 DEF Fits
  <2>14. Seating(g)'
    BY <2>10, <2>11, <2>12, <2>13 DEF Seating
  <2> QED BY <2>14
<1> QED BY <1>0, <1>2, <1>3, <1>4 DEF CuckooInv, SeatInv

LEMMA SeatingKept ==
    ASSUME CuckooInv, UNCHANGED <<fp_of, i1_of, mask_of, buckets, items, kick, table_full>>, dirty' \in BOOLEAN
    PROVE  CuckooInv'
<1>1. CuckooTypes'
    BY DEF CuckooInv, CuckooTypes
<1>2. KickInv'
    BY DEF CuckooInv, KickInv, NotEvicting
<1>3. Guests' = Guests /\ Seats' = Seats
    BY DEF Guests, Seats, Occupied, NotEvicting
<1>4. ASSUME NEW h, Seating(h) PROVE Seating(h)'
  <2>1. ASSUME NEW x, NEW s PROVE Fits(x, s) = Fits(x, s)'
    BY DEF Fits, I1, I2, Alternate
  <2> QED BY <2>1, <1>3, <1>4 DEF Seating
<1> QED BY <1>1, <1>2, <1>4 DEF CuckooInv, SeatInv

LEMMA CuckooStep == CuckooInv /\ [CuckooNext]_cuckooVars => CuckooInv'
<1> SUFFICES ASSUME CuckooInv, [CuckooNext]_cuckooVars PROVE CuckooInv'
    OBVIOUS
<1>1. ASSUME NEW x \in Items, Insert(x) PROVE CuckooInv'
    BY <1>1, InsertStep
<1>2. ASSUME NEW x \in Items, InsertEvicts(x) PROVE CuckooInv'
    BY <1>2, InsertEvictsStep
<1>3. ASSUME NEW x \in Items, remove(x) PROVE CuckooInv'
    BY <1>3, RemoveStep
<1>4. CASE Kick
    BY <1>4, KickStep
<1>5. CASE InsertFails
    BY <1>5 DEF InsertFails, CuckooInv, CuckooTypes, KickInv, SeatInv, NotEvicting, hashVars
<1>6. CASE take_dirty \/ \E map \in RequestMaps : insert_into_request(map)
    BY <1>6, SeatingKept DEF take_dirty, insert_into_request, hashVars
<1>7. CASE SendRequest \/ ServerReads \/ StreamBreaks
    BY <1>7, SeatingKept DEF SendRequest, ServerReads, StreamBreaks, hashVars, CuckooInv, CuckooTypes
<1>8. CASE UNCHANGED cuckooVars
    BY <1>8, SeatingKept DEF cuckooVars, hashVars, CuckooInv, CuckooTypes
<1> QED BY <1>1, <1>2, <1>3, <1>4, <1>5, <1>6, <1>7, <1>8 DEF CuckooNext

LEMMA SeatedIsFound == CuckooInv => NoFalseNegatives
<1> SUFFICES ASSUME CuckooInv, NotEvicting, ~table_full
             PROVE  (\A x \in items : contains(x)) /\ Cardinality(Occupied) = Cardinality(items)
    BY DEF NoFalseNegatives
<1>1. PICK h : Seating(h)
    BY DEF CuckooInv, SeatInv
<1>2. Guests = items /\ Seats = Occupied
    BY DEF Guests, Seats
<1>3. ASSUME NEW x \in items PROVE contains(x)
  <2>1. h[x] \in Occupied /\ h[x] # Hand /\ Fits(x, h[x])
    BY <1>1, <1>2 DEF Seating, Occupied, Hand
  <2>2. h[x][2] \in Places /\ h[x][1] \in {I1(x), I2(x)} /\ buckets[h[x][1]][h[x][2]] = fp_of[x]
    BY <2>1 DEF Fits, Occupied
  <2> QED BY <2>2 DEF contains, PlacesOf
<1>4. IsFiniteSet(items)
    BY CuckooAssumption, FS_Subset DEF CuckooAssumption, CuckooInv, CuckooTypes
<1>5. h \in Bijection(items, Occupied)
    BY <1>1, <1>2 DEF Seating, Bijection, Injection, Surjection, IsInjective
<1>6. ExistsBijection(items, Occupied)
    BY <1>5 DEF ExistsBijection
<1> QED BY <1>3, <1>4, <1>6, FS_Bijection

\* As long as no insert has failed, the filter knows every item of the set and holds one
\* fingerprint for each, for any capacity, load factor, size of a bucket and number of kicks, and
\* for all hash functions: an evicted fingerprint goes where it is looked for, and a removal that
\* takes another item's copy leaves that item its own.
THEOREM NeverFalseNegatives == CuckooSpec => []NoFalseNegatives
<1>1. CuckooSpec => []CuckooInv
    BY CuckooInitial, CuckooStep, PTL DEF CuckooSpec
<1> QED BY <1>1, SeatedIsFound, PTL

-----------------------------------------------------------------------------
(* The way over the wire                                                   *)

\* 2^n is the number of subsets of a set of n elements.
LEMMA PowerOfTwo ==
    ASSUME NEW n \in Nat
    PROVE  2^n \in Nat \ {0} /\ 2^n >= n
<1> DEFINE S == 1..n
<1>1. IsFiniteSet(S) /\ Cardinality(S) = n
    BY FS_Interval
<1>2. IsFiniteSet(SUBSET S) /\ Cardinality(SUBSET S) = 2^n /\ Cardinality(SUBSET S) \in Nat
    BY <1>1, FS_SUBSET, FS_CardinalityType
<1>3. Cardinality(SUBSET S) # 0
  <2>1. SUBSET S # {}
    OBVIOUS
  <2> QED BY <2>1, <1>2, FS_EmptySet
<1>4. [k \in S |-> {k}] \in Injection(S, SUBSET S)
    BY DEF Injection, IsInjective
<1>5. n <= Cardinality(SUBSET S)
    BY <1>1, <1>2, <1>4, FS_Injection
<1> HIDE DEF S
<1> QED BY <1>2, <1>3, <1>5

LEMMA BucketCountType == BucketCount \in Nat \ {0}
<1> DEFINE n == CeilDiv(MaxCapacity * 100, LoadPercent * EntriesPerBucket)
<1>1. n \in Nat
  <2>1. MaxCapacity \in Nat /\ LoadPercent \in Nat \ {0} /\ EntriesPerBucket \in Nat \ {0}
    BY CuckooAssumption DEF CuckooAssumption
  <2>2. PICK a \in Nat : a = MaxCapacity * 100
    BY <2>1
  <2>3. PICK b \in Nat \ {0} : b = LoadPercent * EntriesPerBucket
    BY <2>1
  <2>4. (a + b - 1) \div b \in Nat
    BY <2>2, <2>3
  <2> QED BY <2>2, <2>3, <2>4 DEF CeilDiv
<1> DEFINE powers == {2^k : k \in 0..n}
           large == {p \in powers : p >= n}
<1>2. powers \subseteq Nat \ {0}
    BY <1>1, PowerOfTwo
<1>3. 2^n \in large
    BY <1>1, PowerOfTwo
<1>4. PICK p \in large : \A q \in large : ~(<<q, p>> \in OpToRel(<, Nat))
  <2>1. large \subseteq Nat /\ large # {}
    BY <1>2, <1>3
  <2> HIDE DEF large
  <2> QED BY <2>1, NatLessThanWellFounded, WFMin
<1>5. \A q \in large : ~(q < p)
    BY <1>2, <1>4 DEF OpToRel
<1>6. p \in powers /\ p >= n /\ \A k \in 0..n : 2^k >= n => p <= 2^k
  <2>1. p \in powers /\ p >= n
    BY <1>4
  <2>2. ASSUME NEW k \in 0..n, 2^k >= n PROVE p <= 2^k
    <3>1. 2^k \in large
        BY <2>2
    <3>2. ~(2^k < p) /\ 2^k \in Nat /\ p \in Nat
        BY <3>1, <1>5, <1>2, <2>1
    <3> HIDE DEF powers, large, n
    <3>3. PICK q \in Nat : q = 2^k
        BY <3>2
    <3> QED BY <3>2, <3>3
  <2> QED BY <2>1, <2>2
<1>7. NextPowerOfTwo(n) \in powers
  <2>1. \E q \in {2^k : k \in 0..n} : q >= n /\ \A k \in 0..n : 2^k >= n => q <= 2^k
    BY <1>6
  <2> HIDE DEF n
  <2> QED BY <2>1 DEF NextPowerOfTwo
<1> QED BY <1>2, <1>7 DEF BucketCount

LEMMA DivideProduct ==
    ASSUME NEW m \in Nat, NEW b \in Nat \ {0}, NEW r \in 0..(b - 1)
    PROVE  (m * b + r) \div b = m /\ (m * b + r) % b = r
<1>1. m * b + r \in Nat
    OBVIOUS
<1>2. PICK q \in Int : q = (m * b + r) \div b
    OBVIOUS
<1>3. PICK s \in 0..(b - 1) : s = (m * b + r) % b
    BY <1>1
<1>4. m * b + r = b * q + s
    BY <1>1, <1>2, <1>3
<1>5. b * (m - q) = s - r
    BY <1>4
<1>6. ~(m - q >= 1)
    BY <1>5
<1>7. ~(m - q <= -1)
    BY <1>5
<1>8. m = q
    BY <1>6, <1>7
<1> QED BY <1>2, <1>3, <1>4, <1>8

\* A fingerprint is put together again from its two bytes.
LEMMA BytesAndBack ==
    ASSUME NEW fp \in Nat
    PROVE  to_le_bytes(fp)[1] + 256 * to_le_bytes(fp)[2] = fp
<1>1. (fp % 256) + 256 * (fp \div 256) = fp
    OBVIOUS
<1> QED BY <1>1 DEF to_le_bytes

\* The data of the wire holds the two bytes of every place, bucket after bucket.
LEMMA WireData ==
    ASSUME CuckooTypes
    PROVE  /\ Len(to_proto.data) = 2 * (BucketCount * EntriesPerBucket)
           /\ \A i \in Index, e \in Places :
                 LET k == i * EntriesPerBucket + e
                 IN  /\ to_proto.data[2 * k + 1] = to_le_bytes(buckets[i][e])[1]
                     /\ to_proto.data[2 * k + 2] = to_le_bytes(buckets[i][e])[2]
<1> DEFINE slot(k) == buckets[k \div EntriesPerBucket][k % EntriesPerBucket]
           byte(b) == to_le_bytes(slot((b - 1) \div 2))[1 + ((b - 1) % 2)]
<1>1. BucketCount \in Nat \ {0} /\ EntriesPerBucket \in Nat \ {0}
    BY BucketCountType, CuckooAssumption DEF CuckooAssumption
<1>2. PICK n \in Nat : n = BucketCount * EntriesPerBucket
    BY <1>1
<1>3. 2 * BucketCount * EntriesPerBucket = 2 * n
    BY <1>1, <1>2
<1>4. to_proto.data = [b \in 1..(2 * n) |-> byte(b)]
    BY <1>3 DEF to_proto
<1>5. Len(to_proto.data) = 2 * n
  <2>1. DOMAIN to_proto.data = 1..(2 * n)
    BY <1>4
  <2>2. to_proto.data \in Seq({byte(b) : b \in 1..(2 * n)})
    <3> HIDE DEF byte
    <3> QED BY <1>4, <1>2
  <2>3. Len(to_proto.data) \in Nat /\ 1..Len(to_proto.data) = 1..(2 * n)
    BY <2>1, <2>2, LenProperties
  <2>4. ASSUME NEW a \in Nat, NEW b \in Nat, 1..a = 1..b PROVE a = b
    <3>1. a >= 1 => a \in 1..b
        BY <2>4
    <3>2. b >= 1 => b \in 1..a
        BY <2>4
    <3> QED BY <3>1, <3>2
  <2> QED BY <2>3, <2>4, <1>2
<1>6. ASSUME NEW i \in Index, NEW e \in Places
      PROVE  LET k == i * EntriesPerBucket + e
             IN  /\ to_proto.data[2 * k + 1] = to_le_bytes(buckets[i][e])[1]
                 /\ to_proto.data[2 * k + 2] = to_le_bytes(buckets[i][e])[2]
  <2>1. i \in Nat /\ i <= BucketCount - 1 /\ e \in 0..(EntriesPerBucket - 1)
    BY <1>1 DEF Index, Places
  <2>2. PICK k \in Nat : k = i * EntriesPerBucket + e
    BY <1>1, <2>1
  <2>3. k < n
    <3>1. (BucketCount - 1 - i) * EntriesPerBucket >= 0
        BY <1>1, <2>1
    <3>2. n = i * EntriesPerBucket + EntriesPerBucket + (BucketCount - 1 - i) * EntriesPerBucket
        BY <1>1, <1>2, <2>1
    <3> QED BY <1>1, <2>1, <2>2, <3>1, <3>2
  <2>4. k \div EntriesPerBucket = i /\ k % EntriesPerBucket = e
    BY <1>1, <2>1, <2>2, DivideProduct
  <2>5. slot(k) = buckets[i][e]
    BY <2>4
  <2>6. 2 * k + 1 \in 1..(2 * n) /\ 2 * k + 2 \in 1..(2 * n)
    BY <1>2, <2>2, <2>3
  <2>7. ((2 * k + 1) - 1) \div 2 = k /\ ((2 * k + 2) - 1) \div 2 = k
    BY <2>2
  <2>8. 1 + (((2 * k + 1) - 1) % 2) = 1 /\ 1 + (((2 * k + 2) - 1) % 2) = 2
    BY <2>2
  <2>9. /\ byte(2 * k + 1) = to_le_bytes(buckets[i][e])[1]
        /\ byte(2 * k + 2) = to_le_bytes(buckets[i][e])[2]
    BY <2>5, <2>7, <2>8
  <2> HIDE DEF slot, byte
  <2> QED BY <1>4, <2>2, <2>6, <2>9
<1> HIDE DEF slot, byte
<1> QED BY <1>2, <1>5, <1>6

\* What the server makes of the bytes is the client's buckets, place by place.
LEMMA RoundTrip ==
    ASSUME CuckooTypes
    PROVE  from_proto(to_proto) = [buckets |-> buckets, seed |-> DefaultHashSeed]
<1>1. BucketCount \in Nat \ {0} /\ EntriesPerBucket \in Nat \ {0}
    BY BucketCountType, CuckooAssumption DEF CuckooAssumption
<1>2. (Len(to_proto.data) \div 2) \div EntriesPerBucket = BucketCount
  <2>1. PICK n \in Nat : n = BucketCount * EntriesPerBucket
    BY <1>1
  <2>2. Len(to_proto.data) = 2 * n
    BY <2>1, WireData
  <2>3. Len(to_proto.data) \div 2 = n
    BY <2>1, <2>2
  <2>4. n + 0 = n /\ 0 \in 0..(EntriesPerBucket - 1)
    BY <1>1, <2>1
  <2>5. (BucketCount * EntriesPerBucket + 0) \div EntriesPerBucket = BucketCount
    BY <1>1, <2>4, DivideProduct
  <2> QED BY <2>1, <2>3, <2>4, <2>5
<1> DEFINE fingerprint(k) == to_proto.data[2 * k + 1] + 256 * to_proto.data[2 * k + 2]
<1>3. ASSUME NEW i \in Index, NEW e \in Places
      PROVE  fingerprint(i * EntriesPerBucket + e) = buckets[i][e]
  <2>1. buckets[i][e] \in Fingerprints \cup {0}
    BY DEF CuckooTypes
  <2>2. buckets[i][e] \in Nat
    <3>1. \A v \in Fingerprints \cup {0} : v \in Nat
        BY FingerprintTypes
    <3> QED BY <2>1, <3>1
  <2> QED BY <2>2, WireData, BytesAndBack
<1>4. buckets = [i \in Index |-> [e \in Places |-> buckets[i][e]]]
    BY DEF CuckooTypes
<1>5. [i \in Index |-> [e \in Places |-> fingerprint(i * EntriesPerBucket + e)]]
        = [i \in Index |-> [e \in Places |-> buckets[i][e]]]
  <2> HIDE DEF fingerprint
  <2> QED BY <1>3
<1>6. from_proto(to_proto).buckets
        = [i \in Index |-> [e \in Places |-> fingerprint(i * EntriesPerBucket + e)]]
    BY <1>1, <1>2 DEF from_proto, Index
<1>7. from_proto(to_proto) = [buckets |-> from_proto(to_proto).buckets, seed |-> DefaultHashSeed]
    BY DEF from_proto, to_proto
<1> QED BY <1>4, <1>5, <1>6, <1>7

\* The filter a server makes of the set as it is now, and that of a set never put into a request.
Current == Some([buckets |-> buckets, seed |-> DefaultHashSeed])
NeverWritten == \A i \in Index, e \in Places : buckets[i][e] = 0

WireTypes ==
    /\ request = [map \in RequestMaps |-> request[map]]
    /\ written \in RequestMaps
    /\ owed \in {"nothing", "rebuild", "send"}
    /\ \E S : wire \in Seq(S)

\* The entry written last is the set as it is, unless the flag is up or the user is to rebuild it.
KeptInv ==
    (NotEvicting /\ ~table_full /\ ~dirty /\ owed # "rebuild") =>
        \/ FiltersOf(request)[written] = Current
        \/ FiltersOf(request)[written] = None /\ NeverWritten

\* Nothing owed: the last request on the way, or read, is the one the user keeps.
SentInv ==
    owed = "nothing" => IF wire # <<>> THEN wire[Len(wire)] = request ELSE server = FiltersOf(request)

WireInv == WireTypes /\ KeptInv /\ SentInv

LEMMA WireInitial == CuckooInit => WireInv
<1> SUFFICES ASSUME CuckooInit PROVE WireInv
    OBVIOUS
<1>1. RequestMaps # {}
    BY CuckooAssumption DEF CuckooAssumption
<1>2. written \in RequestMaps
    BY <1>1 DEF CuckooInit
<1>3. FiltersOf(request) = NoEntries
    BY DEF CuckooInit, FiltersOf, NoEntries
<1>4. WireTypes
  <2>1. wire \in Seq({})
    BY DEF CuckooInit
  <2> QED BY <2>1, <1>2 DEF CuckooInit, WireTypes, NoEntries
<1>5. KeptInv
    BY <1>2, <1>3 DEF CuckooInit, KeptInv, NoEntries, NeverWritten, EmptyBucket
<1> QED BY <1>3, <1>4, <1>5 DEF WireInv, SentInv, CuckooInit

LEMMA KickStaysOrEnds ==
    ASSUME CuckooTypes, KickInv, Kick
    PROVE  NotEvicting' => dirty'
<1>1. ~NotEvicting /\ kick.fp \in Fingerprints /\ kick.n \in Nat
    BY KickTypes DEF Kick
<1>2. ASSUME NEW fp, NEW i, kick' = [kick EXCEPT !.fp = fp, !.i = i, !.n = @ + 1]
      PROVE  ~NotEvicting'
  <2>1. kick'.n = kick.n + 1
    BY <1>1, <1>2 DEF KickInv
  <2>2. kick'.n # 0
    BY <1>1, <2>1
  <2> QED BY <2>2 DEF NotEvicting, NoKick
<1> QED BY <1>2 DEF Kick

\* A step of the set alone does not touch the wire, and raises the flag when it ends well.
SetStep ==
    /\ UNCHANGED <<request, written, owed, wire, server>>
    /\ (NotEvicting' /\ ~table_full') => dirty'

LEMMA SetSteps ==
    ASSUME CuckooInv,
           (\E x \in Items : Insert(x) \/ InsertEvicts(x) \/ remove(x)) \/ Kick \/ InsertFails
    PROVE  SetStep
<1>1. ASSUME NEW x \in Items, Insert(x) \/ remove(x) PROVE SetStep
    BY <1>1 DEF SetStep, Insert, remove, wireVars
<1>2. ASSUME NEW x \in Items, InsertEvicts(x) PROVE SetStep
  <2>1. x \in Items /\ fp_of[x] # 0
    BY FingerprintTypes DEF CuckooInv, CuckooTypes
  <2>2. ~NotEvicting'
    BY <1>2, <2>1 DEF InsertEvicts, NotEvicting, NoKick
  <2> QED BY <1>2, <2>2 DEF SetStep, InsertEvicts, wireVars
<1>3. CASE Kick
  <2>1. NotEvicting' => dirty'
    BY <1>3, KickStaysOrEnds DEF CuckooInv
  <2>2. UNCHANGED wireVars
    BY <1>3 DEF Kick
  <2> QED BY <2>1, <2>2 DEF SetStep, wireVars
<1>4. CASE InsertFails
    BY <1>4 DEF SetStep, InsertFails, wireVars
<1> QED BY <1>1, <1>2, <1>3, <1>4

LEMMA PutStep ==
    ASSUME CuckooInv, WireInv, NEW map \in RequestMaps, insert_into_request(map)
    PROVE  WireInv'
<1>1. /\ request' = [request EXCEPT ![map] = Some(filter_for(map))]
      /\ written' = map /\ owed' = "send" /\ wire' = wire /\ buckets' = buckets
    BY DEF insert_into_request
<1>2. WireTypes'
    BY <1>1 DEF WireInv, WireTypes
<1>3. request'[map] = Some(filter_for(map))
    BY <1>1 DEF WireInv, WireTypes
<1>4. filter_for(map).cuckoo = Some(to_proto)
  <2>1. map \in {"accounts", "blocks", "transactions"}
    BY CuckooAssumption DEF CuckooAssumption
  <2> QED BY <2>1 DEF filter_for, to_account_filter, to_block_filter, to_transaction_filter
<1>5. FiltersOf(request')[map] = Some(from_proto(to_proto))
    BY <1>3, <1>4 DEF FiltersOf, Map, Some, None, Get, IsSome
<1>6. from_proto(to_proto) = [buckets |-> buckets, seed |-> DefaultHashSeed]
    BY RoundTrip DEF CuckooInv
<1>7. FiltersOf(request')[written'] = Current'
    BY <1>1, <1>5, <1>6 DEF Current
<1>8. FiltersOf(request)' = FiltersOf(request')
    BY DEF FiltersOf, from_proto, Map, Get, None, Some, IsSome, EmptyBucket
<1>9. KeptInv'
    BY <1>7, <1>8 DEF KeptInv
<1> QED BY <1>1, <1>2, <1>9 DEF WireInv, SentInv

\* Appending keeps a sequence, and its last element is the new one.
LEMMA Appended ==
    ASSUME NEW s, NEW S, s \in Seq(S), NEW x
    PROVE  /\ Append(s, x) \in Seq(S \cup {x})
           /\ Append(s, x) # <<>>
           /\ Append(s, x)[Len(Append(s, x))] = x
<1>1. s \in Seq(S \cup {x})
  <2>1. \A i \in 1..Len(s) : s[i] \in S \cup {x}
    BY ElementOfSeq
  <2>2. Len(s) \in Nat /\ s = [i \in 1..Len(s) |-> s[i]]
    BY LenProperties
  <2> QED BY <2>1, <2>2
<1> QED BY <1>1, AppendProperties

\* The last element stays when the first is taken.
LEMMA LastOfTail ==
    ASSUME NEW S, NEW s \in Seq(S), s # <<>>
    PROVE  /\ Tail(s) \in Seq(S)
           /\ Tail(s) # <<>> => Tail(s)[Len(Tail(s))] = s[Len(s)]
           /\ Tail(s) = <<>> => Head(s) = s[Len(s)]
<1>1. Tail(s) \in Seq(S) /\ Len(Tail(s)) = Len(s) - 1 /\ Len(s) \in Nat \ {0}
      /\ \A i \in 1..Len(Tail(s)) : Tail(s)[i] = s[i + 1]
    BY HeadTailProperties, EmptySeq, LenProperties
<1>2. Head(s) = s[1]
    OBVIOUS
<1>3. Tail(s) = <<>> <=> Len(Tail(s)) = 0
    BY <1>1, EmptySeq
<1> QED BY <1>1, <1>2, <1>3

LEMMA WireStep == CuckooInv /\ WireInv /\ [CuckooNext]_cuckooVars => WireInv'
<1> SUFFICES ASSUME CuckooInv, WireInv, [CuckooNext]_cuckooVars PROVE WireInv'
    OBVIOUS
<1>0. FiltersOf(request)' = FiltersOf(request')
    BY DEF FiltersOf, from_proto, Map, Get, None, Some, IsSome, EmptyBucket
<1>1. CASE (\E x \in Items : Insert(x) \/ InsertEvicts(x) \/ remove(x)) \/ Kick \/ InsertFails
  <2>1. SetStep
    BY <1>1, SetSteps
  <2> QED BY <2>1, <1>0 DEF SetStep, WireInv, WireTypes, KeptInv, SentInv
<1>2. CASE take_dirty
  <2>1. /\ UNCHANGED <<request, written, wire, server, buckets, kick, table_full>>
        /\ owed' = IF dirty THEN "rebuild" ELSE owed
    BY <1>2 DEF take_dirty
  <2>2. KeptInv'
    BY <2>1, <1>0 DEF WireInv, KeptInv, Current, NeverWritten, NotEvicting
  <2> QED BY <2>1, <2>2, <1>0 DEF WireInv, WireTypes, SentInv
<1>3. CASE \E map \in RequestMaps : insert_into_request(map)
    BY <1>3, PutStep
<1>4. CASE SendRequest
  <2>1. /\ UNCHANGED <<request, written, buckets, dirty, kick, table_full>>
        /\ wire' = Append(wire, request)
        /\ owed' = IF owed = "send" THEN "nothing" ELSE owed
    BY <1>4 DEF SendRequest
  <2>2. PICK S : wire \in Seq(S)
    BY DEF WireInv, WireTypes
  <2>3. wire' \in Seq(S \cup {request}) /\ wire' # <<>> /\ wire'[Len(wire')] = request
    BY <2>1, <2>2, Appended
  <2>4. KeptInv'
    BY <2>1, <1>0 DEF WireInv, KeptInv, Current, NeverWritten, NotEvicting
  <2>5. WireTypes'
    BY <2>1, <2>3 DEF WireInv, WireTypes
  <2> QED BY <2>1, <2>3, <2>4, <2>5 DEF WireInv, SentInv
<1>5. CASE ServerReads
  <2>1. /\ UNCHANGED <<request, written, owed, buckets, dirty, kick, table_full>>
        /\ wire # <<>> /\ wire' = Tail(wire) /\ server' = FiltersOf(Head(wire))
    BY <1>5 DEF ServerReads
  <2>2. PICK S : wire \in Seq(S)
    BY DEF WireInv, WireTypes
  <2>3. /\ wire' \in Seq(S)
        /\ wire' # <<>> => wire'[Len(wire')] = wire[Len(wire)]
        /\ wire' = <<>> => Head(wire) = wire[Len(wire)]
    BY <2>1, <2>2, LastOfTail
  <2>4. KeptInv'
    BY <2>1, <1>0 DEF WireInv, KeptInv, Current, NeverWritten, NotEvicting
  <2>5. WireTypes'
    BY <2>1, <2>3 DEF WireInv, WireTypes
  <2>6. SentInv'
    BY <2>1, <2>3, <1>0 DEF WireInv, SentInv
  <2> QED BY <2>4, <2>5, <2>6 DEF WireInv
<1>6. CASE StreamBreaks
  <2>1. /\ UNCHANGED <<request, written, buckets, dirty, kick, table_full>>
        /\ wire' = <<>> /\ owed' = IF owed = "rebuild" THEN "rebuild" ELSE "send"
    BY <1>6 DEF StreamBreaks
  <2>2. wire' \in Seq({})
    BY <2>1
  <2>3. KeptInv'
    BY <2>1, <1>0 DEF WireInv, WireTypes, KeptInv, Current, NeverWritten, NotEvicting
  <2> QED BY <2>1, <2>2, <2>3 DEF WireInv, WireTypes, SentInv
<1>7. CASE UNCHANGED cuckooVars
    BY <1>7, <1>0 DEF cuckooVars, wireVars, WireInv, WireTypes, KeptInv, SentInv, Current, NeverWritten,
        NotEvicting
<1> QED BY <1>1, <1>2, <1>3, <1>4, <1>5, <1>6, <1>7 DEF CuckooNext

LEMMA SentIsSame == CuckooInv /\ WireInv => CleanIsSent
<1> SUFFICES ASSUME CuckooInv, WireInv, NotEvicting, ~table_full, ~dirty, owed # "rebuild",
                    NEW x \in Items
             PROVE  Lets(InForce[written], x) = contains(x)
    BY DEF CleanIsSent
<1>0. CuckooTypes /\ written \in RequestMaps /\ owed \in {"nothing", "send"}
    BY DEF CuckooInv, WireInv, WireTypes
<1>1. I1(x) \in Index /\ I2(x) \in Index /\ fp_of[x] \in Nat \ {0}
    BY <1>0, IndexPair, FingerprintTypes DEF CuckooTypes
<1>2. InForce = FiltersOf(request)
    BY <1>0 DEF InForce, WireInv, SentInv
<1>3. PICK filter : filter = InForce[written]
    OBVIOUS
<1>4. filter = Current \/ (filter = None /\ NeverWritten)
    BY <1>2, <1>3 DEF WireInv, KeptInv
<1>5. contains(x) <=> \E i \in {I1(x), I2(x)} : \E e \in Places : buckets[i][e] = fp_of[x]
    BY DEF contains, PlacesOf
<1>6. CASE filter = None /\ NeverWritten
  <2>1. ~contains(x)
    BY <1>1, <1>5, <1>6 DEF NeverWritten
  <2>2. ~Lets(filter, x)
    BY <1>6 DEF Lets
  <2> QED BY <2>1, <2>2, <1>3 DEF contains, Lets
<1>7. CASE filter = Current
  <2>1. filter # None /\ Get(filter) = [buckets |-> buckets, seed |-> DefaultHashSeed]
    BY <1>7 DEF Current, Some, None, Get
  <2>2. IndexUnder(DefaultHashSeed, x) = I1(x) /\ Alternate(I1(x), fp_of[x]) = I2(x)
    BY DEF IndexUnder, I1, I2
  <2>3. DOMAIN buckets = Index
    BY <1>0 DEF CuckooTypes
  <2>4. Lets(filter, x) <=>
            \E i \in {I1(x), I2(x)} : \E e \in Places : buckets[i][e] = fp_of[x]
    BY <1>1, <2>1, <2>2, <2>3 DEF Lets
  <2> QED BY <2>4, <1>3, <1>5 DEF contains, Lets
<1> QED BY <1>4, <1>6, <1>7

\* No change gets lost between the set and the server, for every size of the table and of a bucket
\* and every pattern of hashes, however the taking of the flag, changes, entries into several maps,
\* requests sent and read, and broken streams follow one another: as long as the flag is down and
\* no rebuild is due, the server lets pass what the client's filter holds, once it has read what
\* was sent or is about to be, unless an insert has failed.
THEOREM AlwaysCleanIsSent == CuckooSpec => []CleanIsSent
<1>1. CuckooSpec => [](CuckooInv /\ WireInv)
    BY CuckooInitial, WireInitial, CuckooStep, WireStep, PTL DEF CuckooSpec
<1> QED BY <1>1, SentIsSame, PTL
=============================================================================
