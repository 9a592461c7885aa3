------------------------ MODULE RoomAdmissionsProofs ------------------------
(***************************************************************************)
(* Proofs about RoomAdmissions for any senders, transactions and bounds:   *)
(* the answers of a batch stay true of what it did, no nonce is used       *)
(* twice, and the forced queue can always move on.  The                    *)
(* last two need the states inside a body, a recursive function: its       *)
(* values are reached by least counterexample.                             *)
(***************************************************************************)
EXTENDS RoomAdmissions, TLAPS

-----------------------------------------------------------------------------
(* Sequences and numbers *)

\* The length, the domain and the elements of a sequence.
LEMMA SeqFacts ==
    ASSUME NEW S, NEW s \in Seq(S)
    PROVE  /\ Len(s) \in Nat /\ DOMAIN s = 1 .. Len(s)
           /\ \A i \in 1 .. Len(s) : s[i] \in S
BY SMT

\* A function on the first numbers is a sequence of that length.
LEMMA SeqMade ==
    ASSUME NEW S, NEW n \in Nat, NEW f \in [1 .. n -> S]
    PROVE  f \in Seq(S) /\ Len(f) = n
BY SMT

\* A sequence over a set is one over every larger set.
LEMMA SeqWidens ==
    ASSUME NEW S, NEW T, S \subseteq T, NEW s \in Seq(S)
    PROVE  s \in Seq(T)
<1>1. Len(s) \in Nat /\ s \in [1 .. Len(s) -> S]
  BY SMT
<1>2. s \in [1 .. Len(s) -> T]
  BY <1>1, SMT
<1> QED
  BY <1>1, <1>2, SeqMade, Zenon

\* Appending one element.
LEMMA SeqAppend ==
    ASSUME NEW S, NEW s \in Seq(S), NEW x \in S
    PROVE  /\ Append(s, x) \in Seq(S) /\ Len(Append(s, x)) = Len(s) + 1
           /\ Append(s, x)[Len(s) + 1] = x
           /\ \A i \in 1 .. Len(s) : Append(s, x)[i] = s[i]
BY SMT

\* Concatenating two sequences.
LEMMA SeqConcat ==
    ASSUME NEW S, NEW s \in Seq(S), NEW t \in Seq(S)
    PROVE  /\ s \o t \in Seq(S) /\ Len(s \o t) = Len(s) + Len(t)
           /\ \A i \in 1 .. Len(s) + Len(t) :
                (s \o t)[i] = IF i <= Len(s) THEN s[i] ELSE t[i - Len(s)]
BY SMT

\* The empty sequence.
LEMMA SeqNone == \A S : <<>> \in Seq(S) /\ Len(<<>>) = 0
BY SMT

\* What is below a number is below the ones that are no smaller.
LEMMA BelowStays == \A a, b, c \in Nat : a < b /\ b <= c => a < c
BY SMT

\* As many steps as a body can have, once more.
LEMMA OneBodyMore ==
    \A m, k, n, i, l \in Nat : n <= m * k /\ i <= n + l /\ l <= m => i <= m * (k + 1)
<1> SUFFICES ASSUME NEW m \in Nat, NEW k \in Nat, NEW n \in Nat, NEW i \in Nat, NEW l \in Nat,
                    n <= m * k, i <= n + l, l <= m
             PROVE  i <= m * (k + 1)
    OBVIOUS
<1>1. m * (k + 1) = m * k + m /\ m * k \in Nat
    BY SMT
<1> QED
    BY <1>1, SMT

\* What the bodies so far can have used lies within the bound of all but the last.
LEMMA WithinBound ==
    \A m, k, n, b \in Nat : n <= m * k /\ k < b => n \in 0 .. ((b - 1) * m)
<1> SUFFICES ASSUME NEW m \in Nat, NEW k \in Nat, NEW n \in Nat, NEW b \in Nat,
                    n <= m * k, k < b
             PROVE  n \in 0 .. ((b - 1) * m)
    OBVIOUS
<1> DEFINE d == b - 1 - k
<1>1. d \in Nat /\ b - 1 = k + d
    BY SMT
<1> HIDE DEF d
<1>2. (k + d) * m = m * k + d * m /\ d * m \in Nat /\ m * k \in Nat
    BY <1>1, SMT
<1>3. n <= (k + d) * m /\ (k + d) * m \in Nat
    BY <1>2, SMT
<1> QED
    BY <1>1, <1>3, SMT

-----------------------------------------------------------------------------
(* Histories and answers *)

\* The histories have their types, and an answer names a batch of the past.
Said == [status : Statuses, batch : 1 .. Len(bodies)]

Histories ==
    /\ bodies \in Seq(Bodies)
    /\ forced \in Seq(Txs) /\ receipts \in Seq([tx : Txs, maximum : Nat])
    /\ answered \in Seq(Said) /\ Len(answered) <= Len(forced)
    /\ accounted \in Seq(Said) /\ Len(accounted) <= Len(receipts)

\* Answers to the entries of a queue behind the done ones form a sequence.
LEMMA AnswersAreSequences ==
    ASSUME NEW queue, NEW done, Len(queue) \in Nat, Len(done) \in Nat,
           NEW xs \in Answers(queue, done)
    PROVE  /\ xs \in Seq(Statuses)
           /\ Len(xs) \in Nat /\ DOMAIN xs = 1 .. Len(xs)
           /\ Len(done) + Len(xs) <= Len(queue)
<1>1. PICK n \in 0 .. (Len(queue) - Len(done)) : xs \in [1 .. n -> Statuses]
    BY DEF Answers
<1>2. n \in Nat /\ Len(done) + n <= Len(queue)
    BY <1>1
<1>3. xs \in Seq(Statuses)
    BY <1>1, <1>2, SeqMade
<1>4. Len(xs) = n
    BY <1>1, <1>2, <1>3, SeqFacts
<1> QED
    BY <1>1, <1>2, <1>3, <1>4

\* The outcomes that a batch writes for its answers xs.
Written(done, xs, after) ==
    \A i \in DOMAIN after : i \notin 1 .. Len(done) =>
      /\ i - Len(done) \in DOMAIN xs
      /\ after[i] = [status |-> xs[i - Len(done)], batch |-> Len(bodies) + 1]

\* The outcomes a batch appends, and the ones it leaves alone.
LEMMA OutcomesWritten ==
    ASSUME NEW done, done \in Seq(Said), NEW xs \in Seq(Statuses), Len(bodies) \in Nat,
           NEW after, after = done \o [i \in DOMAIN xs |-> Outcome(xs[i])]
    PROVE  /\ after \in Seq([status : Statuses, batch : 1 .. Len(bodies) + 1])
           /\ Len(after) = Len(done) + Len(xs)
           /\ \A i \in 1 .. Len(done) : after[i] = done[i]
           /\ Written(done, xs, after)
<1> DEFINE Later == [status : Statuses, batch : 1 .. Len(bodies) + 1]
           written == [i \in DOMAIN xs |-> Outcome(xs[i])]
<1>1. DOMAIN xs = 1 .. Len(xs) /\ Len(xs) \in Nat /\ \A i \in DOMAIN xs : xs[i] \in Statuses
    BY SeqFacts
<1>2. \A i \in DOMAIN xs : Outcome(xs[i]) \in Later
    BY <1>1 DEF Outcome
<1>3. written \in [1 .. Len(xs) -> Later]
    BY <1>1, <1>2
<1>4. written \in Seq(Later) /\ Len(written) = Len(xs) /\ DOMAIN written = 1 .. Len(xs)
  <2>1. written \in Seq(Later)
    BY <1>1, <1>3, SeqMade
  <2> QED
    BY <1>1, <1>3, <2>1, SeqFacts
<1>5. Said \subseteq Later
    BY DEF Said
<1>6. Len(done) \in Nat /\ DOMAIN done = 1 .. Len(done)
    BY SeqFacts
<1>7. done \in Seq(Later)
    BY <1>5, SeqWidens, Zenon
<1>8. \A i \in 1 .. Len(xs) : written[i] = [status |-> xs[i], batch |-> Len(bodies) + 1]
    BY <1>1 DEF Outcome
<1> HIDE DEF written, Later
<1>9. after = done \o written
    BY DEF written
<1>10. /\ after \in Seq(Later) /\ Len(after) = Len(done) + Len(xs)
       /\ \A i \in 1 .. Len(done) + Len(xs) :
            after[i] = IF i <= Len(done) THEN done[i] ELSE written[i - Len(done)]
  <2>1. /\ done \o written \in Seq(Later)
        /\ Len(done \o written) = Len(done) + Len(written)
        /\ \A i \in 1 .. Len(done) + Len(written) :
             (done \o written)[i] = IF i <= Len(done) THEN done[i] ELSE written[i - Len(done)]
    BY <1>4, <1>7, SeqConcat, Zenon
  <2> QED
    BY <1>4, <1>9, <2>1, Zenon
<1>11. DOMAIN after = 1 .. Len(done) + Len(xs)
    BY <1>10, SeqFacts, Zenon
<1>12. \A i \in 1 .. Len(done) : after[i] = done[i]
    BY <1>1, <1>6, <1>10
<1>13. ASSUME NEW i \in DOMAIN after, i \notin 1 .. Len(done)
       PROVE  i - Len(done) \in 1 .. Len(xs) /\ after[i] = written[i - Len(done)]
  <2>1. i \in 1 .. Len(done) + Len(xs) /\ Len(done) \in Nat /\ Len(xs) \in Nat
    BY <1>1, <1>6, <1>11, <1>13, Zenon
  <2>2. i - Len(done) \in 1 .. Len(xs) /\ ~ (i <= Len(done))
    BY <1>13, <2>1, SMT
  <2> QED
    BY <1>10, <2>1, <2>2, Zenon
<1> QED
    BY <1>1, <1>8, <1>10, <1>12, <1>13, Zenon DEF Later, Written

\* A batch appends its body; the bodies of earlier batches stay what they were.
LEMMA BodyAppended ==
    ASSUME bodies \in Seq(Bodies), NEW body \in Bodies, bodies' = Append(bodies, body)
    PROVE  /\ bodies' \in Seq(Bodies) /\ Len(bodies') = Len(bodies) + 1
           /\ Len(bodies) \in Nat /\ DOMAIN bodies = 1 .. Len(bodies)
           /\ \A b \in 1 .. Len(bodies) : bodies'[b] = bodies[b]
           /\ bodies'[Len(bodies) + 1] = body
<1>1. Len(bodies) \in Nat /\ DOMAIN bodies = 1 .. Len(bodies)
    BY SeqFacts, Zenon
<1> DEFINE p == Append(bodies, body)
<1>2. /\ p \in Seq(Bodies) /\ Len(p) = Len(bodies) + 1 /\ p[Len(bodies) + 1] = body
      /\ \A b \in 1 .. Len(bodies) : p[b] = bodies[b]
    BY SeqAppend, SMT
<1>3. bodies' = p
    OBVIOUS
<1> HIDE DEF p
<1> QED
    BY <1>1, <1>2, <1>3, Zenon

\* What a batch writes for its answers to forced transactions or to receipts.
LEMMA BatchHistories ==
    ASSUME Histories, Batch
    PROVE  Histories'
<1>1. PICK body \in Bodies :
        /\ \E fs \in Answers(forced, answered), rs \in Answers(receipts, accounted) :
             /\ Answerable(body, Terminal(body, Opening), fs, rs)
             /\ answered' = answered \o [i \in DOMAIN fs |-> Outcome(fs[i])]
             /\ accounted' = accounted \o [i \in DOMAIN rs |-> Outcome(rs[i])]
        /\ bodies' = Append(bodies, body)
    BY Zenon DEF Batch
<1>2. PICK fs \in Answers(forced, answered), rs \in Answers(receipts, accounted) :
        /\ answered' = answered \o [i \in DOMAIN fs |-> Outcome(fs[i])]
        /\ accounted' = accounted \o [i \in DOMAIN rs |-> Outcome(rs[i])]
    BY <1>1, Zenon
<1>3. bodies' \in Seq(Bodies) /\ Len(bodies') = Len(bodies) + 1 /\ Len(bodies) \in Nat
    BY <1>1, BodyAppended DEF Histories
<1>4. Said' = [status : Statuses, batch : 1 .. Len(bodies) + 1]
    BY <1>3 DEF Said, Statuses
<1>5. /\ Len(forced) \in Nat /\ Len(answered) \in Nat
      /\ Len(receipts) \in Nat /\ Len(accounted) \in Nat
    BY SeqFacts DEF Histories
<1>6. answered' \in Seq(Said') /\ Len(answered') <= Len(forced)
  <2>1. /\ fs \in Seq(Statuses) /\ Len(fs) \in Nat
        /\ Len(answered) + Len(fs) <= Len(forced)
    BY <1>2, <1>5, AnswersAreSequences
  <2>2. /\ answered' \in Seq([status : Statuses, batch : 1 .. Len(bodies) + 1])
        /\ Len(answered') = Len(answered) + Len(fs)
    BY <1>2, <1>3, <2>1, OutcomesWritten, Zenon DEF Histories
  <2>3. answered' \in Seq(Said')
    BY <1>4, <2>2
  <2> QED
    BY <2>1, <2>2, <2>3
<1>7. accounted' \in Seq(Said') /\ Len(accounted') <= Len(receipts)
  <2>1. /\ rs \in Seq(Statuses) /\ Len(rs) \in Nat
        /\ Len(accounted) + Len(rs) <= Len(receipts)
    BY <1>2, <1>5, AnswersAreSequences
  <2>2. /\ accounted' \in Seq([status : Statuses, batch : 1 .. Len(bodies) + 1])
        /\ Len(accounted') = Len(accounted) + Len(rs)
    BY <1>2, <1>3, <2>1, OutcomesWritten, Zenon DEF Histories
  <2>3. accounted' \in Seq(Said')
    BY <1>4, <2>2
  <2> QED
    BY <2>1, <2>2, <2>3
<1>8. forced' = forced /\ receipts' = receipts
    BY DEF Batch
<1> QED
    BY <1>3, <1>6, <1>7, <1>8 DEF Histories

\* Every step keeps the types of the histories.
LEMMA HistoriesNext == Histories /\ [Next]_vars => Histories'
<1> SUFFICES ASSUME Histories, [Next]_vars PROVE Histories'
    OBVIOUS
<1>1. CASE Batch
    BY <1>1, BatchHistories
<1>2. CASE ForceTransaction
  <2>1. PICK tx \in Requested : forced' = Append(forced, tx)
    BY <1>2 DEF ForceTransaction
  <2>2. forced' \in Seq(Txs) /\ Len(forced') = Len(forced) + 1 /\ Len(forced) \in Nat
    BY <2>1, RequestedAssumption, SeqAppend, SeqFacts DEF Histories
  <2>3. Len(answered) \in Nat
    BY SeqFacts DEF Histories
  <2> QED
    BY <1>2, <2>2, <2>3 DEF ForceTransaction, Histories, Said
<1>3. CASE SignReceipt
  <2>1. PICK tx \in Requested, maximum \in (Len(bodies) + 1) .. MaxBatches :
          receipts' = Append(receipts, [tx |-> tx, maximum |-> maximum])
    BY <1>3 DEF SignReceipt
  <2>2. Len(bodies) \in Nat /\ Len(accounted) \in Nat /\ Len(receipts) \in Nat
    BY SeqFacts DEF Histories
  <2>3. [tx |-> tx, maximum |-> maximum] \in [tx : Txs, maximum : Nat]
    BY <2>1, <2>2, RequestedAssumption, BoundAssumption
  <2>4. receipts' \in Seq([tx : Txs, maximum : Nat]) /\ Len(receipts') = Len(receipts) + 1
    BY <2>1, <2>3, SeqAppend DEF Histories
  <2> QED
    BY <1>3, <2>2, <2>4 DEF SignReceipt, Histories, Said
<1>4. CASE UNCHANGED vars
    BY <1>4 DEF vars, Histories, Said
<1> QED
    BY <1>1, <1>2, <1>3, <1>4 DEF Next

\* A sequence, of whatever its elements are.
IsSeq(s) == s \in Seq({s[i] : i \in DOMAIN s})

\* Appending to it.
LEMMA AppendAny ==
    ASSUME NEW s, IsSeq(s), NEW x
    PROVE  /\ IsSeq(Append(s, x)) /\ Len(s) \in Nat /\ Len(Append(s, x)) = Len(s) + 1
           /\ Append(s, x)[Len(s) + 1] = x
           /\ \A i \in 1 .. Len(s) : Append(s, x)[i] = s[i]
<1> DEFINE S == {s[i] : i \in DOMAIN s}
           T == S \cup {x}
           p == Append(s, x)
           n == Len(s) + 1
<1>1. s \in Seq(S) /\ S \subseteq T /\ x \in T
    BY DEF IsSeq
<1> HIDE DEF S, T
<1>2. s \in Seq(T) /\ Len(s) \in Nat
    BY <1>1, SeqWidens, SeqFacts
<1>3. /\ p \in Seq(T) /\ Len(p) = n /\ p[Len(s) + 1] = x
      /\ \A i \in 1 .. Len(s) : p[i] = s[i]
    BY <1>1, <1>2, SeqAppend
<1> HIDE DEF p
<1>4. p \in [1 .. n -> T] /\ DOMAIN p = 1 .. n /\ n \in Nat
  <2>1. p \in [1 .. Len(p) -> T]
    BY <1>3, SMT
  <2> QED
    BY <1>2, <1>3, <2>1
<1> HIDE DEF n
<1>5. p \in [1 .. n -> {p[i] : i \in DOMAIN p}]
    BY <1>4, Zenon
<1>6. IsSeq(p)
    BY <1>4, <1>5, SeqMade, Zenon DEF IsSeq
<1> QED
    BY <1>2, <1>3, <1>6 DEF p, n

\* The room keeps the state that every batch left, and the one it opened with.
Kept == IsSeq(room) /\ Len(room) = Len(bodies) + 1

\* Every step keeps them.
LEMMA KeptNext == Histories /\ Kept /\ [Next]_vars => Kept'
<1> SUFFICES ASSUME Histories, Kept, [Next]_vars PROVE Kept'
    OBVIOUS
<1>1. CASE Batch
  <2>1. PICK body \in Bodies :
          /\ room' = Append(room, Terminal(body, Opening))
          /\ bodies' = Append(bodies, body)
    BY <1>1, Zenon DEF Batch
  <2>2. Len(bodies') = Len(bodies) + 1 /\ Len(bodies) \in Nat
    BY <2>1, BodyAppended DEF Histories
  <2> DEFINE terminal == Terminal(body, Opening)
  <2> HIDE DEF terminal
  <2>3. IsSeq(Append(room, terminal)) /\ Len(Append(room, terminal)) = Len(room) + 1
    BY AppendAny, Zenon DEF Kept
  <2>4. IsSeq(room') /\ Len(room') = Len(room) + 1
    BY <2>1, <2>3, Zenon DEF terminal
  <2> QED
    BY <2>2, <2>4 DEF Kept
<1>2. CASE UNCHANGED <<room, bodies>>
    BY <1>2, Zenon DEF Kept, IsSeq
<1> QED
    BY <1>1, <1>2, Zenon DEF Next, ForceTransaction, SignReceipt, vars

\* A status said of a forced transaction, or of the transaction of a receipt, by
\* the batch with this body.
Ran(body, tx, status) == \E i \in DOMAIN body : body[i] = [tx |-> tx, status |-> status]

ForcedTrue(body, left, tx, status) ==
    IF status = "rejected"
    THEN ~ (tx.entry = "member" /\ tx.sender \in Callers(body) /\ Payable(tx, left))
    ELSE Ran(body, tx, status)

ReceiptTrue(body, tx, status) ==
    IF status = "rejected"
    THEN \A s \in {"success", "reverted"} : ~Ran(body, tx, s)
    ELSE Ran(body, tx, status)

\* AnswersTrue, an entry at a time.
EachTrue ==
    /\ \A i \in 1 .. Len(answered) :
         ForcedTrue(bodies[answered[i].batch], room[answered[i].batch + 1], forced[i],
                    answered[i].status)
    /\ \A i \in 1 .. Len(accounted) :
         ReceiptTrue(bodies[accounted[i].batch], receipts[i].tx, accounted[i].status)

\* AnswersTrue, one answer at a time.
LEMMA TrueInPieces == Histories => (AnswersTrue <=> EachTrue)
<1> SUFFICES ASSUME Histories PROVE AnswersTrue <=> EachTrue
    OBVIOUS
<1>1. DOMAIN answered = 1 .. Len(answered) /\ DOMAIN accounted = 1 .. Len(accounted)
    BY SeqFacts DEF Histories
<1> QED
    BY <1>1 DEF AnswersTrue, EachTrue, ForcedTrue, ReceiptTrue, RanIn, Ran, CouldFollow

\* The conditions of validate_admissions_v5 make the answers of a batch true.
LEMMA NewAnswerTrue ==
    ASSUME NEW body, NEW tx, NEW status, NEW terminal, NEW receipt, NEW index
    PROVE  /\ ForcedAnswer(body, terminal, tx, status) =>
                ForcedTrue(body, terminal, tx, status)
           /\ ReceiptAnswer(body, index, receipt, status) => ReceiptTrue(body, receipt.tx, status)
<1>1. ASSUME NEW t
      PROVE  (\A i \in DOMAIN body : body[i].tx # t) => \A s : ~Ran(body, t, s)
    BY DEF Ran
<1>2. ASSUME NEW t
      PROVE  Processed(body, t, status) => status = "rejected" \/ Ran(body, t, status)
    BY DEF Processed, Ran
<1> QED
    BY <1>1, <1>2 DEF ForcedAnswer, ForcedRejection, AllowsEntry, Decodes, ForcedTrue,
                      ReceiptAnswer, ReceiptTrue

\* The answers of a batch are true, and it does not touch the bodies that earlier
\* answers are about.
LEMMA BatchTrue ==
    ASSUME Histories, Kept, EachTrue, Batch
    PROVE  EachTrue'
<1>1. PICK body \in Bodies :
        /\ \E fs \in Answers(forced, answered), rs \in Answers(receipts, accounted) :
             /\ Answerable(body, Terminal(body, Opening), fs, rs)
             /\ answered' = answered \o [i \in DOMAIN fs |-> Outcome(fs[i])]
             /\ accounted' = accounted \o [i \in DOMAIN rs |-> Outcome(rs[i])]
        /\ room' = Append(room, Terminal(body, Opening))
        /\ bodies' = Append(bodies, body)
    BY Zenon DEF Batch
<1>2. PICK fs \in Answers(forced, answered), rs \in Answers(receipts, accounted) :
        /\ Answerable(body, Terminal(body, Opening), fs, rs)
        /\ answered' = answered \o [i \in DOMAIN fs |-> Outcome(fs[i])]
        /\ accounted' = accounted \o [i \in DOMAIN rs |-> Outcome(rs[i])]
    BY <1>1, Zenon
<1> DEFINE terminal == Terminal(body, Opening)
<1>3. /\ Len(bodies) \in Nat
      /\ \A b \in 1 .. Len(bodies) : bodies'[b] = bodies[b]
      /\ bodies'[Len(bodies) + 1] = body
    BY <1>1, BodyAppended DEF Histories
<1>4. /\ Len(forced) \in Nat /\ Len(answered) \in Nat
      /\ Len(receipts) \in Nat /\ Len(accounted) \in Nat
    BY SeqFacts DEF Histories
<1>5. fs \in Seq(Statuses) /\ rs \in Seq(Statuses)
    BY <1>2, <1>4, AnswersAreSequences
<1>6. /\ \A i \in DOMAIN fs : ForcedAnswer(body, terminal, forced[Len(answered) + i], fs[i])
      /\ \A i \in DOMAIN rs :
           ReceiptAnswer(body, Len(bodies) + 1, receipts[Len(accounted) + i], rs[i])
    BY <1>2 DEF Answerable
<1> HIDE DEF terminal
<1>7. Histories' /\ forced' = forced /\ receipts' = receipts
    BY BatchHistories, Zenon DEF Batch
<1>8. /\ DOMAIN answered' = 1 .. Len(answered') /\ DOMAIN accounted' = 1 .. Len(accounted')
      /\ \A i \in 1 .. Len(answered) : answered[i].batch \in 1 .. Len(bodies)
      /\ \A i \in 1 .. Len(accounted) : accounted[i].batch \in 1 .. Len(bodies)
  <2>1. /\ \A i \in 1 .. Len(answered) : answered[i] \in Said
        /\ \A i \in 1 .. Len(accounted) : accounted[i] \in Said
    BY SeqFacts DEF Histories
  <2> QED
    BY <1>7, <2>1, SeqFacts, SMTT(30) DEF Histories, Said
<1>9. /\ \A b \in 1 .. Len(bodies) : room'[b + 1] = room[b + 1]
      /\ room'[Len(bodies) + 1 + 1] = terminal
  <2>1. room' = Append(room, terminal)
    BY <1>1, Zenon DEF terminal
  <2>2. /\ room'[Len(room) + 1] = terminal
        /\ \A i \in 1 .. Len(room) : room'[i] = room[i]
    BY <2>1, AppendAny, Zenon DEF Kept
  <2>3. Len(room) = Len(bodies) + 1
    BY Zenon DEF Kept
  <2>4. ASSUME NEW b \in 1 .. Len(bodies) PROVE b + 1 \in 1 .. Len(room)
    BY <1>3, <2>3
  <2> QED
    BY <2>2, <2>3, <2>4, Zenon
<1>10. ASSUME NEW i \in 1 .. Len(answered')
       PROVE  ForcedTrue(bodies'[answered'[i].batch], room'[answered'[i].batch + 1], forced[i],
                         answered'[i].status)
  <2>1. /\ \A j \in 1 .. Len(answered) : answered'[j] = answered[j]
        /\ Written(answered, fs, answered')
    <3>1. answered \in Seq(Said) /\ answered' = answered \o [n \in DOMAIN fs |-> Outcome(fs[n])]
      BY <1>2 DEF Histories
    <3>2. fs \in Seq(Statuses) /\ Len(bodies) \in Nat
      BY <1>3, <1>5
    <3> QED
      BY <3>1, <3>2, OutcomesWritten, Zenon
  <2>2. CASE i \in 1 .. Len(answered)
    <3>1. /\ bodies'[answered[i].batch] = bodies[answered[i].batch]
          /\ room'[answered[i].batch + 1] = room[answered[i].batch + 1]
      BY <1>3, <1>8, <1>9, <2>2, Zenon
    <3> QED
      BY <2>1, <2>2, <3>1 DEF EachTrue
  <2>3. CASE i \notin 1 .. Len(answered)
    <3> DEFINE j == i - Len(answered)
    <3>1. j \in DOMAIN fs /\ answered'[i] = [status |-> fs[j], batch |-> Len(bodies) + 1]
      BY <1>8, <2>1, <2>3 DEF Written
    <3>2. Len(answered) + j = i
      BY <1>4
    <3> HIDE DEF j
    <3>3. ForcedTrue(body, terminal, forced[i], fs[j])
      BY <1>6, <3>1, <3>2, NewAnswerTrue, Zenon
    <3>4. answered'[i].status = fs[j] /\ answered'[i].batch = Len(bodies) + 1
      BY <3>1
    <3>5. ASSUME NEW b, b = Len(bodies) + 1
          PROVE  bodies'[b] = body /\ room'[b + 1] = terminal
      BY <1>3, <1>9, <3>5, Zenon
    <3> QED
      BY <3>3, <3>4, <3>5, Zenon
  <2> QED
    BY <2>2, <2>3
<1>11. ASSUME NEW i \in 1 .. Len(accounted')
       PROVE  ReceiptTrue(bodies'[accounted'[i].batch], receipts[i].tx, accounted'[i].status)
  <2>1. /\ \A j \in 1 .. Len(accounted) : accounted'[j] = accounted[j]
        /\ Written(accounted, rs, accounted')
    <3>1. accounted \in Seq(Said) /\ accounted' = accounted \o [n \in DOMAIN rs |-> Outcome(rs[n])]
      BY <1>2 DEF Histories
    <3>2. rs \in Seq(Statuses) /\ Len(bodies) \in Nat
      BY <1>3, <1>5
    <3> QED
      BY <3>1, <3>2, OutcomesWritten, Zenon
  <2>2. CASE i \in 1 .. Len(accounted)
    <3>1. bodies'[accounted[i].batch] = bodies[accounted[i].batch]
      BY <1>3, <1>8, <2>2
    <3> QED
      BY <2>1, <2>2, <3>1 DEF EachTrue
  <2>3. CASE i \notin 1 .. Len(accounted)
    <3> DEFINE j == i - Len(accounted)
    <3>1. j \in DOMAIN rs /\ accounted'[i] = [status |-> rs[j], batch |-> Len(bodies) + 1]
      BY <1>8, <2>1, <2>3 DEF Written
    <3>2. Len(accounted) + j = i
      BY <1>4
    <3> HIDE DEF j
    <3>3. ReceiptTrue(body, receipts[i].tx, rs[j])
      <4>1. ReceiptAnswer(body, Len(bodies) + 1, receipts[i], rs[j])
        BY <1>6, <3>1, <3>2
      <4> QED
        BY <4>1, NewAnswerTrue, Zenon
    <3>4. bodies'[accounted'[i].batch] = body /\ accounted'[i].status = rs[j]
      BY <1>3, <3>1
    <3> QED
      BY <3>3, <3>4
  <2> QED
    BY <2>2, <2>3
<1> QED
    BY <1>7, <1>10, <1>11 DEF EachTrue

\* A success or a failure said of a forced or admitted transaction is an execution
\* of it in the batch that says so, a forced transaction said to be rejected could
\* not follow that batch, and a receipt said to be rejected was not run by it: for
\* any composer, any transactions and any number of batches.
THEOREM AnswersAreTrue == Spec => []AnswersTrue
<1>1. Init => Histories /\ Kept /\ EachTrue
  <2> SUFFICES ASSUME Init PROVE Histories /\ Kept /\ EachTrue
    OBVIOUS
  <2>1. \A S : <<>> \in Seq(S) /\ Len(<<>>) = 0
    BY SeqNone
  <2>2. Histories /\ EachTrue
    BY <2>1 DEF Init, Histories, EachTrue
  <2>3. IsSeq(room) /\ Len(room) = 1 /\ Len(bodies) = 0
    BY <2>1 DEF Init, IsSeq
  <2> QED
    BY <2>1, <2>2, <2>3 DEF Kept
<1>2. Histories /\ Kept /\ EachTrue /\ [Next]_vars => EachTrue'
  <2> SUFFICES ASSUME Histories, Kept, EachTrue, [Next]_vars PROVE EachTrue'
    OBVIOUS
  <2>1. CASE Batch
    BY <2>1, BatchTrue
  <2>2. CASE ForceTransaction
    <3>1. PICK tx \in Requested : forced' = Append(forced, tx)
      BY <2>2 DEF ForceTransaction
    <3>2. \A i \in 1 .. Len(forced) : forced'[i] = forced[i]
      BY <3>1, RequestedAssumption, SeqAppend DEF Histories
    <3>3. Len(answered) \in Nat /\ Len(forced) \in Nat /\ Len(answered) <= Len(forced)
      BY SeqFacts DEF Histories
    <3>4. \A i \in 1 .. Len(answered) : forced'[i] = forced[i]
      BY <3>2, <3>3
    <3> QED
      BY <2>2, <3>4, Zenon DEF ForceTransaction, EachTrue
  <2>3. CASE SignReceipt
    <3>1. PICK r : receipts' = Append(receipts, r)
      BY <2>3 DEF SignReceipt
    <3>2. \A i \in 1 .. Len(receipts) : receipts'[i] = receipts[i]
      BY <3>1 DEF Histories
    <3>3. Len(accounted) \in Nat /\ Len(receipts) \in Nat /\ Len(accounted) <= Len(receipts)
      BY SeqFacts DEF Histories
    <3>4. \A i \in 1 .. Len(accounted) : receipts'[i] = receipts[i]
      BY <3>2, <3>3
    <3> QED
      BY <2>3, <3>4, Zenon DEF SignReceipt, EachTrue
  <2>4. CASE UNCHANGED vars
    BY <2>4 DEF vars, EachTrue
  <2> QED
    BY <2>1, <2>2, <2>3, <2>4 DEF Next
<1> QED
    BY <1>1, <1>2, HistoriesNext, KeptNext, TrueInPieces, PTL DEF Spec

-----------------------------------------------------------------------------
(* One transaction *)

States == [nonce : [Senders -> Nat], balance : [Senders -> Int]]

\* The members of Bodies are sequences of executions.
LEMMA BodyShape ==
    ASSUME NEW body \in Bodies
    PROVE  /\ Len(body) \in Nat /\ DOMAIN body = 1 .. Len(body)
           /\ \A i \in 1 .. Len(body) :
                /\ body[i] \in Executions
                /\ body[i].tx.sender \in Senders /\ body[i].tx.nonce \in Nat /\ body[i].tx.value \in Nat
<1>1. PICK n \in 1 .. MaxTxs : body \in [1 .. n -> Executions]
    BY DEF Bodies
<1>2. n \in Nat
    BY <1>1, BoundAssumption
<1>3. Len(body) = n /\ DOMAIN body = 1 .. n
  <2>1. body \in Seq(Executions)
    BY <1>1, <1>2, SeqMade
  <2> QED
    BY <1>1, <1>2, <2>1, SeqFacts
<1>4. \A e \in Executions : e.tx.sender \in Senders /\ e.tx.nonce \in Nat /\ e.tx.value \in Nat
    BY TxAssumption DEF Executions
<1> QED
    BY <1>1, <1>2, <1>3, <1>4

\* An execution raises the nonce of its sender by one and leaves the others.
LEMMA ExecutedNonce ==
    ASSUME NEW e \in Executions, NEW state \in States
    PROVE  /\ Executed(e, state) \in States
           /\ Executed(e, state).nonce[e.tx.sender] = state.nonce[e.tx.sender] + 1
           /\ \A s \in Senders : s # e.tx.sender =>
                Executed(e, state).nonce[s] = state.nonce[s]
<1>1. e.tx.sender \in Senders /\ e.tx.value \in Nat
    BY TxAssumption DEF Executions
<1> DEFINE taken == IF e.status = "success" THEN state.balance[e.tx.sender] - e.tx.value
                    ELSE state.balance[e.tx.sender]
<1>2. taken \in Int
    BY <1>1 DEF States
<1>3. Executed(e, state) = [nonce |-> [state.nonce EXCEPT ![e.tx.sender] = @ + 1],
                            balance |-> [state.balance EXCEPT ![e.tx.sender] = taken]]
  <2>1. state.balance \in [Senders -> Int]
    BY DEF States
  <2> QED
    BY <1>1, <2>1 DEF Executed
<1> HIDE DEF taken
<1>4. /\ [state.nonce EXCEPT ![e.tx.sender] = @ + 1] \in [Senders -> Nat]
      /\ [state.balance EXCEPT ![e.tx.sender] = taken] \in [Senders -> Int]
    BY <1>1, <1>2 DEF States
<1>5. Executed(e, state) \in States
    BY <1>3, <1>4 DEF States
<1>6. Executed(e, state).nonce = [state.nonce EXCEPT ![e.tx.sender] = @ + 1]
    BY <1>3
<1>7. state.nonce \in [Senders -> Nat]
    BY DEF States
<1> HIDE DEF taken
<1> QED
    BY <1>1, <1>5, <1>6, <1>7

\* An execution that the nonce check admits uses up its nonce.
LEMMA NonceSpent ==
    ASSUME NEW e \in Executions, NEW state \in States, state.nonce[e.tx.sender] = e.tx.nonce
    PROVE  /\ \A s \in Senders : /\ state.nonce[s] \in Nat /\ Executed(e, state).nonce[s] \in Nat
                                 /\ state.nonce[s] <= Executed(e, state).nonce[s]
           /\ e.tx.nonce < Executed(e, state).nonce[e.tx.sender]
<1>1. e.tx.sender \in Senders
    BY TxAssumption DEF Executions
<1>2. \A st \in States, s \in Senders : st.nonce[s] \in Nat
    BY DEF States
<1>3. Executed(e, state) \in States
    BY ExecutedNonce
<1>4. ASSUME NEW s \in Senders
      PROVE  state.nonce[s] <= Executed(e, state).nonce[s]
  <2>1. CASE s = e.tx.sender
    BY <1>2, <2>1, ExecutedNonce
  <2>2. CASE s # e.tx.sender
    BY <1>2, <2>2, ExecutedNonce
  <2> QED
    BY <2>1, <2>2
<1>5. e.tx.nonce < Executed(e, state).nonce[e.tx.sender]
    BY <1>1, <1>2, ExecutedNonce, SMTT(30)
<1> QED
    BY <1>2, <1>3, <1>4, <1>5, SMTT(30)

\* What holds of the state after i executions of a body: nonces only grew, past
\* every nonce that was used.
Grown(i, body, opening, state) ==
    /\ state \in States
    /\ \A s \in Senders : opening.nonce[s] <= state.nonce[s]
    /\ \A j \in 1 .. i : body[j].tx.nonce < state.nonce[body[j].tx.sender]

\* An executed transaction uses up one nonce of its sender.
LEMMA GrownStep ==
    ASSUME NEW body \in Bodies, NEW opening \in States, NEW i \in 1 .. Len(body), NEW state,
           Grown(i - 1, body, opening, state), Payable(body[i].tx, state)
    PROVE  Grown(i, body, opening, Executed(body[i], state))
<1> DEFINE after == Executed(body[i], state)
<1>1. /\ Len(body) \in Nat
      /\ \A j \in 1 .. Len(body) :
           body[j] \in Executions /\ body[j].tx.sender \in Senders /\ body[j].tx.nonce \in Nat
    BY BodyShape
<1>2. state \in States /\ state.nonce[body[i].tx.sender] = body[i].tx.nonce
    BY DEF Grown, Payable
<1>3. /\ after \in States /\ body[i].tx.nonce < after.nonce[body[i].tx.sender]
      /\ \A s \in Senders : /\ state.nonce[s] \in Nat /\ after.nonce[s] \in Nat
                            /\ state.nonce[s] <= after.nonce[s]
    BY <1>1, <1>2, ExecutedNonce, NonceSpent, Zenon
<1> HIDE DEF after
<1>4. ASSUME NEW s \in Senders PROVE opening.nonce[s] <= after.nonce[s]
  <2>1. opening.nonce[s] \in Nat /\ opening.nonce[s] <= state.nonce[s]
    BY DEF States, Grown
  <2> QED
    BY <1>3, <2>1
<1>5. ASSUME NEW j \in 1 .. i PROVE body[j].tx.nonce < after.nonce[body[j].tx.sender]
  <2>1. CASE j = i
    BY <1>3, <2>1, SMTT(30)
  <2>2. CASE j # i
    <3>1. j \in 1 .. i - 1 /\ j \in 1 .. Len(body)
      BY <1>1, <2>2
    <3>2. /\ body[j].tx.nonce < state.nonce[body[j].tx.sender]
          /\ body[j].tx.nonce \in Nat /\ body[j].tx.sender \in Senders
      BY <1>1, <3>1 DEF Grown
    <3> QED
      BY <1>3, <3>2, SMTT(30)
  <2> QED
    BY <2>1, <2>2
<1> QED
    BY <1>3, <1>4, <1>5 DEF Grown, after

\* The funds of a sender cover what it spends, and a nonce counts executions.
Solvent(i, opening, state) ==
    /\ state \in States
    /\ \A s \in Senders : /\ state.balance[s] \in Nat
                          /\ state.nonce[s] <= opening.nonce[s] + i

\* An execution that the checks of the EVM admit leaves no debt.
LEMMA SolventStep ==
    ASSUME NEW opening \in States, NEW i \in Nat, NEW state, Solvent(i, opening, state),
           NEW e \in Executions, Payable(e.tx, state)
    PROVE  Solvent(i + 1, opening, Executed(e, state))
<1> DEFINE after == Executed(e, state)
<1>1. e.tx.sender \in Senders /\ e.tx.value \in Nat
    BY TxAssumption DEF Executions
<1>2. state \in States /\ after \in States
    BY ExecutedNonce DEF Solvent
<1>3. /\ after.nonce[e.tx.sender] = state.nonce[e.tx.sender] + 1
      /\ \A s \in Senders : s # e.tx.sender => after.nonce[s] = state.nonce[s]
    BY <1>2, ExecutedNonce
<1>4. /\ after.balance[e.tx.sender] \in {state.balance[e.tx.sender] - e.tx.value,
                                         state.balance[e.tx.sender]}
      /\ \A s \in Senders : s # e.tx.sender => after.balance[s] = state.balance[s]
  <2>1. state.balance \in [Senders -> Int]
    BY <1>2 DEF States
  <2> QED
    BY <1>1, <2>1 DEF Executed
<1> HIDE DEF after
<1>5. state.balance[e.tx.sender] >= e.tx.value
    BY DEF Payable
<1>6. ASSUME NEW s \in Senders
      PROVE  after.balance[s] \in Nat /\ after.nonce[s] <= opening.nonce[s] + (i + 1)
  <2>1. /\ state.balance[s] \in Nat /\ state.nonce[s] <= opening.nonce[s] + i
        /\ opening.nonce[s] \in Nat /\ state.nonce[s] \in Nat
    BY <1>2 DEF Solvent, States
  <2>2. CASE s = e.tx.sender
    BY <1>1, <1>3, <1>4, <1>5, <2>1, <2>2, SMTT(30)
  <2>3. CASE s # e.tx.sender
    BY <1>3, <1>4, <2>1, <2>3
  <2> QED
    BY <2>2, <2>3
<1> QED
    BY <1>2, <1>6 DEF Solvent, after

-----------------------------------------------------------------------------
(* The states inside a body *)

INSTANCE WellFoundedInduction

\* A non-empty set of naturals has a least member.
LEMMA LeastNat ==
    ASSUME NEW T \in SUBSET Nat, T # {}
    PROVE  \E n \in T : \A m \in T : n <= m
<1>1. PICK n \in T : \A m \in T : <<m, n>> \notin OpToRel(<, Nat)
    BY NatLessThanWellFounded, WFMin, Zenon
<1>2. \A m \in T : ~ (m < n)
    BY <1>1, Zenon DEF OpToRel
<1> QED
    BY <1>2

\* The functions that StateAfter chooses among.
Steps(f, n, body, opening) ==
    f = [i \in 0 .. n |-> IF i = 0 THEN opening ELSE Executed(body[i], f[i - 1])]

\* The states inside a body exist up to every position.
LEMMA StepsExist ==
    ASSUME NEW body, NEW opening, NEW n \in Nat
    PROVE  \E f : Steps(f, n, body, opening)
<1> DEFINE Stuck == {m \in Nat : ~ \E f : Steps(f, m, body, opening)}
<1> SUFFICES ASSUME Stuck # {} PROVE FALSE
    OBVIOUS
<1>1. PICK m \in Stuck : \A k \in Stuck : m <= k
    BY LeastNat, Zenon
<1>2. CASE m = 0
  <2>1. Steps([i \in 0 .. 0 |-> opening], 0, body, opening)
    BY DEF Steps
  <2> QED
    BY <1>1, <1>2, <2>1
<1>3. CASE m # 0
  <2>1. m - 1 \in Nat /\ m - 1 \notin Stuck
    BY <1>1, <1>3, SMTT(30)
  <2>2. PICK f : Steps(f, m - 1, body, opening)
    BY <2>1
  <2> DEFINE g == [i \in 0 .. m |-> IF i = m THEN Executed(body[m], f[m - 1]) ELSE f[i]]
  <2>3. ASSUME NEW i \in 0 .. m
        PROVE  g[i] = IF i = 0 THEN opening ELSE Executed(body[i], g[i - 1])
    <3>1. CASE i = m
      BY <1>3, <3>1, SMTT(30)
    <3>2. CASE i # m
      <4>1. i \in 0 .. m - 1 /\ g[i] = f[i] /\ (i # 0 => i - 1 \in 0 .. m - 1 /\ g[i - 1] = f[i - 1])
        BY <1>1, <1>3, <3>2, SMTT(30)
      <4>2. f[i] = IF i = 0 THEN opening ELSE Executed(body[i], f[i - 1])
        BY <2>2, <4>1, SMTT(30) DEF Steps
      <4> HIDE DEF g
      <4> QED
        BY <4>1, <4>2
    <3> QED
      BY <3>1, <3>2
  <2>4. Steps(g, m, body, opening)
    BY <2>3 DEF Steps
  <2> QED
    BY <1>1, <2>4
<1> QED
    BY <1>2, <1>3

\* The recursive function of the model is these states.
LEMMA StateAfterSteps ==
    ASSUME NEW body, NEW opening, Len(body) \in Nat
    PROVE  /\ StateAfter(body, opening)[0] = opening
           /\ \A i \in 1 .. Len(body) :
                StateAfter(body, opening)[i] = Executed(body[i], StateAfter(body, opening)[i - 1])
<1> DEFINE sa == StateAfter(body, opening)
<1>1. \E f : Steps(f, Len(body), body, opening)
    BY StepsExist
<1>2. Steps(sa, Len(body), body, opening)
    BY <1>1, Zenon DEF Steps, StateAfter
<1> HIDE DEF sa
<1>3. sa[0] = opening /\ \A i \in 1 .. Len(body) : sa[i] = Executed(body[i], sa[i - 1])
    BY <1>2 DEF Steps
<1> QED
    BY <1>3 DEF sa

-----------------------------------------------------------------------------
(* Nonces *)

\* Inside a body that can be executed nonces only grow.
LEMMA NoncesGrow ==
    ASSUME NEW body \in Bodies, NEW opening \in States, Executable(body, opening)
    PROVE  \A i \in 0 .. Len(body) : Grown(i, body, opening, StateAfter(body, opening)[i])
<1> DEFINE sa == StateAfter(body, opening)
           Bad == {i \in 0 .. Len(body) : ~Grown(i, body, opening, sa[i])}
<1>1. Len(body) \in Nat /\ DOMAIN body = 1 .. Len(body)
    BY BodyShape
<1>2. sa[0] = opening /\ \A i \in 1 .. Len(body) : sa[i] = Executed(body[i], sa[i - 1])
    BY <1>1, StateAfterSteps
<1>3. \A i \in 1 .. Len(body) : Payable(body[i].tx, sa[i - 1])
    BY <1>1 DEF Executable
<1> HIDE DEF sa
<1>4. Grown(0, body, opening, sa[0])
    BY <1>2 DEF Grown, States
<1> SUFFICES ASSUME Bad # {} PROVE FALSE
    BY DEF sa
<1>5. PICK i \in Bad : \A k \in Bad : i <= k
  <2>1. Bad \in SUBSET Nat
    BY <1>1
  <2> HIDE DEF Bad
  <2> QED
    BY <2>1, LeastNat
<1>6. i \in 0 .. Len(body) /\ ~Grown(i, body, opening, sa[i])
    BY <1>5
<1>7. i \in 1 .. Len(body) /\ i - 1 \in 0 .. Len(body) /\ ~ (i <= i - 1)
    BY <1>1, <1>4, <1>6
<1>8. Grown(i - 1, body, opening, sa[i - 1])
    BY <1>5, <1>7, SMTT(30)
<1> QED
    BY <1>2, <1>3, <1>6, <1>7, <1>8, GrownStep, SMTT(30)

\* In a body a sender uses ever larger nonces, none below that of the opening state.
LEMMA BodyNonces ==
    ASSUME NEW body \in Bodies, NEW opening \in States, Executable(body, opening),
           NEW j \in 1 .. Len(body)
    PROVE  /\ opening.nonce[body[j].tx.sender] <= body[j].tx.nonce
           /\ \A i \in 1 .. j - 1 :
                body[i].tx.sender = body[j].tx.sender => body[i].tx.nonce < body[j].tx.nonce
<1> DEFINE state == StateAfter(body, opening)[j - 1]
<1>1. Len(body) \in Nat /\ DOMAIN body = 1 .. Len(body) /\ body[j].tx.sender \in Senders
    BY BodyShape
<1>2. state.nonce[body[j].tx.sender] = body[j].tx.nonce
    BY <1>1 DEF Executable, Payable
<1>3. Grown(j - 1, body, opening, state)
    BY <1>1, NoncesGrow, SMTT(30)
<1> HIDE DEF state
<1>4. opening.nonce[body[j].tx.sender] <= body[j].tx.nonce
    BY <1>1, <1>2, <1>3, SMTT(30) DEF Grown
<1>5. ASSUME NEW i \in 1 .. j - 1, body[i].tx.sender = body[j].tx.sender
      PROVE  body[i].tx.nonce < body[j].tx.nonce
    BY <1>2, <1>3, <1>5 DEF Grown
<1> QED
    BY <1>4, <1>5

\* Every nonce used so far lies below that of its sender in the current state.
Spent ==
    /\ room \in Seq(States) /\ Len(room) > 0
    /\ \A b \in 1 .. Len(bodies) : \A i \in DOMAIN bodies[b] :
         bodies[b][i].tx.nonce < Opening.nonce[bodies[b][i].tx.sender]

\* Two executions of one sender with one nonce.
Clash(e, f) == e.tx.sender = f.tx.sender /\ e.tx.nonce = f.tx.nonce

\* A batch keeps every executed nonce spent, and executes none twice.
LEMMA SpentBatch ==
    ASSUME Histories, Spent, RanOnce, Batch
    PROVE  Spent' /\ RanOnce'
<1>1. PICK body \in Bodies :
        /\ Executable(body, Opening)
        /\ room' = Append(room, Terminal(body, Opening))
        /\ bodies' = Append(bodies, body)
    BY DEF Batch
<1> DEFINE opening == Opening
           terminal == Terminal(body, opening)
<1>2. opening \in States
    BY SeqFacts DEF Spent, Opening
<1>3. /\ Len(body) \in Nat /\ DOMAIN body = 1 .. Len(body)
      /\ \A i \in 1 .. Len(body) : body[i].tx.sender \in Senders /\ body[i].tx.nonce \in Nat
    BY BodyShape
<1>4. Grown(Len(body), body, opening, terminal)
    BY <1>1, <1>2, <1>3, NoncesGrow, SMTT(30) DEF Terminal
<1>5. terminal \in States
    BY <1>4 DEF Grown
<1>6. /\ Len(bodies) \in Nat /\ Len(bodies') = Len(bodies) + 1
      /\ DOMAIN bodies = 1 .. Len(bodies) /\ DOMAIN bodies' = 1 .. Len(bodies) + 1
      /\ \A b \in 1 .. Len(bodies) : bodies'[b] = bodies[b] /\ bodies[b] \in Bodies
      /\ bodies'[Len(bodies) + 1] = body
  <2>1. bodies' \in Seq(Bodies) /\ bodies \in Seq(Bodies)
    BY <1>1, BodyAppended DEF Histories
  <2>2. \A b \in 1 .. Len(bodies) : bodies[b] \in Bodies
    BY <2>1, SeqFacts
  <2>3. DOMAIN bodies' = 1 .. Len(bodies')
    BY <2>1, SeqFacts, SMTT(30)
  <2> QED
    BY <1>1, <2>1, <2>2, <2>3, BodyAppended, SMTT(30)
<1>7. room' \in Seq(States) /\ Len(room') > 0 /\ Opening' = terminal
  <2>1. room' = Append(room, terminal) /\ room \in Seq(States) /\ Len(room) \in Nat
    BY <1>1, SeqFacts, SMTT(30) DEF Spent
  <2> HIDE DEF terminal
  <2>2. room' \in Seq(States) /\ Len(room') = Len(room) + 1 /\ room'[Len(room) + 1] = terminal
    BY <1>5, <2>1, SeqAppend, SMTT(30)
  <2>3. Opening' = room'[Len(room')]
    BY DEF Opening
  <2> QED
    BY <2>1, <2>2, <2>3, SMTT(30)
<1>8. ASSUME NEW b \in 1 .. Len(bodies), NEW i \in DOMAIN bodies[b]
      PROVE  /\ bodies[b][i].tx.sender \in Senders /\ bodies[b][i].tx.nonce \in Nat
             /\ bodies[b][i].tx.nonce < opening.nonce[bodies[b][i].tx.sender]
    BY <1>6, <1>8, BodyShape, SMTT(30) DEF Spent
<1> HIDE DEF opening, terminal
<1>9. ASSUME NEW b \in 1 .. Len(bodies'), NEW i \in DOMAIN bodies'[b]
      PROVE  bodies'[b][i].tx.nonce < terminal.nonce[bodies'[b][i].tx.sender]
  <2>1. CASE b \in 1 .. Len(bodies)
    <3> DEFINE tx == bodies[b][i].tx
    <3>1. tx.sender \in Senders /\ tx.nonce \in Nat /\ tx.nonce < opening.nonce[tx.sender]
      BY <1>6, <1>8, <2>1, SMTT(30)
    <3>2. /\ opening.nonce[tx.sender] \in Nat /\ terminal.nonce[tx.sender] \in Nat
          /\ opening.nonce[tx.sender] <= terminal.nonce[tx.sender]
      BY <1>2, <1>4, <3>1, Zenon DEF Grown, States
    <3> HIDE DEF tx
    <3>3. tx.nonce < terminal.nonce[tx.sender]
      BY <3>1, <3>2, BelowStays, Zenon
    <3> USE DEF tx
    <3> QED
      BY <1>6, <2>1, <3>3, SMTT(30)
  <2>2. CASE b \notin 1 .. Len(bodies)
    <3>1. bodies'[b] = body /\ i \in 1 .. Len(body)
      BY <1>3, <1>6, <2>2, SMTT(30)
    <3> QED
      BY <1>4, <3>1, SMTT(30) DEF Grown
  <2> QED
    BY <2>1, <2>2, SMTT(30)
<1>10. Spent'
    BY <1>7, <1>9, SMTT(30) DEF Spent
\* An execution of an earlier batch and one of this batch.
<1>11. ASSUME NEW b \in 1 .. Len(bodies), NEW i \in DOMAIN bodies[b], NEW j \in 1 .. Len(body)
       PROVE  ~Clash(bodies[b][i], body[j])
  <2> SUFFICES ASSUME bodies[b][i].tx.sender = body[j].tx.sender
               PROVE  bodies[b][i].tx.nonce # body[j].tx.nonce
    BY DEF Clash
  <2>1. opening.nonce[body[j].tx.sender] <= body[j].tx.nonce
    BY <1>1, <1>2, BodyNonces, SMTT(30) DEF opening
  <2>2. opening.nonce[body[j].tx.sender] \in Nat /\ body[j].tx.nonce \in Nat
    BY <1>2, <1>3, SMTT(30) DEF States
  <2>3. /\ bodies[b][i].tx.nonce \in Nat
        /\ bodies[b][i].tx.nonce < opening.nonce[body[j].tx.sender]
    BY <1>8
  <2> QED
    BY <2>1, <2>2, <2>3, SMTT(30)
\* Two executions of this batch.
<1>12. ASSUME NEW i \in 1 .. Len(body), NEW j \in 1 .. Len(body), i # j
       PROVE  ~Clash(body[i], body[j])
  <2>1. ASSUME NEW m \in 1 .. Len(body), NEW n \in 1 .. Len(body), m < n
        PROVE  ~Clash(body[m], body[n])
    <3>1. m \in 1 .. n - 1
      BY <1>3, <2>1, SMTT(30)
    <3>2. body[m].tx.sender = body[n].tx.sender => body[m].tx.nonce < body[n].tx.nonce
      BY <1>1, <1>2, <3>1, BodyNonces, SMTT(30) DEF opening
    <3> QED
      BY <1>3, <3>2 DEF Clash
  <2>2. CASE i < j
    BY <2>1, <2>2
  <2>3. CASE j < i
    BY <2>1, <2>3 DEF Clash
  <2> QED
    BY <1>3, <1>12, <2>2, <2>3, SMTT(30)
<1>13. RanOnce'
  <2> SUFFICES ASSUME NEW b \in DOMAIN bodies', NEW c \in DOMAIN bodies',
                      NEW i \in DOMAIN bodies'[b], NEW j \in DOMAIN bodies'[c],
                      <<b, i>> # <<c, j>>
               PROVE  ~Clash(bodies'[b][i], bodies'[c][j])
    BY DEF RanOnce, Clash
  <2>1. CASE b \in 1 .. Len(bodies) /\ c \in 1 .. Len(bodies)
    <3>1. bodies'[b] = bodies[b] /\ bodies'[c] = bodies[c]
      BY <1>6, <2>1, SMTT(30)
    <3> QED
      BY <1>6, <2>1, <3>1, SMTT(30) DEF RanOnce, Clash
  <2>2. CASE b \in 1 .. Len(bodies) /\ c \notin 1 .. Len(bodies)
    <3>1. bodies'[b] = bodies[b] /\ bodies'[c] = body
      BY <1>6, <2>2, SMTT(30)
    <3> QED
      BY <1>3, <1>11, <2>2, <3>1, SMTT(30)
  <2>3. CASE b \notin 1 .. Len(bodies) /\ c \in 1 .. Len(bodies)
    <3>1. bodies'[b] = body /\ bodies'[c] = bodies[c]
      BY <1>6, <2>3, SMTT(30)
    <3>2. ~Clash(bodies'[c][j], bodies'[b][i])
      BY <1>3, <1>11, <2>3, <3>1, SMTT(30)
    <3> QED
      BY <3>2 DEF Clash
  <2>4. CASE b \notin 1 .. Len(bodies) /\ c \notin 1 .. Len(bodies)
    <3>1. bodies'[b] = body /\ bodies'[c] = body /\ b = c
      BY <1>6, <2>4
    <3> QED
      BY <1>3, <1>12, <3>1, SMTT(30)
  <2> QED
    BY <2>1, <2>2, <2>3, <2>4, SMTT(30)
<1> QED
    BY <1>10, <1>13

\* No sender ever runs two transactions with one nonce, in one batch or in two:
\* what is forced, admitted and included as well runs once, for any transactions
\* and any number of batches.
THEOREM NothingRunsTwice == Spec => []RanOnce
<1>1. Init => Histories /\ Spent /\ RanOnce
  <2> SUFFICES ASSUME Init PROVE Histories /\ Spent /\ RanOnce
    OBVIOUS
  <2>1. \A S : <<>> \in Seq(S) /\ Len(<<>>) = 0
    BY SeqNone
  <2>2. Histories
    BY <2>1 DEF Init, Histories
  <2>3. room \in Seq(States) /\ Len(room) = 1
    BY BoundAssumption DEF Init, States
  <2> QED
    BY <2>1, <2>2, <2>3, SMTT(30) DEF Init, Spent, RanOnce
<1>2. Histories /\ Spent /\ RanOnce /\ [Next]_vars => Spent' /\ RanOnce'
  <2> SUFFICES ASSUME Histories, Spent, RanOnce, [Next]_vars PROVE Spent' /\ RanOnce'
    OBVIOUS
  <2>1. CASE Batch
    BY <2>1, SpentBatch, SMTT(30)
  <2>2. CASE UNCHANGED <<room, bodies>>
    <3>1. room' = room /\ bodies' = bodies
      BY <2>2, Zenon
    <3>2. Spent'
      BY <3>1, Zenon DEF Spent, Opening
    <3>3. RanOnce'
      BY <3>1 DEF RanOnce
    <3> QED
      BY <3>2, <3>3, Zenon
  <2> QED
    BY <2>1, <2>2 DEF Next, ForceTransaction, SignReceipt, vars
<1> QED
    BY <1>1, <1>2, HistoriesNext, PTL DEF Spec

-----------------------------------------------------------------------------
(* The forced queue *)

\* Inside a body that can be executed nobody runs into debt.
LEMMA BodySolvent ==
    ASSUME NEW body \in Bodies, NEW opening \in States, Executable(body, opening),
           Solvent(0, opening, opening)
    PROVE  Solvent(Len(body), opening, Terminal(body, opening))
<1> DEFINE sa == StateAfter(body, opening)
           Bad == {i \in 0 .. Len(body) : ~Solvent(i, opening, sa[i])}
<1>1. Len(body) \in Nat /\ DOMAIN body = 1 .. Len(body)
    BY BodyShape
<1>2. sa[0] = opening /\ \A i \in 1 .. Len(body) : sa[i] = Executed(body[i], sa[i - 1])
    BY <1>1, StateAfterSteps
<1>3. \A i \in 1 .. Len(body) : Payable(body[i].tx, sa[i - 1]) /\ body[i] \in Executions
    BY <1>1, BodyShape DEF Executable
<1> HIDE DEF sa
<1> SUFFICES ASSUME Bad # {} PROVE FALSE
    BY <1>1 DEF sa, Terminal
<1>5. PICK i \in Bad : \A k \in Bad : i <= k
  <2>1. Bad \in SUBSET Nat
    BY <1>1
  <2> HIDE DEF Bad
  <2> QED
    BY <2>1, LeastNat
<1>6. i \in 0 .. Len(body) /\ ~Solvent(i, opening, sa[i])
    BY <1>5
<1>7. /\ i \in 1 .. Len(body) /\ i - 1 \in 0 .. Len(body) /\ i - 1 \in Nat
      /\ (i - 1) + 1 = i /\ ~ (i <= i - 1)
    BY <1>1, <1>2, <1>6, SMTT(30)
<1>8. Solvent(i - 1, opening, sa[i - 1])
    BY <1>5, <1>7
<1>9. Solvent((i - 1) + 1, opening, Executed(body[i], sa[i - 1]))
    BY <1>3, <1>7, <1>8, SolventStep, SMTT(30)
<1> QED
    BY <1>2, <1>6, <1>7, <1>9, SMTT(30)

\* No sender is in debt, and nonces are within what the batches can have used.
Funded ==
    /\ room \in Seq(States) /\ Len(room) > 0
    /\ \A s \in Senders : /\ Opening.balance[s] \in Nat
                          /\ Opening.nonce[s] <= MaxTxs * Len(bodies)

\* A batch leaves no debt, and uses no more nonces than its body has places.
LEMMA FundedBatch ==
    ASSUME Histories, Funded, Batch
    PROVE  Funded'
<1>1. PICK body \in Bodies :
        /\ Executable(body, Opening)
        /\ room' = Append(room, Terminal(body, Opening))
        /\ bodies' = Append(bodies, body)
    BY DEF Batch
<1> DEFINE opening == Opening
           terminal == Terminal(body, opening)
<1>2. opening \in States
    BY SeqFacts DEF Funded, Opening
<1>3. Len(body) \in Nat /\ Len(body) <= MaxTxs /\ MaxTxs \in Nat
  <2>1. PICK n \in 1 .. MaxTxs : body \in [1 .. n -> Executions]
    BY DEF Bodies
  <2>2. MaxTxs \in Nat
    BY BoundAssumption
  <2>3. Len(body) \in Nat /\ DOMAIN body = 1 .. Len(body)
    BY BodyShape
  <2>4. 1 .. n = 1 .. Len(body)
    BY <2>1, <2>3
  <2> QED
    BY <2>1, <2>2, <2>3, <2>4
<1>4. Solvent(0, opening, opening)
    BY <1>2 DEF Solvent, States, Funded
<1>5. Solvent(Len(body), opening, terminal)
    BY <1>1, <1>2, <1>4, BodySolvent, SMTT(30)
<1>6. Len(bodies) \in Nat /\ Len(bodies') = Len(bodies) + 1
    BY <1>1, BodyAppended DEF Histories
<1>7. room' \in Seq(States) /\ Len(room') > 0 /\ Opening' = terminal
  <2>1. /\ room' = Append(room, terminal) /\ room \in Seq(States) /\ Len(room) \in Nat
        /\ terminal \in States
    BY <1>1, <1>5, SeqFacts DEF Funded, Solvent
  <2> HIDE DEF terminal
  <2>2. room' \in Seq(States) /\ Len(room') = Len(room) + 1 /\ room'[Len(room) + 1] = terminal
    BY <2>1, SeqAppend
  <2>3. Opening' = room'[Len(room')]
    BY DEF Opening
  <2> QED
    BY <2>1, <2>2, <2>3, SMTT(30)
<1>8. ASSUME NEW s \in Senders
      PROVE  terminal.balance[s] \in Nat /\ terminal.nonce[s] <= MaxTxs * (Len(bodies) + 1)
  <2>1. opening.nonce[s] <= MaxTxs * Len(bodies)
    BY DEF Funded
  <2> HIDE DEF opening, terminal
  <2>2. /\ terminal.balance[s] \in Nat /\ terminal.nonce[s] \in Nat /\ opening.nonce[s] \in Nat
        /\ terminal.nonce[s] <= opening.nonce[s] + Len(body)
    BY <1>2, <1>5 DEF Solvent, States
  <2>3. terminal.nonce[s] <= MaxTxs * (Len(bodies) + 1)
    BY <1>3, <1>6, <2>1, <2>2, OneBodyMore, Zenon
  <2> QED
    BY <2>2, <2>3
<1> HIDE DEF opening, terminal
<1> QED
    BY <1>6, <1>7, <1>8, SMTT(30) DEF Funded

\* A call that the policy knows, that can be paid and that breaks no rule makes a
\* body of its own.
LEMMA CallAlone ==
    ASSUME NEW f \in Executions, f.tx.entry = "member", f.tx.runs, NEW opening,
           Payable(f.tx, opening)
    PROVE  /\ <<f>> \in Bodies /\ Executable(<<f>>, opening)
           /\ Terminal(<<f>>, opening) = Executed(f, opening)
<1> DEFINE body == <<f>>
<1>1. Len(body) = 1 /\ DOMAIN body = {1} /\ body[1] = f /\ body # <<>>
    OBVIOUS
<1>2. body \in Bodies
  <2>1. 1 \in 1 .. MaxTxs
    BY BoundAssumption
  <2>2. body \in [1 .. 1 -> Executions]
    OBVIOUS
  <2> QED
    BY <2>1, <2>2 DEF Bodies
<1> HIDE DEF body
<1>3. StateAfter(body, opening)[0] = opening
    BY <1>1, StateAfterSteps
<1>4. StateAfter(body, opening)[1] = Executed(f, opening)
  <2>1. 1 \in 1 .. Len(body) /\ 1 - 1 = 0
    BY <1>1
  <2>2. StateAfter(body, opening)[1] = Executed(body[1], StateAfter(body, opening)[1 - 1])
    BY <1>1, <2>1, StateAfterSteps, SMTT(30)
  <2> QED
    BY <1>1, <1>3, <2>1, <2>2, SMTT(30)
<1>5. f.tx.sender \in Callers(body)
    BY <1>1 DEF Callers
<1>6. Executable(body, opening)
  <2>1. 1 - 1 = 0
    OBVIOUS
  <2>2. Payable(body[1].tx, StateAfter(body, opening)[1 - 1])
    BY <1>1, <1>3, <2>1, SMTT(30)
  <2> QED
    BY <1>1, <1>5, <2>2, SMTT(30) DEF Executable, AllowsEntry, Decodes
<1>7. Terminal(body, opening) = Executed(f, opening)
    BY <1>1, <1>4, SMTT(30) DEF Terminal
<1> QED
    BY <1>2, <1>6, <1>7 DEF body

\* A second call follows if it can be paid then.
LEMMA CallPair ==
    ASSUME NEW f \in Executions, f.tx.entry = "member", f.tx.runs, NEW opening,
           Payable(f.tx, opening),
           NEW g \in Executions, g.tx.entry = "member", g.tx.runs,
           Payable(g.tx, Executed(f, opening))
    PROVE  /\ <<f, g>> \in Bodies /\ Executable(<<f, g>>, opening)
           /\ Terminal(<<f, g>>, opening) = Executed(g, Executed(f, opening))
<1> DEFINE body == <<f, g>>
<1>1. /\ Len(body) = 2 /\ DOMAIN body = {1, 2} /\ body[1] = f /\ body[2] = g
      /\ body # <<>>
    OBVIOUS
<1>2. body \in Bodies
  <2>1. 2 \in 1 .. MaxTxs
    BY BoundAssumption, OperatorAssumption
  <2>2. body \in [1 .. 2 -> Executions]
    OBVIOUS
  <2> QED
    BY <2>1, <2>2 DEF Bodies
<1> HIDE DEF body
<1>3. StateAfter(body, opening)[0] = opening
    BY <1>1, StateAfterSteps
<1>4. 1 \in 1 .. Len(body) /\ 1 - 1 = 0 /\ 2 - 1 = 1
    BY <1>1
<1>5. StateAfter(body, opening)[1] = Executed(f, opening)
  <2>1. StateAfter(body, opening)[1] = Executed(body[1], StateAfter(body, opening)[1 - 1])
    BY <1>1, <1>4, StateAfterSteps, SMTT(30)
  <2> QED
    BY <1>1, <1>3, <1>4, <2>1, SMTT(30)
<1>6. f.tx.sender \in Callers(body) /\ g.tx.sender \in Callers(body)
    BY <1>1 DEF Callers
<1>7. /\ Payable(body[1].tx, StateAfter(body, opening)[1 - 1])
      /\ Payable(body[2].tx, StateAfter(body, opening)[2 - 1])
    BY <1>1, <1>3, <1>4, <1>5, SMTT(30)
<1>8. Executable(body, opening)
    BY <1>1, <1>6, <1>7, SMTT(30) DEF Executable, AllowsEntry, Decodes
<1>9. Terminal(body, opening) = Executed(g, Executed(f, opening))
  <2>1. 2 \in 1 .. Len(body)
    BY <1>1
  <2>2. StateAfter(body, opening)[2] = Executed(body[2], StateAfter(body, opening)[2 - 1])
    BY <1>1, <2>1, StateAfterSteps, SMTT(30)
  <2> QED
    BY <1>1, <1>4, <1>5, <2>2, SMTT(30) DEF Terminal
<1> QED
    BY <1>2, <1>8, <1>9 DEF body

\* A call of the operator with this nonce.
Call(s, n) ==
    [tx |-> [sender |-> s, nonce |-> n, value |-> 0, entry |-> "member", runs |-> TRUE],
     status |-> "success"]

\* Its parts, and what it does to a state.
LEMMA CallFacts ==
    ASSUME NEW s \in Senders, NEW n \in Nat, NEW state \in States,
           state.nonce[s] = n, state.balance[s] \in Nat
    PROVE  /\ Call(s, n).tx.sender = s /\ Call(s, n).tx.nonce = n
           /\ Call(s, n).tx.entry = "member" /\ Call(s, n).tx.runs
           /\ Payable(Call(s, n).tx, state)
           /\ Executed(Call(s, n), state) \in States
           /\ Executed(Call(s, n), state).nonce[s] = n + 1
           /\ Executed(Call(s, n), state).balance[s] = state.balance[s]
<1> DEFINE e == Call(s, n)
<1>1. /\ e.tx.sender = s /\ e.tx.nonce = n /\ e.tx.value = 0
      /\ e.tx.entry = "member" /\ e.tx.runs /\ e.status = "success"
    BY DEF Call
<1> HIDE DEF e
<1>2. Payable(e.tx, state)
    BY <1>1, SMTT(30) DEF Payable
<1>3. /\ Executed(e, state) \in States
      /\ Executed(e, state).nonce[s] = n + 1
      /\ Executed(e, state).balance[s] = state.balance[s]
    BY <1>1, SMTT(30) DEF Executed, States
<1> QED
    BY <1>1, <1>2, <1>3 DEF e

\* Some sender can always sign a call that makes a body, and one that follows it.
LEMMA OperatorCalls ==
    ASSUME Histories, Funded, Len(bodies) < MaxBatches
    PROVE  \E s \in Senders, n \in Nat :
             /\ Call(s, n) \in Executions /\ Call(s, n + 1) \in Executions
             /\ Opening \in States /\ Opening.nonce[s] = n /\ Opening.balance[s] \in Nat
<1>1. PICK s \in Senders : \A n \in 0 .. ((MaxBatches - 1) * MaxTxs + 1) :
         [sender |-> s, nonce |-> n, value |-> 0, entry |-> "member", runs |-> TRUE] \in Txs
    BY OperatorAssumption, Zenon
<1> DEFINE n == Opening.nonce[s]
           top == (MaxBatches - 1) * MaxTxs
<1>2. Opening \in States
    BY SeqFacts DEF Funded, Opening
<1>3. n \in Nat /\ n <= MaxTxs * Len(bodies) /\ Opening.balance[s] \in Nat
    BY <1>2 DEF Funded, States
<1>4. Len(bodies) \in Nat /\ MaxTxs \in Nat /\ MaxBatches \in Nat
    BY BoundAssumption, SeqFacts DEF Histories
<1> HIDE DEF n
<1>5. n \in 0 .. top
    BY <1>3, <1>4, WithinBound, Zenon
<1>6. top \in Int
    BY <1>4
<1>7. \A k \in 0 .. (top + 1) : Call(s, k) \in Executions
    BY <1>1, Zenon DEF Call, Executions
<1> HIDE DEF top
<1>8. n \in 0 .. (top + 1) /\ n + 1 \in 0 .. (top + 1)
    BY <1>5, <1>6
<1>9. Opening.nonce[s] = n
    BY DEF n
<1> QED
    BY <1>2, <1>3, <1>7, <1>8, <1>9, Zenon

\* An answer to the next forced transaction alone.
LEMMA OneAnswer ==
    ASSUME NEW body, NEW terminal, NEW status,
           ForcedAnswer(body, terminal, forced[Len(answered) + 1], status)
    PROVE  Answerable(body, terminal, <<status>>, <<>>)
<1>1. DOMAIN <<status>> = {1} /\ <<status>>[1] = status
    OBVIOUS
<1>2. \A i : i \notin DOMAIN << >>
    OBVIOUS
<1>3. ASSUME NEW i \in DOMAIN <<status>>
      PROVE  ForcedAnswer(body, terminal, forced[Len(answered) + i], <<status>>[i])
  <2>1. i = 1
    BY <1>1
  <2> QED
    BY <1>1, <2>1, Zenon
<1> QED
    BY <1>2, <1>3, Zenon DEF Answerable

\* The next forced transaction is rejected behind an operator's call, or runs there,
\* or is rejected behind a second call that uses its nonce.
LEMMA ForcedAnswered ==
    ASSUME Histories, Funded
    PROVE  ForcedNeverWedges
<1> SUFFICES ASSUME Len(answered) < Len(forced), Len(bodies) < MaxBatches
             PROVE  \E body \in Bodies, status \in Statuses :
                      /\ Executable(body, Opening)
                      /\ Answerable(body, Terminal(body, Opening), <<status>>, <<>>)
    BY Zenon DEF ForcedNeverWedges
<1> DEFINE opening == Opening
           tx == forced[Len(answered) + 1]
<1>0. PICK s \in Senders, n \in Nat :
         /\ Call(s, n) \in Executions /\ Call(s, n + 1) \in Executions
         /\ opening \in States /\ opening.nonce[s] = n /\ opening.balance[s] \in Nat
    BY OperatorCalls, Zenon
<1> DEFINE f == Call(s, n)
           after == Executed(f, opening)
<1>1. /\ f \in Executions /\ f.tx.entry = "member" /\ f.tx.runs /\ Payable(f.tx, opening)
      /\ f.tx.sender = s
      /\ after \in States /\ after.nonce[s] = n + 1 /\ after.balance[s] \in Nat
  <2> HIDE DEF opening
  <2> QED
    BY <1>0, CallFacts, SMTT(30)
<1> HIDE DEF f
<1>2. tx \in Txs
  <2>1. Len(answered) + 1 \in 1 .. Len(forced) /\ forced \in Seq(Txs)
    BY SeqFacts DEF Histories
  <2> QED
    BY <2>1, SeqFacts, SMTT(30)
<1>3. /\ <<f>> \in Bodies /\ Executable(<<f>>, opening)
      /\ Terminal(<<f>>, opening) = Executed(f, opening)
    BY <1>1, CallAlone
<1>4. CASE ForcedRejection(tx, Callers(<<f>>), Executed(f, opening))
  <2>1. ForcedAnswer(<<f>>, Terminal(<<f>>, opening), tx, "rejected")
    BY <1>3, <1>4, Zenon DEF ForcedAnswer, Processed
  <2>2. Answerable(<<f>>, Terminal(<<f>>, opening), <<"rejected">>, <<>>)
    BY <2>1, OneAnswer
  <2>3. "rejected" \in Statuses
    BY DEF Statuses
  <2> HIDE DEF opening
  <2>4. opening = Opening
    BY DEF opening
  <2> QED
    BY <1>3, <2>2, <2>3, <2>4, Zenon
<1>5. CASE tx.runs /\ ~ForcedRejection(tx, Callers(<<f>>), Executed(f, opening))
  <2> DEFINE g == [tx |-> tx, status |-> "success"]
  <2>1. tx.entry = "member" /\ tx.runs /\ Payable(tx, Executed(f, opening))
    BY <1>5 DEF ForcedRejection, AllowsEntry, Decodes
  <2>2. g \in Executions /\ g.tx = tx
    BY <1>2 DEF Executions
  <2>3. g = [tx |-> tx, status |-> "success"]
    OBVIOUS
  <2> HIDE DEF g
  <2>4. <<f, g>> \in Bodies /\ Executable(<<f, g>>, opening)
    BY <1>1, <2>1, <2>2, CallPair, SMTT(30)
  <2>5. 2 \in DOMAIN <<f, g>> /\ <<f, g>>[2] = g
    OBVIOUS
  <2>6. ForcedAnswer(<<f, g>>, Terminal(<<f, g>>, opening), tx, "success")
    BY <2>3, <2>5, SMTT(30) DEF ForcedAnswer, Processed
  <2>7. Answerable(<<f, g>>, Terminal(<<f, g>>, opening), <<"success">>, <<>>)
    BY <2>6, OneAnswer
  <2>8. "success" \in Statuses
    BY DEF Statuses
  <2> HIDE DEF opening
  <2>9. opening = Opening
    BY DEF opening
  <2> QED
    BY <2>4, <2>7, <2>8, <2>9, Zenon
<1>6. CASE ~tx.runs /\ ~ForcedRejection(tx, Callers(<<f>>), Executed(f, opening))
  <2> DEFINE g == Call(s, n + 1)
             last == Executed(g, after)
  <2>1. tx.sender \in Callers(<<f>>) /\ Payable(tx, after)
    BY <1>6 DEF ForcedRejection, AllowsEntry, Decodes
  <2>2. tx.sender = s
    BY <1>1, <2>1 DEF Callers
  <2>3. tx.nonce = n + 1
    BY <1>1, <2>1, <2>2, Zenon DEF Payable
  <2> HIDE DEF after
  <2>4. n + 1 \in Nat
    BY <1>0
  <2>5. /\ g.tx.entry = "member" /\ g.tx.runs /\ Payable(g.tx, after)
        /\ last.nonce[s] = n + 1 + 1
    <3>1. after \in States /\ after.nonce[s] = n + 1 /\ after.balance[s] \in Nat
      BY <1>1, Zenon
    <3> QED
      BY <2>4, <3>1, CallFacts, SMTT(30)
  <2> HIDE DEF g
  <2>6. /\ <<f, g>> \in Bodies /\ Executable(<<f, g>>, opening)
        /\ Terminal(<<f, g>>, opening) = last
    <3>1. g \in Executions
      BY <1>0 DEF g
    <3> HIDE DEF opening
    <3> QED
      BY <1>1, <2>5, <3>1, CallPair, Zenon DEF after
  <2>7. ~Payable(tx, last)
    BY <1>0, <2>2, <2>3, <2>5 DEF Payable
  <2>8. ForcedAnswer(<<f, g>>, Terminal(<<f, g>>, opening), tx, "rejected")
    BY <2>6, <2>7, Zenon DEF ForcedAnswer, ForcedRejection, Decodes, Processed
  <2>9. Answerable(<<f, g>>, Terminal(<<f, g>>, opening), <<"rejected">>, <<>>)
    BY <2>8, OneAnswer
  <2>10. "rejected" \in Statuses
    BY DEF Statuses
  <2> HIDE DEF opening
  <2>11. opening = Opening
    BY DEF opening
  <2> QED
    BY <2>6, <2>9, <2>10, <2>11, Zenon
<1> QED
    BY <1>4, <1>5, <1>6, Zenon

\* The forced queue is never stuck: whatever was forced and whatever ran before,
\* a batch can answer the next forced transaction, by running it behind a call of
\* the operator or by a rejection that forced_rejection_reason_v5 derives, for any
\* transactions among which the operator has its own; also when the EVM or the
\* inspector would refuse the forced one.
THEOREM ForcedQueueMoves == Spec => []ForcedNeverWedges
<1>1. Init => Histories /\ Funded
  <2> SUFFICES ASSUME Init PROVE Histories /\ Funded
    OBVIOUS
  <2>1. \A S : <<>> \in Seq(S) /\ Len(<<>>) = 0
    BY SeqNone
  <2>2. Histories
    BY <2>1 DEF Init, Histories
  <2>3. room \in Seq(States) /\ Len(room) = 1
    BY BoundAssumption DEF Init, States
  <2>4. ASSUME NEW s \in Senders PROVE Opening.balance[s] = Funds /\ Opening.nonce[s] = 0
    BY DEF Init, Opening
  <2>5. Funds \in Nat /\ 0 <= MaxTxs * Len(bodies)
    BY <2>1, BoundAssumption, SMTT(30) DEF Init
  <2> QED
    BY <2>2, <2>3, <2>4, <2>5, SMTT(30) DEF Funded
<1>2. Histories /\ Funded /\ [Next]_vars => Funded'
  <2> SUFFICES ASSUME Histories, Funded, [Next]_vars PROVE Funded'
    OBVIOUS
  <2>1. CASE Batch
    BY <2>1, FundedBatch
  <2>2. CASE UNCHANGED <<room, bodies>>
    BY <2>2 DEF Funded, Opening
  <2> QED
    BY <2>1, <2>2, SMTT(30) DEF Next, ForceTransaction, SignReceipt, vars
<1>3. Histories /\ Funded => ForcedNeverWedges
    BY ForcedAnswered
<1> QED
    BY <1>1, <1>2, <1>3, HistoriesNext, PTL DEF Spec

=============================================================================
