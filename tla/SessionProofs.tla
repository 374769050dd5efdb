--------------------------- MODULE SessionProofs ---------------------------
(***************************************************************************)
(* Proofs about what a session keeps: the history its chat turns write and *)
(* read (ChatTurns) and the note of it (SessionMemory).                    *)
(*                                                                         *)
(* Turns, for any turns, ids, cap and number of troubles.  What Sanitize   *)
(* has made of the first n rows is described three times, each by          *)
(* induction on n: the rows so far are a history but for the calls still   *)
(* open (Sane), results stay with their requests (Follows), and the rows   *)
(* are those to keep (Track).  What a turn has written is found again in   *)
(* the rows as long as no turn it did not meet wrote between: its calls    *)
(* ask for what it has yet to write (CallsAsked), and each of its results  *)
(* answers its last request (ResultsAnswer); TurnsInv is all of it.        *)
(*                                                                         *)
(* Notes, for any sessions, turns, idle time, lookback, batch and number   *)
(* of faults.  The flusher never looks at a note and at the messages in    *)
(* one step, and turns write both while it sweeps.  It is enough that      *)
(* everything it remembers is old: what it listed and what it checked are  *)
(* numbers the session has reached (Reached), the messages it once made a  *)
(* note of are no newer than the note that is there, and the messages it   *)
(* is about to save are newer than those (Saves).                          *)
(***************************************************************************)
EXTENDS SessionMemory, ChatTurns, WellFoundedInduction, SequenceTheorems,
        FiniteSetTheorems, TLAPS

-----------------------------------------------------------------------------
(* Induction, and the rows Sanitize has scanned.                             *)

\* A set of numbers that holds 0 and the successor of each of its members holds all.
LEMMA NatSetInduction ==
    ASSUME NEW T, 0 \in T, \A n \in Nat : n \in T => n + 1 \in T
    PROVE  Nat \subseteq T
<1>. SUFFICES ASSUME Nat \ T # {} PROVE FALSE
  OBVIOUS
<1>1. PICK n \in Nat \ T : \A m \in Nat \ T : ~(<<m, n>> \in OpToRel(<, Nat))
  <2>1. PICK S : S = Nat \ T
    OBVIOUS
  <2>2. S \subseteq Nat /\ S # {}
    BY <2>1
  <2>. QED
    BY <2>1, <2>2, WFMin, NatLessThanWellFounded, Zenon
<1>2. n # 0 /\ n - 1 \in Nat /\ n - 1 < n
  OBVIOUS
<1>3. n - 1 \in T
  BY <1>1, <1>2 DEF OpToRel
<1>. QED
  BY <1>2, <1>3

\* The states of Sanitize, row by row.
Scans(f, msgs) ==
    f = [n \in 0 .. Len(msgs) |-> IF n = 0 THEN Start ELSE Take(f[n - 1], msgs[n])]

LEMMA ScanExists ==
    ASSUME NEW msgs, Len(msgs) \in Nat
    PROVE  \E f : Scans(f, msgs)
<1>. DEFINE Up(f, n) == f = [i \in 0 .. n |-> IF i = 0 THEN Start ELSE Take(f[i - 1], msgs[i])]
            T == {n \in Nat : \E f : Up(f, n)}
<1>1. 0 \in T
  <2>1. Up([i \in 0 .. 0 |-> Start], 0)
    OBVIOUS
  <2>. QED
    BY <2>1
<1>2. ASSUME NEW n \in Nat, n \in T PROVE n + 1 \in T
  <2>1. PICK f : Up(f, n)
    BY <1>2
  <2>2. PICK g : g = [i \in 0 .. n + 1 |-> IF i <= n THEN f[i] ELSE Take(f[n], msgs[n + 1])]
    OBVIOUS
  <2>3. ASSUME NEW i \in 0 .. n + 1
        PROVE  g[i] = IF i = 0 THEN Start ELSE Take(g[i - 1], msgs[i])
    <3>1. CASE i = 0
      BY <2>1, <2>2, <3>1
    <3>2. CASE i \in 1 .. n
      <4>1. g[i] = f[i] /\ g[i - 1] = f[i - 1]
        BY <2>2, <3>2
      <4>2. f[i] = Take(f[i - 1], msgs[i])
        BY <2>1, <3>2
      <4>. QED
        BY <3>2, <4>1, <4>2
    <3>3. CASE i = n + 1
      BY <2>2, <3>3
    <3>. QED
      BY <3>1, <3>2, <3>3
  <2>4. Up(g, n + 1)
    BY <2>2, <2>3
  <2>. QED
    BY <2>4
<1>3. Len(msgs) \in T
  BY <1>1, <1>2, NatSetInduction
<1>. QED
  BY <1>3 DEF Scans

LEMMA SanitizeIs ==
    ASSUME NEW msgs, Len(msgs) \in Nat
    PROVE  \E f : /\ f[0] = Start
                  /\ \A n \in 1 .. Len(msgs) : f[n] = Take(f[n - 1], msgs[n])
                  /\ Sanitize(msgs) = FlushUnmatched(f[Len(msgs)]).out
<1>1. PICK g : g = CHOOSE f : Scans(f, msgs)
  OBVIOUS
<1>2. Scans(g, msgs)
  BY <1>1, ScanExists
<1>3. Sanitize(msgs) = FlushUnmatched(g[Len(msgs)]).out
  BY <1>1 DEF Sanitize, Scans
<1>. QED
  BY <1>2, <1>3 DEF Scans

-----------------------------------------------------------------------------
(* Rows, and what answers what                                               *)

Id == Nat \X Nat

Row ==
    {m \in [role : {"user", "assistant", "tool"}, text : BOOLEAN, calls : SUBSET Id, bare : BOOLEAN,
            id : Id \cup {NoId}, by : Turns] :
        m.role # "assistant" => m.calls = {}}

LEMMA RowTypes ==
    ASSUME NEW m \in Row
    PROVE  /\ m.role \in {"user", "assistant", "tool"} /\ m.calls \subseteq Id
           /\ m.id \in Id \cup {NoId} /\ m.by \in Turns
           /\ m.role # "assistant" => m.calls = {}
           /\ Requests(m) <=> m.calls # {}
BY DEF Row, Requests

LEMMA RowStruck ==
    ASSUME NEW m \in Row, NEW C
    PROVE  /\ [m EXCEPT !.calls = @ \ C] \in Row
           /\ [m EXCEPT !.calls = @ \ C].role = m.role
           /\ [m EXCEPT !.calls = @ \ C].text = m.text
           /\ [m EXCEPT !.calls = @ \ C].bare = m.bare
           /\ [m EXCEPT !.calls = @ \ C].calls = m.calls \ C
           /\ [m EXCEPT !.calls = @ \ C].id = m.id
           /\ [m EXCEPT !.calls = @ \ C].by = m.by
BY DEF Row

\* What a row answers does not depend on the rows after it.
LEMMA AnswersAppend ==
    ASSUME NEW S, NEW out \in Seq(S), NEW m \in S, NEW i \in 1 .. Len(out), NEW j \in 1 .. Len(out)
    PROVE  Answers(Append(out, m), i, j) <=> Answers(out, i, j)
<1>1. PICK h : h = Append(out, m)
  OBVIOUS
<1>2. \A k \in 1 .. Len(out) : h[k] = out[k]
  BY <1>1, AppendProperties
<1>3. ASSUME NEW k \in (j + 1) .. i PROVE k \in 1 .. Len(out)
  BY LenProperties
<1>4. Answers(h, i, j) <=> Answers(out, i, j)
  BY <1>2, <1>3 DEF Answers
<1>. QED
  BY <1>1, <1>4

LEMMA AnsweredAppend ==
    ASSUME NEW S, NEW out \in Seq(S), NEW m \in S, NEW j \in 1 .. Len(out)
    PROVE  Answered(out, j) \subseteq Answered(Append(out, m), j)
<1>1. PICK h : h = Append(out, m)
  OBVIOUS
<1>2. Len(h) = Len(out) + 1 /\ Len(out) \in Nat /\ \A k \in 1 .. Len(out) : h[k] = out[k]
  BY <1>1, AppendProperties, LenProperties
<1>3. \A k \in 1 .. Len(out) : Answers(h, k, j) <=> Answers(out, k, j)
  BY <1>1, AnswersAppend
<1>4. Answered(out, j) \subseteq Answered(h, j)
  BY <1>2, <1>3 DEF Answered
<1>. QED
  BY <1>1, <1>4

\* The results after the last other row answer that row, if any.
LEMMA AnswersLast ==
    ASSUME NEW h \in Seq(Row), NEW at \in 1 .. Len(h), h[at].role # "tool",
           \A k \in (at + 1) .. Len(h) : h[k].role = "tool",
           NEW i \in (at + 1) .. Len(h), NEW j \in 1 .. Len(h), Answers(h, i, j)
    PROVE  j = at
<1>1. Len(h) \in Nat
  BY LenProperties
<1>2. ~(j < at)
  BY <1>1 DEF Answers
<1>3. ~(at < j)
  BY <1>1 DEF Answers, Requests
<1>. QED
  BY <1>1, <1>2, <1>3

-----------------------------------------------------------------------------
(* What Sanitize keeps true while it scans                                   *)

\* All results have their request, and all calls their result, but for the calls that are
\* open, which are those of row at.
Sane(acc) ==
    /\ acc \in [out : Seq(Row), open : SUBSET Id, at : Nat]
    /\ \A i \in 1 .. Len(acc.out) :
        /\ acc.out[i].role = "tool" => \E j \in 1 .. Len(acc.out) : Answers(acc.out, i, j)
        /\ acc.open = {} \/ i # acc.at => acc.out[i].calls \subseteq Answered(acc.out, i)
    /\ acc.open # {} =>
        /\ acc.at \in 1 .. Len(acc.out)
        /\ Requests(acc.out[acc.at])
        /\ \A k \in (acc.at + 1) .. Len(acc.out) : acc.out[k].role = "tool"
        /\ acc.open = acc.out[acc.at].calls \ {acc.out[k].id : k \in (acc.at + 1) .. Len(acc.out)}

LEMMA StartIsSane == Sane(Start)
<1>1. Start \in [out : Seq(Row), open : SUBSET Id, at : Nat] /\ Start.out = <<>> /\ Start.open = {}
  BY EmptySeq DEF Start
<1>2. Len(Start.out) = 0
  BY <1>1
<1>. QED
  BY <1>1, <1>2 DEF Sane

LEMMA SaneIsWellFormed ==
    ASSUME NEW acc, Sane(acc), acc.open = {}
    PROVE  WellFormed(acc.out)
BY DEF Sane, WellFormed

\* A flush strikes the open calls from row at, or drops the row, which is then the last.
Flushed(out, open, at, h) ==
    \/ /\ out[at].calls \ open = {} /\ ~out[at].bare /\ ~out[at].text
       /\ at = Len(out) /\ Len(h) = at - 1
       /\ \A i \in 1 .. at - 1 : h[i] = out[i]
    \/ /\ out[at].calls \ open # {} \/ out[at].bare \/ out[at].text
       /\ h[at] = [out[at] EXCEPT !.calls = @ \ open]
       /\ Len(h) = Len(out)
       /\ \A i \in 1 .. Len(h) : i # at => h[i] = out[i]

LEMMA FlushShape ==
    ASSUME NEW acc, Sane(acc), acc.open # {}
    PROVE  \E h \in Seq(Row) : /\ FlushUnmatched(acc) = [Start EXCEPT !.out = h]
                              /\ Flushed(acc.out, acc.open, acc.at, h)
<1>1. PICK out, open, at : out = acc.out /\ open = acc.open /\ at = acc.at
  OBVIOUS
<1>2. /\ out \in Seq(Row) /\ open \subseteq Id /\ at \in 1 .. Len(out) /\ Requests(out[at])
      /\ \A k \in (at + 1) .. Len(out) : out[k].role = "tool"
      /\ open = out[at].calls \ {out[k].id : k \in (at + 1) .. Len(out)}
      /\ \A i \in 1 .. Len(out) : out[i].role = "tool" => \E j \in 1 .. Len(out) : Answers(out, i, j)
  BY <1>1 DEF Sane
<1>3. Len(out) \in Nat /\ out[at] \in Row
  BY <1>2, ElementOfSeq, LenProperties
<1>4. PICK row : row = [out[at] EXCEPT !.calls = @ \ open]
  OBVIOUS
<1>5. /\ row \in Row /\ row.role = out[at].role /\ row.calls = out[at].calls \ open
      /\ row.id = out[at].id /\ row.by = out[at].by /\ row.text = out[at].text
      /\ row.bare = out[at].bare
  BY <1>3, <1>4, RowStruck
<1>6. CASE ~HasCalls(row) /\ ~row.text
  <2>1. at = Len(out)
    <3>1. SUFFICES ASSUME at + 1 \in (at + 1) .. Len(out) PROVE FALSE
      BY <1>2, <1>3
    <3>2. at + 1 \in 1 .. Len(out) /\ out[at].role # "tool"
      BY <1>2, <1>3, <3>1 DEF Requests
    <3>3. PICK j \in 1 .. Len(out) : Answers(out, at + 1, j)
      BY <1>2, <3>1, <3>2
    <3>4. j = at
      BY <1>2, <3>1, <3>2, <3>3, AnswersLast
    <3>5. out[at + 1].id \in out[at].calls
      BY <3>3, <3>4 DEF Answers
    <3>6. out[at + 1].id \notin open
      BY <1>2, <3>1
    <3>. QED
      BY <1>5, <1>6, <3>5, <3>6 DEF HasCalls
  <2>2. PICK h : h = RemoveAt(out, at)
    OBVIOUS
  <2>3. h = SubSeq(out, 1, at - 1)
    <3>1. SubSeq(out, at + 1, Len(out)) = <<>>
      BY <1>3, <2>1, SubSeqEmpty
    <3>2. SubSeq(out, 1, at - 1) \in Seq(Row)
      BY <1>2, <1>3, SubSeqProperties
    <3>. QED
      BY <2>2, <3>1, <3>2, ConcatEmptySeq DEF RemoveAt
  <2>4. h \in Seq(Row) /\ Len(h) = at - 1 /\ \A i \in 1 .. at - 1 : h[i] = out[i]
    BY <1>2, <1>3, <2>3, SubSeqProperties
  <2>5. FlushUnmatched(acc) = [Start EXCEPT !.out = h]
    BY <1>1, <1>4, <1>6, <2>2 DEF FlushUnmatched
  <2>. QED
    <3>1. Flushed(out, open, at, h)
      BY <1>5, <1>6, <2>1, <2>4 DEF Flushed, HasCalls
    <3>. QED
      BY <1>1, <2>4, <2>5, <3>1
<1>7. CASE ~(~HasCalls(row) /\ ~row.text)
  <2>1. PICK h : h = [out EXCEPT ![at] = row]
    OBVIOUS
  <2>2. h \in Seq(Row) /\ Len(h) = Len(out) /\ \A k \in 1 .. Len(out) : h[k] = IF k = at THEN row ELSE out[k]
    BY <1>2, <1>5, <2>1, ExceptSeq
  <2>3. FlushUnmatched(acc) = [Start EXCEPT !.out = h]
    BY <1>1, <1>4, <1>7, <2>1 DEF FlushUnmatched
  <2>4. h[at] = row /\ \A k \in 1 .. Len(h) : k # at => h[k] = out[k]
    BY <1>2, <2>2
  <2>. QED
    <3>1. Flushed(out, open, at, h)
      BY <1>4, <1>5, <1>7, <2>2, <2>4 DEF Flushed, HasCalls
    <3>. QED
      BY <1>1, <2>2, <2>3, <3>1
<1>. QED
  BY <1>6, <1>7

\* What a flush leaves: the results there were, and what answered what without the calls
\* struck.
Leaves(out, open, at, h) ==
    /\ Len(h) \in Nat /\ Len(out) \in Nat /\ Len(h) <= Len(out)
    /\ \A i \in 1 .. Len(h) : h[i].role = out[i].role /\ h[i].id = out[i].id /\ h[i].by = out[i].by
    /\ \A i \in 1 .. Len(h) : h[i].calls \subseteq out[i].calls
    /\ \A i \in 1 .. Len(h) : h[i].role # "assistant" => h[i] = out[i]
    /\ \A i \in 1 .. Len(out) : out[i].role = "tool" => i \in 1 .. Len(h)
    /\ \A i \in 1 .. Len(h), j \in 1 .. Len(h) : Answers(h, i, j) <=> Answers(out, i, j)
    /\ \A i \in 1 .. Len(out), j \in 1 .. Len(out) :
          Answers(out, i, j) => i \in 1 .. Len(h) /\ j \in 1 .. Len(h)
    /\ \A i \in 1 .. Len(h) : open # {} /\ i = at => h[i].calls = out[i].calls \ open

LEMMA FlushKeepsSane ==
    ASSUME NEW acc, Sane(acc)
    PROVE  /\ FlushUnmatched(acc).out \in Seq(Row) /\ FlushUnmatched(acc).open = {}
           /\ FlushUnmatched(acc) \in [out : Seq(Row), open : SUBSET Id, at : Nat]
           /\ Leaves(acc.out, acc.open, acc.at, FlushUnmatched(acc).out)
<1>1. PICK out, open, at : out = acc.out /\ open = acc.open /\ at = acc.at
  OBVIOUS
<1>2. out \in Seq(Row) /\ Len(out) \in Nat /\ \A i \in 1 .. Len(out) : out[i] \in Row
  BY <1>1, LenProperties, ElementOfSeq DEF Sane
<1>3. CASE open = {}
  <2>1. FlushUnmatched(acc) = acc
    BY <1>1, <1>3 DEF FlushUnmatched
  <2>2. out = FlushUnmatched(acc).out /\ acc \in [out : Seq(Row), open : SUBSET Id, at : Nat]
    BY <1>1, <2>1 DEF Sane
  <2>3. Leaves(out, open, at, out)
    BY <1>2, <1>3 DEF Leaves, Answers
  <2>. QED
    BY <1>1, <1>2, <1>3, <2>1, <2>2, <2>3
<1>4. CASE open # {}
  <2>1. /\ at \in 1 .. Len(out) /\ Requests(out[at])
        /\ \A k \in (at + 1) .. Len(out) : out[k].role = "tool"
        /\ open = out[at].calls \ {out[k].id : k \in (at + 1) .. Len(out)}
    BY <1>1, <1>4 DEF Sane
  <2>2. PICK h \in Seq(Row) :
          /\ FlushUnmatched(acc) = [Start EXCEPT !.out = h]
          /\ \/ /\ at = Len(out) /\ Len(h) = at - 1
                /\ \A i \in 1 .. at - 1 : h[i] = out[i]
             \/ /\ Len(h) = Len(out)
                /\ \A i \in 1 .. Len(h) : i # at => h[i] = out[i]
                /\ h[at].role = out[at].role /\ h[at].id = out[at].id
                /\ h[at].by = out[at].by
                /\ h[at].calls = out[at].calls \ open
    <3>1. PICK h \in Seq(Row) : /\ FlushUnmatched(acc) = [Start EXCEPT !.out = h]
                                /\ Flushed(out, open, at, h)
      BY <1>1, <1>4, FlushShape
    <3>2. out[at] \in Row
      BY <1>2, <2>1
    <3>3. PICK row : row = [out[at] EXCEPT !.calls = @ \ open]
      OBVIOUS
    <3>4. /\ row.role = out[at].role /\ row.id = out[at].id /\ row.by = out[at].by
          /\ row.calls = out[at].calls \ open
      BY <3>2, <3>3, RowStruck
    <3>5. \/ /\ at = Len(out) /\ Len(h) = at - 1
             /\ \A i \in 1 .. at - 1 : h[i] = out[i]
          \/ /\ Len(h) = Len(out)
             /\ \A i \in 1 .. Len(h) : i # at => h[i] = out[i]
             /\ h[at] = row
      BY <3>1, <3>3 DEF Flushed
    <3>. QED
      BY <3>1, <3>4, <3>5
  <2>3. /\ h = FlushUnmatched(acc).out /\ FlushUnmatched(acc).open = {}
        /\ FlushUnmatched(acc) \in [out : Seq(Row), open : SUBSET Id, at : Nat]
    BY <2>2 DEF Start
  <2>4. Len(h) \in Nat /\ Len(h) <= Len(out)
    BY <1>2, <2>1, <2>2
  <2>5. ASSUME NEW i \in 1 .. Len(h)
        PROVE  /\ h[i].role = out[i].role /\ h[i].id = out[i].id
               /\ h[i].by = out[i].by /\ h[i].calls \subseteq out[i].calls
               /\ h[i].role # "assistant" => h[i] = out[i]
    BY <1>2, <2>1, <2>2 DEF Requests
  <2>6. ASSUME NEW i \in 1 .. Len(out), out[i].role = "tool" PROVE i \in 1 .. Len(h)
    <3>1. i # at
      BY <2>1, <2>6 DEF Requests
    <3>. QED
      BY <1>2, <2>1, <2>2, <3>1
  <2>7. ASSUME NEW i \in 1 .. Len(h), NEW j \in 1 .. Len(h)
        PROVE  Answers(h, i, j) <=> Answers(out, i, j)
    <3>1. \A k \in (j + 1) .. i : k \in 1 .. Len(h) /\ h[k].role = out[k].role /\ h[k].id = out[k].id
      BY <2>4, <2>5
    <3>2. \A k \in (j + 1) .. (i - 1) : k \in (j + 1) .. i
      BY <2>4
    <3>3. h[i].id = out[i].id
      BY <2>5
    <3>4. SUFFICES ASSUME \A k \in (j + 1) .. i : out[k].role = "tool",
                          \A k \in (j + 1) .. (i - 1) : out[k].id # out[i].id, j < i
                   PROVE  Requests(h[j]) /\ h[i].id \in h[j].calls <=> Requests(out[j]) /\ out[i].id \in out[j].calls
      BY <3>1, <3>2, <3>3 DEF Answers
    <3>5. CASE j # at
      BY <2>1, <2>2, <2>4, <3>3, <3>5
    <3>6. CASE j = at
      <4>1. Len(h) = Len(out) /\ h[at].calls = out[at].calls \ open /\ h[at].role = out[at].role
        BY <2>1, <2>2, <2>4, <3>6
      <4>2. i \in (at + 1) .. Len(out)
        BY <1>2, <2>4, <3>4, <3>6, <4>1
      <4>3. out[i].id \notin open
        BY <2>1, <4>2
      <4>. QED
        BY <2>1, <3>3, <3>6, <4>1, <4>3 DEF Requests
    <3>. QED
      BY <3>5, <3>6
  <2>8. ASSUME NEW i \in 1 .. Len(out), NEW j \in 1 .. Len(out), Answers(out, i, j)
        PROVE  i \in 1 .. Len(h) /\ j \in 1 .. Len(h)
    BY <1>2, <2>4, <2>6, <2>8 DEF Answers
  <2>9. \A i \in 1 .. Len(h) : i = at => h[i].calls = out[i].calls \ open
    BY <1>2, <2>1, <2>2
  <2>10. Leaves(out, open, at, h)
    BY <1>2, <2>4, <2>5, <2>6, <2>7, <2>8, <2>9 DEF Leaves
  <2>. QED
    BY <1>1, <2>2, <2>3, <2>10
<1>. QED
  BY <1>3, <1>4

\* Calls that have no result by the next other row are struck.
LEMMA FlushIsSane ==
    ASSUME NEW acc, Sane(acc)
    PROVE  Sane(FlushUnmatched(acc)) /\ FlushUnmatched(acc).open = {}
<1>1. PICK out, open, at, new : out = acc.out /\ open = acc.open /\ at = acc.at /\ new = FlushUnmatched(acc)
  OBVIOUS
<1>2. PICK h : h = new.out /\ Leaves(out, open, at, h) /\ h \in Seq(Row) /\ new.open = {}
               /\ new \in [out : Seq(Row), open : SUBSET Id, at : Nat]
  BY <1>1, FlushKeepsSane
<1>3. /\ out \in Seq(Row)
      /\ \A i \in 1 .. Len(out) :
           /\ out[i].role = "tool" => \E j \in 1 .. Len(out) : Answers(out, i, j)
           /\ open = {} \/ i # at => out[i].calls \subseteq Answered(out, i)
      /\ open # {} => /\ at \in 1 .. Len(out) /\ Requests(out[at])
                      /\ \A k \in (at + 1) .. Len(out) : out[k].role = "tool"
                      /\ open = out[at].calls \ {out[k].id : k \in (at + 1) .. Len(out)}
  BY <1>1 DEF Sane
<1>4. \A i \in 1 .. Len(h) : i \in 1 .. Len(out)
  BY <1>2 DEF Leaves
<1>5. /\ \A i \in 1 .. Len(h) : h[i].role = out[i].role /\ h[i].calls \subseteq out[i].calls
      /\ \A i \in 1 .. Len(out), j \in 1 .. Len(out) : Answers(out, i, j) =>
           i \in 1 .. Len(h) /\ j \in 1 .. Len(h) /\ Answers(h, i, j) /\ h[i].id = out[i].id
  <2>0. Leaves(out, open, at, h)
    BY <1>2
  <2>1. \A i \in 1 .. Len(h) : h[i].role = out[i].role /\ h[i].id = out[i].id /\ h[i].calls \subseteq out[i].calls
    BY <2>0 DEF Leaves
  <2>2. \A i \in 1 .. Len(out), j \in 1 .. Len(out) : Answers(out, i, j) => i \in 1 .. Len(h) /\ j \in 1 .. Len(h)
    BY <2>0 DEF Leaves
  <2>3. \A i \in 1 .. Len(h), j \in 1 .. Len(h) : Answers(h, i, j) <=> Answers(out, i, j)
    BY <2>0 DEF Leaves
  <2>. QED
    BY <2>1, <2>2, <2>3
<1>7. ASSUME NEW i \in 1 .. Len(h) PROVE Answered(out, i) \subseteq Answered(h, i)
  BY <1>4, <1>5 DEF Answered
<1>6. ASSUME NEW i \in 1 .. Len(h)
      PROVE  /\ h[i].role = "tool" => \E j \in 1 .. Len(h) : Answers(h, i, j)
             /\ h[i].calls \subseteq Answered(h, i)
  <2>1. h[i].role = "tool" => \E j \in 1 .. Len(h) : Answers(h, i, j)
    BY <1>3, <1>4, <1>5
  <2>2. CASE open = {} \/ i # at
    BY <1>3, <1>4, <1>5, <1>7, <2>1, <2>2
  <2>3. CASE open # {} /\ i = at
    <3>1. ASSUME NEW c \in h[i].calls PROVE c \in Answered(out, at)
      <4>1. PICK k \in (at + 1) .. Len(out) : c = out[k].id
        BY <1>2, <1>3, <2>3, <3>1 DEF Leaves
      <4>2. k \in 1 .. Len(out) /\ out[k].role = "tool" /\ out[at].role # "tool"
        BY <1>2, <1>3, <2>3, <4>1 DEF Requests
      <4>3. PICK j \in 1 .. Len(out) : Answers(out, k, j)
        BY <1>3, <4>2
      <4>4. j = at
        BY <1>3, <2>3, <4>1, <4>2, <4>3, AnswersLast
      <4>. QED
        BY <4>1, <4>2, <4>3, <4>4 DEF Answered
    <3>. QED
      BY <1>7, <2>1, <2>3, <3>1
  <2>. QED
    BY <2>2, <2>3
<1>. QED
  BY <1>1, <1>2, <1>6 DEF Sane

\* A row after the others takes nothing from them.
LEMMA AppendKeeps ==
    ASSUME NEW out \in Seq(Row), NEW m \in Row
    PROVE  /\ Append(out, m) \in Seq(Row) /\ Len(Append(out, m)) = Len(out) + 1 /\ Len(out) \in Nat
           /\ Append(out, m)[Len(out) + 1] = m
           /\ \A i \in 1 .. Len(out) :
                /\ Append(out, m)[i] = out[i] /\ out[i] \in Row
                /\ \A j \in 1 .. Len(out) : Answers(out, i, j) => Answers(Append(out, m), i, j)
                /\ Answered(out, i) \subseteq Answered(Append(out, m), i)
<1>1. /\ Append(out, m) \in Seq(Row) /\ Len(Append(out, m)) = Len(out) + 1 /\ Len(out) \in Nat
      /\ Append(out, m)[Len(out) + 1] = m
      /\ \A i \in 1 .. Len(out) : Append(out, m)[i] = out[i]
  BY AppendProperties, LenProperties
<1>2. ASSUME NEW i \in 1 .. Len(out)
      PROVE  /\ out[i] \in Row
             /\ \A j \in 1 .. Len(out) : Answers(out, i, j) => Answers(Append(out, m), i, j)
             /\ Answered(out, i) \subseteq Answered(Append(out, m), i)
  BY ElementOfSeq, AnsweredAppend, AnswersAppend
<1>. QED
  BY <1>1, <1>2

LEMMA ResultIsSane ==
    ASSUME NEW acc, Sane(acc), NEW m \in Row, m.role = "tool", m.id \in acc.open
    PROVE  Sane([acc EXCEPT !.out = Append(@, m), !.open = @ \ {m.id}])
<1>1. PICK out, open, at : out = acc.out /\ open = acc.open /\ at = acc.at
  OBVIOUS
<1>2. /\ out \in Seq(Row) /\ open \subseteq Id /\ at \in 1 .. Len(out) /\ Requests(out[at]) /\ at \in Nat
      /\ \A k \in (at + 1) .. Len(out) : out[k].role = "tool"
      /\ open = out[at].calls \ {out[k].id : k \in (at + 1) .. Len(out)}
      /\ \A i \in 1 .. Len(out) :
           /\ out[i].role = "tool" => \E j \in 1 .. Len(out) : Answers(out, i, j)
           /\ i # at => out[i].calls \subseteq Answered(out, i)
  BY <1>1 DEF Sane
<1>3. PICK h, n : h = Append(out, m) /\ n = Len(h)
  OBVIOUS
<1>4. /\ h \in Seq(Row) /\ Len(h) = Len(out) + 1 /\ n = Len(out) + 1 /\ Len(out) \in Nat /\ h[n] = m
      /\ \A i \in 1 .. Len(out) :
           /\ h[i] = out[i] /\ out[i] \in Row
           /\ \A j \in 1 .. Len(out) : Answers(out, i, j) => j \in 1 .. n /\ Answers(h, i, j)
           /\ Answered(out, i) \subseteq Answered(h, i)
  BY <1>2, <1>3, AppendKeeps
<1>5. Answers(h, n, at)
  <2>1. at < n /\ Requests(h[at]) /\ h[n].id \in h[at].calls
    BY <1>1, <1>2, <1>4
  <2>2. ASSUME NEW k \in (at + 1) .. n PROVE h[k].role = "tool"
    BY <1>2, <1>4, <2>2
  <2>3. ASSUME NEW k \in (at + 1) .. (n - 1) PROVE h[k].id # h[n].id
    <3>1. k \in (at + 1) .. Len(out) /\ k \in 1 .. Len(out)
      BY <1>2, <1>4, <2>3
    <3>. QED
      BY <1>1, <1>2, <1>4, <3>1
  <2>. QED
    BY <2>1, <2>2, <2>3 DEF Answers
<1>6. \A k \in (at + 1) .. n : h[k].role = "tool"
  BY <1>5 DEF Answers
<1>7. ASSUME NEW i \in 1 .. n
      PROVE  h[i].role = "tool" => \E j \in 1 .. n : Answers(h, i, j)
  <2>1. CASE i = n
    BY <1>2, <1>4, <1>5, <2>1
  <2>2. CASE i \in 1 .. Len(out)
    BY <1>2, <1>4, <2>2
  <2>. QED
    BY <1>4, <2>1, <2>2
<1>8. {h[k].id : k \in (at + 1) .. n} = {out[k].id : k \in (at + 1) .. Len(out)} \cup {m.id}
  <2>1. \A k \in (at + 1) .. n : k = n \/ (k \in (at + 1) .. Len(out) /\ k \in 1 .. Len(out))
    BY <1>2, <1>4
  <2>2. n \in (at + 1) .. n /\ \A k \in (at + 1) .. Len(out) : k \in (at + 1) .. n /\ k \in 1 .. Len(out)
    BY <1>2, <1>4
  <2>. QED
    BY <1>4, <2>1, <2>2
<1>9. ASSUME NEW i \in 1 .. n, open \ {m.id} = {} \/ i # at
      PROVE  h[i].calls \subseteq Answered(h, i)
  <2>1. CASE i = n
    BY <1>4, <2>1, RowTypes
  <2>2. CASE i \in 1 .. Len(out) /\ i # at
    BY <1>2, <1>4, <2>2
  <2>3. CASE i = at
    <3>1. ASSUME NEW c \in h[at].calls PROVE c \in Answered(h, at)
      <4>1. PICK k \in (at + 1) .. n : h[k].id = c
        BY <1>2, <1>4, <1>8, <1>9, <2>3, <3>1
      <4>2. k \in 1 .. n /\ h[k].role = "tool" /\ h[at].role # "tool"
        BY <1>2, <1>4, <1>6 DEF Requests
      <4>3. PICK j \in 1 .. n : Answers(h, k, j)
        BY <1>7, <4>2
      <4>4. j = at
        <5>1. /\ at \in 1 .. Len(h) /\ k \in (at + 1) .. Len(h) /\ j \in 1 .. Len(h)
              /\ \A l \in (at + 1) .. Len(h) : h[l].role = "tool"
          BY <1>2, <1>4, <1>6, <4>1, <4>3
        <5>. QED
          BY <1>4, <4>2, <4>3, <5>1, AnswersLast
      <4>. QED
        BY <1>3, <4>1, <4>2, <4>3, <4>4 DEF Answered
    <3>. QED
      BY <2>3, <3>1
  <2>. QED
    BY <1>4, <1>9, <2>1, <2>2, <2>3
<1>10. PICK new : new = [acc EXCEPT !.out = Append(@, m), !.open = @ \ {m.id}]
  OBVIOUS
<1>11. new \in [out : Seq(Row), open : SUBSET Id, at : Nat] /\ new.out = h /\ new.open = open \ {m.id} /\ new.at = at
  BY <1>1, <1>3, <1>4, <1>10 DEF Sane
<1>12. h[at] = out[at] /\ open \ {m.id} = h[at].calls \ {h[k].id : k \in (at + 1) .. n}
  BY <1>2, <1>4, <1>8
<1>13. Sane(new)
  <2>1. \A i \in 1 .. Len(h) :
          /\ h[i].role = "tool" => \E j \in 1 .. Len(h) : Answers(h, i, j)
          /\ new.open = {} \/ i # at => h[i].calls \subseteq Answered(h, i)
    BY <1>3, <1>7, <1>9, <1>11
  <2>2. /\ at \in 1 .. Len(h) /\ Requests(h[at])
        /\ \A k \in (at + 1) .. Len(h) : h[k].role = "tool"
    BY <1>2, <1>3, <1>4, <1>6
  <2>3. new.open = h[at].calls \ {h[k].id : k \in (at + 1) .. Len(h)}
    BY <1>3, <1>11, <1>12
  <2>4. \A i \in 1 .. Len(new.out) :
          /\ new.out[i].role = "tool" => \E j \in 1 .. Len(new.out) : Answers(new.out, i, j)
          /\ new.open = {} \/ i # new.at => new.out[i].calls \subseteq Answered(new.out, i)
    BY <1>11, <2>1
  <2>5. /\ new.at \in 1 .. Len(new.out) /\ Requests(new.out[new.at])
        /\ \A k \in (new.at + 1) .. Len(new.out) : new.out[k].role = "tool"
        /\ new.open = new.out[new.at].calls \ {new.out[k].id : k \in (new.at + 1) .. Len(new.out)}
    BY <1>11, <2>2, <2>3
  <2>. QED
    BY <1>11, <2>4, <2>5 DEF Sane
<1>. QED
  BY <1>10, <1>13

\* A row of another role, after a flush: its calls are open.
LEMMA OtherIsSane ==
    ASSUME NEW acc, Sane(acc), acc.open = {}, NEW m \in Row, m.role # "tool",
           NEW new \in [out : Seq(Row), open : SUBSET Id, at : Nat],
           new.out = Append(acc.out, m), new.open = m.calls,
           new.open # {} => new.at = Len(acc.out) + 1
    PROVE  Sane(new)
<1>1. PICK out, h, n : out = acc.out /\ h = Append(out, m) /\ n = Len(h)
  OBVIOUS
<1>2. /\ out \in Seq(Row)
      /\ \A i \in 1 .. Len(out) :
           /\ out[i].role = "tool" => \E j \in 1 .. Len(out) : Answers(out, i, j)
           /\ out[i].calls \subseteq Answered(out, i)
  BY <1>1 DEF Sane
<1>3. /\ h \in Seq(Row) /\ Len(h) = Len(out) + 1 /\ n = Len(out) + 1 /\ Len(out) \in Nat /\ h[n] = m
      /\ \A i \in 1 .. Len(out) :
           /\ h[i] = out[i] /\ out[i] \in Row
           /\ \A j \in 1 .. Len(out) : Answers(out, i, j) => j \in 1 .. n /\ Answers(h, i, j)
           /\ Answered(out, i) \subseteq Answered(h, i)
  <2>1. PICK g : g = Append(out, m)
    OBVIOUS
  <2>2. /\ g \in Seq(Row) /\ Len(g) = Len(out) + 1 /\ Len(out) \in Nat /\ g[Len(out) + 1] = m
        /\ \A i \in 1 .. Len(out) :
             /\ g[i] = out[i] /\ out[i] \in Row
             /\ \A j \in 1 .. Len(out) : Answers(out, i, j) => j \in 1 .. Len(g) /\ Answers(g, i, j)
             /\ Answered(out, i) \subseteq Answered(g, i)
    BY <1>2, <2>1, AppendKeeps
  <2>. QED
    BY <1>1, <2>1, <2>2
<1>4. \A i \in 1 .. n : i = n \/ i \in 1 .. Len(out)
  BY <1>3
<1>5. ASSUME NEW i \in 1 .. n
      PROVE  /\ h[i].role = "tool" => \E j \in 1 .. n : Answers(h, i, j)
             /\ m.calls = {} \/ i # n => h[i].calls \subseteq Answered(h, i)
  BY <1>2, <1>3, <1>4
<1>6. {h[k].id : k \in (n + 1) .. n} = {} /\ \A k \in (n + 1) .. n : FALSE
  BY <1>3
<1>7. m.calls # {} => n \in 1 .. n /\ Requests(h[n]) /\ m.calls = h[n].calls \ {h[k].id : k \in (n + 1) .. n}
  BY <1>3, <1>6, RowTypes
<1>8. new.out = h /\ Len(h) = n /\ (new.open # {} => new.at = n)
  BY <1>1, <1>3
<1>. QED
  BY <1>5, <1>6, <1>7, <1>8 DEF Sane

\* What becomes of the next row.
LEMMA TakeIs ==
    ASSUME NEW acc, Sane(acc), NEW m \in Row
    PROVE  /\ m.role = "tool" /\ m.id \in acc.open =>
                Take(acc, m) = [acc EXCEPT !.out = Append(@, m), !.open = @ \ {m.id}]
           /\ m.role = "tool" /\ m.id \notin acc.open => Take(acc, m) = acc
           /\ m.role # "tool" =>
                /\ Take(acc, m) \in [out : Seq(Row), open : SUBSET Id, at : Nat]
                /\ Take(acc, m).out = Append(FlushUnmatched(acc).out, m)
                /\ Take(acc, m).open = m.calls
                /\ m.calls # {} => Take(acc, m).at = Len(FlushUnmatched(acc).out) + 1
<1>1. CASE m.role = "tool"
  <2>1. Take(acc, m) = TakeResult(acc, m)
    BY <1>1 DEF Take
  <2>. QED
    BY <1>1, <2>1 DEF TakeResult
<1>2. CASE m.role # "tool"
  <2>1. PICK b : b = FlushUnmatched(acc)
    OBVIOUS
  <2>2. b.open = {} /\ b \in [out : Seq(Row), open : SUBSET Id, at : Nat]
    BY <2>1, FlushKeepsSane
  <2>3. Append(b.out, m) \in Seq(Row) /\ Len(Append(b.out, m)) = Len(b.out) + 1 /\ Len(b.out) \in Nat
    BY <2>2, AppendProperties, LenProperties
  <2>4. CASE m.role = "assistant" /\ HasCalls(m)
    <3>1. Take(acc, m) = [out |-> Append(b.out, m), open |-> m.calls, at |-> Len(Append(b.out, m))]
      BY <1>2, <2>1, <2>4 DEF Take, TakeRequest
    <3>2. m.calls \subseteq Id
      BY RowTypes
    <3>. QED
      BY <1>2, <2>1, <2>3, <3>1, <3>2
  <2>5. CASE ~(m.role = "assistant" /\ HasCalls(m))
    <3>1. Take(acc, m) = [b EXCEPT !.out = Append(@, m)]
      BY <1>2, <2>1, <2>5 DEF Take, TakeOther
    <3>2. m.calls = {}
      BY <2>5, RowTypes DEF HasCalls
    <3>. QED
      BY <1>2, <2>1, <2>2, <2>3, <3>1, <3>2
  <2>. QED
    BY <2>4, <2>5
<1>. QED
  BY <1>1, <1>2

LEMMA TakeIsSane ==
    ASSUME NEW acc, Sane(acc), NEW m \in Row
    PROVE  Sane(Take(acc, m))
<1>1. CASE m.role = "tool" /\ m.id \in acc.open
  <2>1. Take(acc, m) = [acc EXCEPT !.out = Append(@, m), !.open = @ \ {m.id}]
    BY <1>1, TakeIs
  <2>2. Sane([acc EXCEPT !.out = Append(@, m), !.open = @ \ {m.id}])
    BY <1>1, ResultIsSane
  <2>. QED
    BY <2>1, <2>2
<1>2. CASE m.role = "tool" /\ m.id \notin acc.open
  BY <1>2, TakeIs
<1>3. CASE m.role # "tool"
  <2>1. PICK b, new : b = FlushUnmatched(acc) /\ new = Take(acc, m)
    OBVIOUS
  <2>2. Sane(b) /\ b.open = {}
    BY <2>1, FlushIsSane
  <2>3. /\ new \in [out : Seq(Row), open : SUBSET Id, at : Nat]
        /\ new.out = Append(b.out, m) /\ new.open = m.calls
        /\ new.open # {} => new.at = Len(b.out) + 1
    BY <1>3, <2>1, TakeIs
  <2>4. Sane(new)
    BY <1>3, <2>2, <2>3, OtherIsSane
  <2>. QED
    BY <2>1, <2>4
<1>. QED
  BY <1>1, <1>2, <1>3

\* Whatever the rows are, in what Sanitize makes of them every result follows its request and
\* every call with an id has its result (history.go:92-175).
THEOREM SanitizedIsWellFormed ==
    ASSUME NEW msgs \in Seq(Row)
    PROVE  Sanitize(msgs) \in Seq(Row) /\ WellFormed(Sanitize(msgs))
<1>1. Len(msgs) \in Nat
  BY LenProperties
<1>2. PICK f : /\ f[0] = Start
               /\ \A n \in 1 .. Len(msgs) : f[n] = Take(f[n - 1], msgs[n])
               /\ Sanitize(msgs) = FlushUnmatched(f[Len(msgs)]).out
  BY <1>1, SanitizeIs
<1>. DEFINE T == {n \in Nat : n <= Len(msgs) => Sane(f[n])}
<1>3. 0 \in T
  BY <1>2, StartIsSane
<1>4. ASSUME NEW n \in Nat, n \in T PROVE n + 1 \in T
  <2>1. SUFFICES ASSUME n + 1 <= Len(msgs) PROVE Sane(f[n + 1])
    BY <1>1
  <2>2. n <= Len(msgs) /\ n + 1 \in 1 .. Len(msgs) /\ (n + 1) - 1 = n
    BY <1>1, <2>1
  <2>3. Sane(f[n]) /\ msgs[n + 1] \in Row /\ f[n + 1] = Take(f[n], msgs[n + 1])
    BY <1>2, <1>4, <2>2, ElementOfSeq
  <2>. QED
    BY <2>3, TakeIsSane
<1>5. Len(msgs) \in T
  <2>. HIDE DEF T
  <2>. QED
    BY <1>1, <1>3, <1>4, NatSetInduction
<1>6. Sane(f[Len(msgs)])
  BY <1>1, <1>5
<1>7. PICK g : /\ g = FlushUnmatched(f[Len(msgs)])
               /\ Sane(g) /\ g.open = {}
  BY <1>6, FlushIsSane
<1>8. g.out \in Seq(Row)
  BY <1>7 DEF Sane
<1>9. WellFormed(g.out)
  BY <1>7, SaneIsWellFormed
<1>. QED
  BY <1>2, <1>7, <1>8, <1>9

-----------------------------------------------------------------------------
(* Whose results are kept, and to whose requests they go                     *)

\* Own: the pairs of turns of which the second may answer the first.
OwnAnswers(h, Own) ==
    \A i \in 1 .. Len(h), j \in 1 .. Len(h) : Answers(h, i, j) => <<h[j].by, h[i].by>> \in Own

\* The results that answer something are in h.
Shown(h, msgs, n) ==
    \A q \in 1 .. n, p \in 1 .. n : Answers(msgs, q, p) =>
        \E i \in 1 .. Len(h) : h[i] = msgs[q]

\* Row p is the last row but for results.
LastOther(msgs, n, p) == p \in 1 .. n /\ \A k \in (p + 1) .. n : msgs[k].role = "tool"

\* The calls that are open after n rows are those of the last row but for results, less the
\* results there were, and the results that answer something were all kept.
Follows(acc, msgs, n, Own) ==
    /\ OwnAnswers(acc.out, Own)
    /\ acc.open # {} => \E p \in 1 .. n : /\ LastOther(msgs, n, p) /\ Requests(msgs[p])
                                          /\ msgs[p].by = acc.out[acc.at].by
    /\ \A p \in 1 .. n : LastOther(msgs, n, p) /\ Requests(msgs[p]) =>
          acc.open = msgs[p].calls \ {msgs[k].id : k \in (p + 1) .. n}
    /\ Shown(acc.out, msgs, n)

LEMMA StartFollows ==
    ASSUME NEW msgs, NEW Own
    PROVE  Follows(Start, msgs, 0, Own)
<1>1. Start.open = {} /\ Start.out = <<>>
  BY DEF Start
<1>2. Len(Start.out) = 0
  BY <1>1
<1>. QED
  BY <1>1, <1>2 DEF Follows, OwnAnswers, Shown

LEMMA ToolsAfter ==
    ASSUME NEW out \in Seq(Row), NEW m \in Row, m.role = "tool", NEW at \in 1 .. Len(out),
           \A k \in (at + 1) .. Len(out) : out[k].role = "tool",
           NEW h \in Seq(Row), Len(h) = Len(out) + 1, h[Len(out) + 1] = m,
           \A i \in 1 .. Len(out) : h[i] = out[i]
    PROVE  \A k \in (at + 1) .. Len(h) : h[k].role = "tool"
<1>. PICK c \in Nat : c = Len(out)
  BY LenProperties
<1>1. ASSUME NEW k \in (at + 1) .. (c + 1), k # c + 1 PROVE k \in (at + 1) .. c /\ k \in 1 .. c
  BY <1>1
<1>. QED
  BY <1>1

\* One more row.
LEMMA ResultFollows ==
    ASSUME NEW acc, Sane(acc), NEW msgs \in Seq(Row), NEW n \in Nat, n + 1 \in 1 .. Len(msgs), NEW Own,
           Follows(acc, msgs, n, Own), OwnAnswers(msgs, Own),
           NEW m, m = msgs[n + 1], m \in Row, m.role = "tool", m.id \in acc.open,
           NEW new, new = [acc EXCEPT !.out = Append(@, m), !.open = @ \ {m.id}]
    PROVE  Follows(new, msgs, n + 1, Own)
<1>1. PICK out, open, at, h : out = acc.out /\ open = acc.open /\ at = acc.at /\ h = Append(out, m)
  OBVIOUS
<1>2. /\ out \in Seq(Row) /\ open # {} /\ at \in 1 .. Len(out)
      /\ acc \in [out : Seq(Row), open : SUBSET Id, at : Nat]
  BY <1>1 DEF Sane
<1>3. new.out = h /\ new.open = open \ {m.id} /\ new.at = at
  BY <1>1, <1>2
<1>4. Sane(new)
  BY ResultIsSane
<1>5. /\ h \in Seq(Row) /\ Len(h) = Len(out) + 1 /\ Len(out) \in Nat /\ h[Len(out) + 1] = m
      /\ \A i \in 1 .. Len(out) : h[i] = out[i]
  BY <1>1, <1>2, AppendKeeps
<1>6. PICK p \in 1 .. n : LastOther(msgs, n, p) /\ Requests(msgs[p]) /\ msgs[p].by = out[at].by
  BY <1>1, <1>2 DEF Follows
<1>7. open = msgs[p].calls \ {msgs[k].id : k \in (p + 1) .. n}
  BY <1>1, <1>6 DEF Follows
<1>8. Answers(msgs, n + 1, p)
  <2>1. \A k \in (p + 1) .. (n + 1) : k = n + 1 \/ k \in (p + 1) .. n
    OBVIOUS
  <2>2. \A k \in (p + 1) .. (n + 1) : msgs[k].role = "tool"
    BY <1>6, <2>1 DEF LastOther
  <2>3. \A k \in (p + 1) .. n : msgs[k].id # m.id
    BY <1>1, <1>7
  <2>4. p < n + 1 /\ (n + 1) - 1 = n /\ m.id \in msgs[p].calls
    BY <1>1, <1>7
  <2>. QED
    BY <1>6, <2>2, <2>3, <2>4 DEF Answers
<1>9. OwnAnswers(h, Own)
  <2>1. ASSUME NEW i \in 1 .. Len(h), NEW j \in 1 .. Len(h), Answers(h, i, j)
        PROVE  <<h[j].by, h[i].by>> \in Own
    <3>1. j < i
      BY <2>1 DEF Answers
    <3>2. CASE i \in 1 .. Len(out)
      <4>1. j \in 1 .. Len(out)
        BY <1>5, <3>1, <3>2
      <4>2. Answers(out, i, j)
        BY <1>1, <1>2, <2>1, <3>2, <4>1, AnswersAppend
      <4>3. <<out[j].by, out[i].by>> \in Own
        BY <1>1, <3>2, <4>1, <4>2 DEF Follows, OwnAnswers
      <4>. QED
        BY <1>5, <3>2, <4>1, <4>3
    <3>3. CASE i = Len(out) + 1
      <4>1. /\ at \in 1 .. Len(h) /\ Requests(out[at]) /\ h[at] = out[at]
            /\ \A k \in (at + 1) .. Len(out) : out[k].role = "tool"
        BY <1>1, <1>2, <1>5 DEF Sane
      <4>. PICK c \in Nat : c = Len(out) /\ Len(h) = c + 1 /\ at \in 1 .. c
        BY <1>2, <1>5
      <4>2. \A k \in (at + 1) .. Len(h) : h[k].role = "tool"
        <5>1. at \in 1 .. Len(out) /\ out \in Seq(Row)
          BY <1>2
        <5>2. \A k \in (at + 1) .. Len(out) : out[k].role = "tool"
          BY <4>1
        <5>3. h \in Seq(Row) /\ Len(h) = Len(out) + 1 /\ h[Len(out) + 1] = m
          BY <1>5
        <5>4. \A k \in 1 .. Len(out) : h[k] = out[k]
          BY <1>5
        <5>. QED
          BY <5>1, <5>2, <5>3, <5>4, ToolsAfter
      <4>3. i \in (at + 1) .. Len(h) /\ h[at].role # "tool"
        <5>1. i \in (at + 1) .. Len(h)
          BY <3>3
        <5>. QED
          BY <4>1, <5>1 DEF Requests
      <4>4. j = at
        <5>1. h \in Seq(Row) /\ at \in 1 .. Len(h)
          BY <1>5, <4>1
        <5>. QED
          BY <2>1, <4>2, <4>3, <5>1, AnswersLast
      <4>5. <<msgs[p].by, m.by>> \in Own
        BY <1>8 DEF OwnAnswers
      <4>. QED
        BY <1>5, <1>6, <3>3, <4>1, <4>4, <4>5
    <3>. QED
      BY <1>5, <3>2, <3>3
  <2>. QED
    BY <2>1 DEF OwnAnswers
<1>10. /\ p \in 1 .. n + 1 /\ LastOther(msgs, n + 1, p) /\ h[at].by = msgs[p].by
  <2>1. \A k \in (p + 1) .. (n + 1) : k = n + 1 \/ k \in (p + 1) .. n
    OBVIOUS
  <2>. QED
    BY <1>2, <1>5, <1>6, <2>1 DEF LastOther
<1>11. ASSUME NEW o \in 1 .. n + 1, LastOther(msgs, n + 1, o), Requests(msgs[o])
       PROVE  open \ {m.id} = msgs[o].calls \ {msgs[k].id : k \in (o + 1) .. (n + 1)}
  <2>1. o # n + 1
    BY <1>11 DEF Requests
  <2>2. o \in 1 .. n /\ LastOther(msgs, n, o)
    BY <1>11, <2>1 DEF LastOther
  <2>3. open = msgs[o].calls \ {msgs[k].id : k \in (o + 1) .. n}
    BY <1>1, <1>11, <2>2 DEF Follows
  <2>4. {msgs[k].id : k \in (o + 1) .. (n + 1)} = {msgs[k].id : k \in (o + 1) .. n} \cup {m.id}
    <3>1. \A k \in (o + 1) .. (n + 1) : k = n + 1 \/ k \in (o + 1) .. n
      OBVIOUS
    <3>2. n + 1 \in (o + 1) .. (n + 1) /\ \A k \in (o + 1) .. n : k \in (o + 1) .. (n + 1)
      BY <2>2
    <3>. QED
      BY <3>1, <3>2
  <2>. QED
    BY <2>3, <2>4
<1>12. ASSUME NEW q \in 1 .. n + 1, NEW o \in 1 .. n + 1, Answers(msgs, q, o)
       PROVE  \E i \in 1 .. Len(h) : h[i] = msgs[q]
  <2>1. CASE q = n + 1
    BY <1>5, <2>1
  <2>2. CASE q # n + 1
    <3>1. q \in 1 .. n /\ o \in 1 .. n
      BY <1>12, <2>2 DEF Answers
    <3>2. PICK i \in 1 .. Len(out) : out[i] = msgs[q]
      BY <1>1, <1>12, <3>1 DEF Follows, Shown
    <3>. QED
      BY <1>5, <3>2
  <2>. QED
    BY <2>1, <2>2
<1>. QED
  <2>1. Shown(h, msgs, n + 1)
    BY <1>12 DEF Shown
  <2>2. new.out = h /\ new.open = open \ {m.id} /\ new.at = at
    BY <1>3
  <2>3. \E o \in 1 .. n + 1 : LastOther(msgs, n + 1, o) /\ Requests(msgs[o]) /\ msgs[o].by = h[at].by
    BY <1>6, <1>10
  <2>. QED
    BY <1>9, <1>11, <2>1, <2>2, <2>3 DEF Follows

LEMMA DroppedFollows ==
    ASSUME NEW acc, NEW msgs \in Seq(Row), NEW n \in Nat, n + 1 \in 1 .. Len(msgs), NEW Own,
           Follows(acc, msgs, n, Own), msgs[n + 1].role = "tool", msgs[n + 1].id \notin acc.open
    PROVE  Follows(acc, msgs, n + 1, Own)
<1>1. ASSUME NEW p \in 1 .. n, LastOther(msgs, n, p) PROVE LastOther(msgs, n + 1, p)
  <2>1. \A k \in (p + 1) .. (n + 1) : k = n + 1 \/ k \in (p + 1) .. n
    OBVIOUS
  <2>. QED
    BY <1>1, <2>1 DEF LastOther
<1>2. acc.open # {} => \E p \in 1 .. n + 1 : /\ LastOther(msgs, n + 1, p) /\ Requests(msgs[p])
                                             /\ msgs[p].by = acc.out[acc.at].by
  BY <1>1 DEF Follows
<1>3. ASSUME NEW o \in 1 .. n + 1, LastOther(msgs, n + 1, o), Requests(msgs[o])
      PROVE  acc.open = msgs[o].calls \ {msgs[k].id : k \in (o + 1) .. (n + 1)}
  <2>1. o # n + 1
    BY <1>3 DEF Requests
  <2>2. o \in 1 .. n /\ LastOther(msgs, n, o)
    BY <1>3, <2>1 DEF LastOther
  <2>3. acc.open = msgs[o].calls \ {msgs[k].id : k \in (o + 1) .. n}
    BY <1>3, <2>2 DEF Follows
  <2>4. {msgs[k].id : k \in (o + 1) .. (n + 1)} = {msgs[k].id : k \in (o + 1) .. n} \cup {msgs[n + 1].id}
    <3>1. \A k \in (o + 1) .. (n + 1) : k = n + 1 \/ k \in (o + 1) .. n
      OBVIOUS
    <3>2. n + 1 \in (o + 1) .. (n + 1) /\ \A k \in (o + 1) .. n : k \in (o + 1) .. (n + 1)
      BY <2>2
    <3>. QED
      BY <3>1, <3>2
  <2>. QED
    BY <2>3, <2>4
<1>4. ASSUME NEW q \in 1 .. n + 1, NEW o \in 1 .. n + 1, Answers(msgs, q, o)
      PROVE  \E i \in 1 .. Len(acc.out) : acc.out[i] = msgs[q]
  <2>1. o \in 1 .. n
    BY <1>4 DEF Answers
  <2>2. q # n + 1
    <3>1. SUFFICES ASSUME q = n + 1 PROVE FALSE
      OBVIOUS
    <3>2. LastOther(msgs, n, o) /\ Requests(msgs[o]) /\ msgs[n + 1].id \in msgs[o].calls
      BY <1>4, <2>1, <3>1 DEF Answers, LastOther
    <3>3. acc.open = msgs[o].calls \ {msgs[k].id : k \in (o + 1) .. n}
      BY <2>1, <3>2 DEF Follows
    <3>4. \A k \in (o + 1) .. n : msgs[k].id # msgs[n + 1].id
      BY <1>4, <3>1 DEF Answers
    <3>. QED
      BY <3>2, <3>3, <3>4
  <2>3. q \in 1 .. n
    BY <2>2
  <2>. QED
    BY <1>4, <2>1, <2>3 DEF Follows, Shown
<1>. QED
  BY <1>2, <1>3, <1>4 DEF Follows, Shown

LEMMA FlushFollows ==
    ASSUME NEW acc, Sane(acc), NEW msgs, NEW n \in Nat, NEW Own, Follows(acc, msgs, n, Own),
           NEW h, h = FlushUnmatched(acc).out
    PROVE  OwnAnswers(h, Own) /\ Shown(h, msgs, n)
<1>1. PICK out : out = acc.out
  OBVIOUS
<1>2. Leaves(out, acc.open, acc.at, h)
  BY <1>1, FlushKeepsSane
<1>3. /\ Len(h) <= Len(out) /\ Len(h) \in Nat /\ Len(out) \in Nat
      /\ \A i \in 1 .. Len(h) : h[i].role = out[i].role /\ h[i].id = out[i].id /\ h[i].by = out[i].by
      /\ \A i \in 1 .. Len(h) : h[i].role # "assistant" => h[i] = out[i]
      /\ \A i \in 1 .. Len(out) : out[i].role = "tool" => i \in 1 .. Len(h)
      /\ \A i \in 1 .. Len(h), j \in 1 .. Len(h) : Answers(h, i, j) <=> Answers(out, i, j)
  BY <1>2 DEF Leaves
<1>4. ASSUME NEW i \in 1 .. Len(h), NEW j \in 1 .. Len(h), Answers(h, i, j)
      PROVE  <<h[j].by, h[i].by>> \in Own
  <2>1. Answers(out, i, j) /\ i \in 1 .. Len(out) /\ j \in 1 .. Len(out)
    BY <1>3, <1>4
  <2>2. <<out[j].by, out[i].by>> \in Own
    BY <1>1, <2>1 DEF Follows, OwnAnswers
  <2>. QED
    BY <1>3, <2>2
<1>5. ASSUME NEW q \in 1 .. n, NEW p \in 1 .. n, Answers(msgs, q, p)
      PROVE  \E i \in 1 .. Len(h) : h[i] = msgs[q]
  <2>1. PICK i \in 1 .. Len(out) : out[i] = msgs[q]
    BY <1>1, <1>5 DEF Follows, Shown
  <2>2. msgs[q].role = "tool"
    BY <1>5 DEF Answers
  <2>3. i \in 1 .. Len(h) /\ h[i].role = "tool"
    BY <1>3, <2>1, <2>2
  <2>. QED
    BY <1>3, <2>1, <2>3
<1>. QED
  BY <1>4, <1>5 DEF OwnAnswers, Shown

LEMMA OtherFollows ==
    ASSUME NEW acc, Sane(acc), NEW msgs \in Seq(Row), NEW n \in Nat, n + 1 \in 1 .. Len(msgs), NEW Own,
           Follows(acc, msgs, n, Own), NEW m, m = msgs[n + 1], m \in Row, m.role # "tool",
           NEW new, new.out = Append(FlushUnmatched(acc).out, m), new.open = m.calls,
           m.calls # {} => new.at = Len(FlushUnmatched(acc).out) + 1
    PROVE  Follows(new, msgs, n + 1, Own)
<1>1. PICK b, h : b = FlushUnmatched(acc).out /\ h = Append(b, m)
  OBVIOUS
<1>2. b \in Seq(Row)
  BY <1>1, FlushKeepsSane
<1>3. /\ h \in Seq(Row) /\ Len(h) = Len(b) + 1 /\ Len(b) \in Nat /\ h[Len(b) + 1] = m
      /\ \A i \in 1 .. Len(b) : h[i] = b[i]
  BY <1>1, <1>2, AppendKeeps
<1>4. new.out = h /\ (m.calls # {} => new.at = Len(b) + 1)
  BY <1>1
<1>5. OwnAnswers(h, Own)
  <2>1. ASSUME NEW i \in 1 .. Len(h), NEW j \in 1 .. Len(h), Answers(h, i, j)
        PROVE  <<h[j].by, h[i].by>> \in Own
    <3>1. j < i /\ i \in (j + 1) .. i /\ h[i].role = "tool"
      BY <1>3, <2>1 DEF Answers
    <3>2. i \in 1 .. Len(b) /\ j \in 1 .. Len(b)
      BY <1>3, <3>1
    <3>3. Answers(b, i, j)
      BY <1>1, <1>2, <2>1, <3>2, AnswersAppend
    <3>4. <<b[j].by, b[i].by>> \in Own
      BY <1>1, <3>2, <3>3, FlushFollows DEF OwnAnswers
    <3>. QED
      BY <1>3, <3>2, <3>4
  <2>. QED
    BY <2>1 DEF OwnAnswers
<1>6. /\ n + 1 \in 1 .. n + 1 /\ LastOther(msgs, n + 1, n + 1)
      /\ \A o \in 1 .. n + 1 : LastOther(msgs, n + 1, o) => o = n + 1
      /\ m.calls # {} <=> Requests(m)
  BY RowTypes DEF LastOther
<1>7. m.calls = m.calls \ {msgs[k].id : k \in ((n + 1) + 1) .. (n + 1)}
  OBVIOUS
<1>8. ASSUME NEW q \in 1 .. n + 1, NEW o \in 1 .. n + 1, Answers(msgs, q, o)
      PROVE  \E i \in 1 .. Len(h) : h[i] = msgs[q]
  <2>1. q \in (o + 1) .. q /\ msgs[q].role = "tool"
    BY <1>8 DEF Answers
  <2>2. q \in 1 .. n /\ o \in 1 .. n
    BY <1>8, <2>1 DEF Answers
  <2>3. Shown(b, msgs, n)
    BY <1>1, FlushFollows
  <2>4. PICK i \in 1 .. Len(b) : b[i] = msgs[q]
    BY <1>8, <2>2, <2>3 DEF Shown
  <2>5. i \in 1 .. Len(h) /\ h[i] = msgs[q]
    BY <1>3, <2>4
  <2>. QED
    BY <2>5
<1>9. new.open # {} => h[new.at].by = m.by
  BY <1>3, <1>4
<1>. QED
  BY <1>4, <1>5, <1>6, <1>7, <1>8, <1>9 DEF Follows, Shown

LEMMA TakeFollows ==
    ASSUME NEW acc, Sane(acc), NEW msgs \in Seq(Row), NEW n \in Nat, n + 1 \in 1 .. Len(msgs), NEW Own,
           Follows(acc, msgs, n, Own), OwnAnswers(msgs, Own),
           NEW m, m = msgs[n + 1], m \in Row, NEW new, new = Take(acc, m)
    PROVE  Follows(new, msgs, n + 1, Own)
<1>1. CASE m.role = "tool" /\ m.id \in acc.open
  <2>1. new = [acc EXCEPT !.out = Append(@, m), !.open = @ \ {m.id}]
    BY <1>1, TakeIs
  <2>. QED
    BY <1>1, <2>1, ResultFollows
<1>2. CASE m.role = "tool" /\ m.id \notin acc.open
  <2>1. new = acc
    BY <1>2, TakeIs
  <2>. QED
    BY <1>2, <2>1, DroppedFollows
<1>3. CASE m.role # "tool"
  <2>1. /\ new.out = Append(FlushUnmatched(acc).out, m) /\ new.open = m.calls
        /\ m.calls # {} => new.at = Len(FlushUnmatched(acc).out) + 1
    BY <1>3, TakeIs
  <2>. QED
    BY <1>3, <2>1, OtherFollows
<1>. QED
  BY <1>1, <1>2, <1>3

\* Results go to requests they went to before Sanitize, and those that answered something
\* are all there.
THEOREM SanitizedFollows ==
    ASSUME NEW msgs \in Seq(Row), NEW Own, OwnAnswers(msgs, Own)
    PROVE  /\ OwnAnswers(Sanitize(msgs), Own)
           /\ Shown(Sanitize(msgs), msgs, Len(msgs))
<1>1. Len(msgs) \in Nat
  BY LenProperties
<1>2. PICK f : /\ f[0] = Start
               /\ \A n \in 1 .. Len(msgs) : f[n] = Take(f[n - 1], msgs[n])
               /\ Sanitize(msgs) = FlushUnmatched(f[Len(msgs)]).out
  BY <1>1, SanitizeIs
<1>. DEFINE T == {n \in Nat : n <= Len(msgs) => Sane(f[n]) /\ Follows(f[n], msgs, n, Own)}
<1>3. 0 \in T
  BY <1>2, StartIsSane, StartFollows
<1>4. ASSUME NEW n \in Nat, n \in T PROVE n + 1 \in T
  <2>1. SUFFICES ASSUME n + 1 <= Len(msgs) PROVE Sane(f[n + 1]) /\ Follows(f[n + 1], msgs, n + 1, Own)
    BY <1>1
  <2>2. n <= Len(msgs) /\ n + 1 \in 1 .. Len(msgs) /\ (n + 1) - 1 = n
    BY <1>1, <2>1
  <2>3. PICK acc, m, new : acc = f[n] /\ m = msgs[n + 1] /\ new = f[n + 1]
    OBVIOUS
  <2>4. Sane(acc) /\ Follows(acc, msgs, n, Own) /\ m \in Row /\ new = Take(acc, m)
    BY <1>2, <1>4, <2>2, <2>3, ElementOfSeq
  <2>5. Sane(new)
    BY <2>4, TakeIsSane
  <2>6. Follows(new, msgs, n + 1, Own)
    BY <2>2, <2>3, <2>4, TakeFollows
  <2>. QED
    BY <2>3, <2>5, <2>6
<1>5. Len(msgs) \in T
  <2>. HIDE DEF T
  <2>. QED
    BY <1>1, <1>3, <1>4, NatSetInduction
<1>6. PICK acc : acc = f[Len(msgs)]
  OBVIOUS
<1>7. Sane(acc) /\ Follows(acc, msgs, Len(msgs), Own)
  BY <1>1, <1>5, <1>6
<1>8. PICK h, n : h = Sanitize(msgs) /\ h = FlushUnmatched(acc).out /\ n = Len(msgs)
  BY <1>2, <1>6
<1>9. OwnAnswers(h, Own) /\ Shown(h, msgs, n)
  BY <1>1, <1>7, <1>8, FlushFollows
<1>. QED
  BY <1>8, <1>9

-----------------------------------------------------------------------------
(* Sanitize keeps what is to be kept                                         *)

Increasing(f, n) == \A k, l \in 1 .. n : k < l => f[k] < f[l]

\* f tells which of the first n rows the rows of out are: they are those to keep, with the
\* calls that have a result, but for the row at while it has open calls.
Track(f, out, open, at, msgs, n) ==
    /\ f \in [1 .. Len(out) -> 1 .. n]
    /\ Increasing(f, Len(out))
    /\ \A k \in 1 .. Len(out) : open = {} \/ k # at => Remains(msgs, f[k]) /\ out[k] = Struck(msgs, f[k])
    /\ \A i \in 1 .. n : Remains(msgs, i) => \E k \in 1 .. Len(out) : f[k] = i
    /\ open # {} => /\ at \in 1 .. Len(out) /\ LastOther(msgs, n, f[at]) /\ out[at] = msgs[f[at]]
                    /\ Requests(msgs[f[at]])
                    /\ msgs[f[at]].calls \ open \subseteq Answered(msgs, f[at])

Tracked(acc, msgs, n) == \E f : Track(f, acc.out, acc.open, acc.at, msgs, n)

\* The ids of the rows after p.
Ids(msgs, p, n) == {msgs[k].id : k \in (p + 1) .. n}

LEMMA StartTracked ==
    ASSUME NEW msgs
    PROVE  Tracked(Start, msgs, 0)
<1>1. Start.out = <<>> /\ Start.open = {} /\ Len(<<>>) = 0
  BY DEF Start
<1>2. PICK f : f = [k \in 1 .. 0 |-> 0]
  OBVIOUS
<1>3. \A k \in 1 .. 0 : FALSE
  OBVIOUS
<1>4. f \in [1 .. 0 -> 1 .. 0] /\ Increasing(f, 0)
  BY <1>2, <1>3 DEF Increasing
<1>5. Track(f, <<>>, {}, Start.at, msgs, 0)
  BY <1>1, <1>3, <1>4 DEF Track
<1>. QED
  BY <1>1, <1>5 DEF Tracked

LEMMA StruckSame ==
    ASSUME NEW msgs, NEW i, msgs[i] \in Row, msgs[i].calls \subseteq Answered(msgs, i)
    PROVE  Struck(msgs, i) = msgs[i]
<1>1. PICK m, A : m = msgs[i] /\ A = Answered(msgs, i)
  OBVIOUS
<1>2. m.calls \cap A = m.calls
  BY <1>1
<1>3. [m EXCEPT !.calls = @ \cap A] = m
  BY <1>1, <1>2 DEF Row
<1>. QED
  BY <1>1, <1>3 DEF Struck

LEMMA AnsweredIs ==
    ASSUME NEW msgs, NEW i \in 1 .. Len(msgs), NEW j, Answers(msgs, i, j)
    PROVE  msgs[i].id \in Answered(msgs, j)
BY DEF Answered

Further(f, g, c, n) ==
    /\ g \in [1 .. c + 1 -> 1 .. n + 1]
    /\ g[c + 1] = n + 1 /\ \A k \in 1 .. c : g[k] = f[k]
    /\ Increasing(g, c + 1)

\* The rows that were tracked are tracked after one more, the row n + 1.
LEMMA TrackNext ==
    ASSUME NEW out \in Seq(Row), NEW n \in Nat, NEW f, NEW open, NEW at, NEW msgs, Track(f, out, open, at, msgs, n)
    PROVE  \E g : Further(f, g, Len(out), n)
<1>1. PICK c : c = Len(out)
  OBVIOUS
<1>2. c \in Nat /\ f \in [1 .. c -> 1 .. n] /\ Increasing(f, c)
  BY <1>1, LenProperties DEF Track
<1>3. PICK g : g = [k \in 1 .. c + 1 |-> IF k = c + 1 THEN n + 1 ELSE f[k]]
  OBVIOUS
<1>4. g[c + 1] = n + 1 /\ \A k \in 1 .. c : g[k] = f[k]
  BY <1>2, <1>3
<1>5. \A k \in 1 .. c : f[k] \in 1 .. n
  BY <1>2
<1>6. g \in [1 .. c + 1 -> 1 .. n + 1]
  <2>1. \A k \in 1 .. c + 1 : (IF k = c + 1 THEN n + 1 ELSE f[k]) \in 1 .. n + 1
    BY <1>2, <1>5
  <2>. QED
    BY <1>3, <2>1
<1>7. ASSUME NEW k \in 1 .. c + 1, NEW l \in 1 .. c + 1, k < l
      PROVE  g[k] < g[l]
  <2>1. k \in 1 .. c
    BY <1>2, <1>7
  <2>2. CASE l = c + 1
    BY <1>4, <1>5, <2>1, <2>2
  <2>3. CASE l # c + 1
    <3>1. l \in 1 .. c
      BY <1>2, <2>3
    <3>. QED
      BY <1>2, <1>4, <1>7, <2>1, <3>1 DEF Increasing
  <2>. QED
    BY <2>2, <2>3
<1>8. Increasing(g, c + 1)
  BY <1>7 DEF Increasing
<1>. QED
  BY <1>1, <1>4, <1>6, <1>8 DEF Further

LEMMA LastOtherNext ==
    ASSUME NEW msgs, NEW n \in Nat, NEW p, LastOther(msgs, n, p), msgs[n + 1].role = "tool"
    PROVE  LastOther(msgs, n + 1, p)
<1>1. \A k \in (p + 1) .. (n + 1) : k = n + 1 \/ k \in (p + 1) .. n
  BY DEF LastOther
<1>. QED
  BY <1>1 DEF LastOther

\* A result of an open call is to be kept.
LEMMA TrackResult ==
    ASSUME NEW msgs \in Seq(Row), NEW n \in Nat, n + 1 \in 1 .. Len(msgs), NEW m, m = msgs[n + 1],
           m.role = "tool", NEW out \in Seq(Row), NEW open, NEW at, m.id \in open,
           NEW f, Track(f, out, open, at, msgs, n),
           open = msgs[f[at]].calls \ Ids(msgs, f[at], n)
    PROVE  \E g : Track(g, Append(out, m), open \ {m.id}, at, msgs, n + 1)
<1>1. PICK p, h, c : p = f[at] /\ h = Append(out, m) /\ c = Len(out)
  OBVIOUS
<1>2. /\ at \in 1 .. c /\ LastOther(msgs, n, p) /\ Requests(msgs[p]) /\ out[at] = msgs[p]
      /\ msgs[p].calls \ open \subseteq Answered(msgs, p)
      /\ f \in [1 .. c -> 1 .. n] /\ p \in 1 .. n
  BY <1>1 DEF Track
<1>3. m \in Row /\ m.calls = {} /\ msgs[p] \in Row
  BY <1>2, ElementOfSeq, LenProperties, RowTypes
<1>4. /\ h \in Seq(Row) /\ Len(h) = c + 1 /\ c \in Nat /\ h[c + 1] = m
      /\ \A k \in 1 .. c : h[k] = out[k]
  BY <1>1, <1>3, AppendKeeps
<1>5. Answers(msgs, n + 1, p)
  <2>1. \A k \in (p + 1) .. (n + 1) : msgs[k].role = "tool"
    BY <1>2, LastOtherNext DEF LastOther
  <2>2. \A k \in (p + 1) .. n : msgs[k].id # m.id
    BY <1>1 DEF Ids
  <2>3. p < n + 1 /\ (n + 1) - 1 = n /\ m.id \in msgs[p].calls
    BY <1>1, <1>2
  <2>. QED
    BY <1>2, <2>1, <2>2, <2>3 DEF Answers
<1>6. m.id \in Answered(msgs, p)
  BY <1>5, AnsweredIs
<1>7. Remains(msgs, n + 1) /\ Struck(msgs, n + 1) = m
  <2>1. p \in 1 .. Len(msgs)
    BY <1>2, LenProperties
  <2>. QED
    BY <1>3, <1>5, <2>1, StruckSame DEF Remains, Requests
<1>8. PICK g : /\ g \in [1 .. c + 1 -> 1 .. n + 1]
               /\ g[c + 1] = n + 1 /\ \A k \in 1 .. c : g[k] = f[k]
               /\ Increasing(g, c + 1)
  <2>1. PICK g : Further(f, g, Len(out), n)
    BY TrackNext
  <2>. QED
    BY <1>1, <2>1 DEF Further
<1>9. ASSUME NEW k \in 1 .. c + 1, open \ {m.id} = {} \/ k # at
      PROVE  Remains(msgs, g[k]) /\ h[k] = Struck(msgs, g[k])
  <2>1. CASE k = c + 1
    BY <1>4, <1>7, <1>8, <2>1
  <2>2. CASE k \in 1 .. c /\ k # at
    BY <1>1, <1>4, <1>8, <2>2 DEF Track
  <2>3. CASE k = at
    <3>1. msgs[p].calls \subseteq Answered(msgs, p)
      BY <1>2, <1>6, <1>9, <2>3
    <3>2. Struck(msgs, p) = msgs[p]
      BY <1>3, <3>1, StruckSame
    <3>3. Remains(msgs, p)
      BY <1>2, <1>6 DEF Remains, Requests
    <3>. QED
      BY <1>1, <1>2, <1>4, <1>8, <2>3, <3>2, <3>3
  <2>. QED
    BY <1>4, <2>1, <2>2, <2>3
<1>10. ASSUME NEW i \in 1 .. n + 1, Remains(msgs, i) PROVE \E k \in 1 .. c + 1 : g[k] = i
  <2>1. CASE i = n + 1
    BY <1>4, <1>8, <2>1
  <2>2. CASE i # n + 1
    <3>1. i \in 1 .. n
      BY <2>2
    <3>2. PICK k \in 1 .. c : f[k] = i
      BY <1>1, <1>10, <3>1 DEF Track
    <3>. QED
      BY <1>4, <1>8, <3>2
  <2>. QED
    BY <2>1, <2>2
<1>11. /\ at \in 1 .. c + 1 /\ g[at] = p /\ h[at] = msgs[p] /\ LastOther(msgs, n + 1, p)
       /\ msgs[p].calls \ (open \ {m.id}) \subseteq Answered(msgs, p)
  BY <1>1, <1>2, <1>4, <1>6, <1>8, LastOtherNext
<1>12. Track(g, h, open \ {m.id}, at, msgs, n + 1)
  BY <1>2, <1>4, <1>8, <1>9, <1>10, <1>11 DEF Track
<1>. QED
  BY <1>1, <1>12

\* Any other result is not.
LEMMA TrackDropped ==
    ASSUME NEW acc, NEW msgs \in Seq(Row), NEW n \in Nat, n + 1 \in 1 .. Len(msgs), NEW Own,
           Follows(acc, msgs, n, Own), msgs[n + 1].role = "tool", msgs[n + 1].id \notin acc.open,
           Tracked(acc, msgs, n)
    PROVE  Tracked(acc, msgs, n + 1)
<1>1. ASSUME NEW o \in 1 .. Len(msgs), Answers(msgs, n + 1, o) PROVE FALSE
  <2>1. o \in 1 .. n
    BY <1>1 DEF Answers
  <2>2. LastOther(msgs, n, o) /\ Requests(msgs[o]) /\ msgs[n + 1].id \in msgs[o].calls
    BY <1>1, <2>1 DEF Answers, LastOther
  <2>3. acc.open = msgs[o].calls \ {msgs[k].id : k \in (o + 1) .. n}
    BY <2>1, <2>2 DEF Follows
  <2>4. \A k \in (o + 1) .. n : msgs[k].id # msgs[n + 1].id
    BY <1>1 DEF Answers
  <2>. QED
    BY <2>2, <2>3, <2>4
<1>2. ~Remains(msgs, n + 1)
  BY <1>1 DEF Remains
<1>3. PICK f, out, open, at : /\ out = acc.out /\ open = acc.open /\ at = acc.at
                              /\ Track(f, out, open, at, msgs, n)
  BY DEF Tracked
<1>4. f \in [1 .. Len(out) -> 1 .. n + 1]
  <2>1. 1 .. n \subseteq 1 .. n + 1
    OBVIOUS
  <2>. QED
    BY <1>3, <2>1 DEF Track
<1>5. ASSUME NEW i \in 1 .. n + 1, Remains(msgs, i) PROVE \E k \in 1 .. Len(out) : f[k] = i
  <2>1. i \in 1 .. n
    BY <1>2, <1>5
  <2>. QED
    BY <1>3, <1>5, <2>1 DEF Track
<1>6. open # {} => LastOther(msgs, n + 1, f[at])
  BY <1>3, LastOtherNext DEF Track
<1>7. Track(f, out, open, at, msgs, n + 1)
  BY <1>3, <1>4, <1>5, <1>6 DEF Track
<1>. QED
  BY <1>3, <1>7 DEF Tracked

\* No result follows row n at once.
RunEnds(msgs, n) == n = Len(msgs) \/ (n < Len(msgs) /\ msgs[n + 1].role # "tool")

\* The row whose calls are open, when no result of theirs is to come.
LEMMA RowAnswered ==
    ASSUME NEW msgs \in Seq(Row), NEW n \in Nat, RunEnds(msgs, n), NEW p \in 1 .. n
    PROVE  Answered(msgs, p) \subseteq msgs[p].calls \cap Ids(msgs, p, n)
<1>1. ASSUME NEW i \in 1 .. Len(msgs), Answers(msgs, i, p)
      PROVE  msgs[i].id \in msgs[p].calls \cap Ids(msgs, p, n)
  <2>1. p < i /\ msgs[i].id \in msgs[p].calls /\ \A k \in (p + 1) .. i : msgs[k].role = "tool"
    BY <1>1 DEF Answers
  <2>2. i \in Nat /\ Len(msgs) \in Nat /\ i <= Len(msgs)
    BY LenProperties
  <2>3. i <= n
    <3>1. SUFFICES ASSUME n < i PROVE FALSE
      BY <2>2
    <3>2. n + 1 \in (p + 1) .. i
      BY <2>2, <3>1
    <3>. QED
      BY <2>1, <2>2, <3>1, <3>2 DEF RunEnds
  <2>4. i \in (p + 1) .. n
    BY <2>1, <2>2, <2>3
  <2>. QED
    BY <2>1, <2>4 DEF Ids
<1>. QED
  BY <1>1 DEF Answered

\* A flush leaves the rows to keep.
LEMMA TrackFlush ==
    ASSUME NEW msgs \in Seq(Row), NEW n \in Nat, RunEnds(msgs, n),
           NEW out \in Seq(Row), NEW open, open # {}, NEW at, NEW h \in Seq(Row), Flushed(out, open, at, h),
           NEW f, Track(f, out, open, at, msgs, n), NEW any,
           open = msgs[f[at]].calls \ Ids(msgs, f[at], n)
    PROVE  \E g : Track(g, h, {}, any, msgs, n)
<1>1. PICK p, c : p = f[at] /\ c = Len(out)
  OBVIOUS
<1>2. /\ at \in 1 .. c /\ LastOther(msgs, n, p) /\ Requests(msgs[p]) /\ out[at] = msgs[p]
      /\ msgs[p].calls \ open \subseteq Answered(msgs, p)
      /\ f \in [1 .. c -> 1 .. n] /\ p \in 1 .. n /\ Increasing(f, c)
  BY <1>1 DEF Track
<1>3. msgs[p].calls \ open = Answered(msgs, p)
  <2>1. open = msgs[p].calls \ Ids(msgs, p, n) /\ p \in 1 .. n
        /\ msgs[p].calls \ open \subseteq Answered(msgs, p)
    BY <1>1, <1>2
  <2>2. Answered(msgs, p) \subseteq msgs[p].calls \cap Ids(msgs, p, n)
    BY <2>1, RowAnswered
  <2>. QED
    BY <2>1, <2>2
<1>4. /\ \A k \in 1 .. c : k # at => Remains(msgs, f[k]) /\ out[k] = Struck(msgs, f[k])
      /\ \A i \in 1 .. n : Remains(msgs, i) => \E k \in 1 .. c : f[k] = i
  BY <1>1 DEF Track
<1>5. c \in Nat
  BY <1>1, LenProperties
<1>6. CASE /\ out[at].calls \ open = {} /\ ~out[at].bare /\ ~out[at].text
           /\ at = c /\ Len(h) = c - 1
           /\ \A i \in 1 .. c - 1 : h[i] = out[i]
  <2>1. ~Remains(msgs, p)
    BY <1>2, <1>3, <1>6 DEF Remains
  <2>2. PICK g : g = [k \in 1 .. c - 1 |-> f[k]]
    OBVIOUS
  <2>3. /\ \A k \in 1 .. c - 1 : k \in 1 .. c /\ k # at /\ g[k] = f[k] /\ f[k] \in 1 .. n
    BY <1>2, <1>5, <1>6, <2>2
  <2>4. g \in [1 .. c - 1 -> 1 .. n]
    BY <2>2, <2>3
  <2>5. Increasing(g, c - 1)
    BY <1>2, <2>3 DEF Increasing
  <2>6. \A k \in 1 .. c - 1 : Remains(msgs, g[k]) /\ h[k] = Struck(msgs, g[k])
    BY <1>4, <1>6, <2>3
  <2>7. ASSUME NEW i \in 1 .. n, Remains(msgs, i) PROVE \E k \in 1 .. c - 1 : g[k] = i
    <3>1. PICK k \in 1 .. c : f[k] = i
      BY <1>4, <2>7
    <3>2. k # at
      BY <1>1, <2>1, <2>7, <3>1
    <3>3. k \in 1 .. c - 1
      BY <1>5, <1>6, <3>2
    <3>. QED
      BY <2>3, <3>1, <3>3
  <2>8. Track(g, h, {}, any, msgs, n)
    BY <1>6, <2>4, <2>5, <2>6, <2>7 DEF Track
  <2>. QED
    BY <2>8
<1>7. CASE /\ out[at].calls \ open # {} \/ out[at].bare \/ out[at].text
           /\ h[at] = [out[at] EXCEPT !.calls = @ \ open]
           /\ Len(h) = c
           /\ \A i \in 1 .. c : i # at => h[i] = out[i]
  <2>1. Remains(msgs, p)
    BY <1>2, <1>3, <1>7 DEF Remains, Requests
  <2>2. h[at] = Struck(msgs, p)
    <3>1. PICK m, A : m = msgs[p] /\ A = Answered(msgs, p)
      OBVIOUS
    <3>2. m.calls \cap A = m.calls \ open
      BY <1>3, <3>1
    <3>3. h[at] = [m EXCEPT !.calls = @ \ open]
      BY <1>2, <1>7, <3>1
    <3>4. Struck(msgs, p) = [m EXCEPT !.calls = @ \cap A]
      BY <3>1 DEF Struck
    <3>. QED
      BY <3>2, <3>3, <3>4
  <2>3. \A k \in 1 .. c : Remains(msgs, f[k]) /\ h[k] = Struck(msgs, f[k])
    BY <1>1, <1>4, <1>7, <2>1, <2>2
  <2>4. Track(f, h, {}, any, msgs, n)
    BY <1>2, <1>4, <1>7, <2>3 DEF Track
  <2>. QED
    BY <2>4
<1>. QED
  BY <1>1, <1>2, <1>6, <1>7 DEF Flushed

\* Rows other than results.
LEMMA TrackOther ==
    ASSUME NEW msgs \in Seq(Row), NEW n \in Nat, n + 1 \in 1 .. Len(msgs), NEW m, m = msgs[n + 1],
           m.role # "tool", NEW out \in Seq(Row), NEW any,
           NEW f, Track(f, out, {}, any, msgs, n), NEW at, m.calls # {} => at = Len(out) + 1
    PROVE  \E g : Track(g, Append(out, m), m.calls, at, msgs, n + 1)
<1>1. PICK h, c : h = Append(out, m) /\ c = Len(out)
  OBVIOUS
<1>2. m \in Row /\ (Requests(m) <=> m.calls # {})
  BY ElementOfSeq, LenProperties, RowTypes
<1>3. /\ h \in Seq(Row) /\ Len(h) = c + 1 /\ c \in Nat /\ h[c + 1] = m
      /\ \A k \in 1 .. c : h[k] = out[k]
  BY <1>1, <1>2, AppendKeeps
<1>4. PICK g : /\ g \in [1 .. c + 1 -> 1 .. n + 1]
               /\ g[c + 1] = n + 1 /\ \A k \in 1 .. c : g[k] = f[k]
               /\ Increasing(g, c + 1)
  <2>1. PICK g : Further(f, g, Len(out), n)
    BY TrackNext
  <2>. QED
    BY <1>1, <2>1 DEF Further
<1>5. ASSUME m.calls = {} PROVE Remains(msgs, n + 1) /\ Struck(msgs, n + 1) = m
  <2>1. Struck(msgs, n + 1) = m
    BY <1>2, <1>5, StruckSame
  <2>. QED
    BY <1>2, <1>5, <2>1 DEF Remains
<1>6. ASSUME NEW k \in 1 .. c + 1, m.calls = {} \/ k # at
      PROVE  Remains(msgs, g[k]) /\ h[k] = Struck(msgs, g[k])
  <2>1. CASE k = c + 1
    BY <1>1, <1>3, <1>4, <1>5, <1>6, <2>1
  <2>2. CASE k \in 1 .. c
    BY <1>1, <1>3, <1>4, <2>2 DEF Track
  <2>. QED
    BY <1>3, <2>1, <2>2
<1>7. ASSUME NEW i \in 1 .. n + 1, Remains(msgs, i) PROVE \E k \in 1 .. c + 1 : g[k] = i
  <2>1. CASE i = n + 1
    BY <1>3, <1>4, <2>1
  <2>2. CASE i # n + 1
    <3>1. i \in 1 .. n
      BY <2>2
    <3>2. PICK k \in 1 .. c : f[k] = i
      BY <1>1, <1>7, <3>1 DEF Track
    <3>. QED
      BY <1>3, <1>4, <3>2
  <2>. QED
    BY <2>1, <2>2
<1>8. ASSUME m.calls # {}
      PROVE  /\ at \in 1 .. c + 1 /\ g[at] = n + 1 /\ h[at] = m /\ LastOther(msgs, n + 1, n + 1)
             /\ Requests(m) /\ m.calls \ m.calls \subseteq Answered(msgs, n + 1)
  BY <1>1, <1>2, <1>3, <1>4, <1>8 DEF LastOther
<1>9. Track(g, h, m.calls, at, msgs, n + 1)
  BY <1>3, <1>4, <1>6, <1>7, <1>8 DEF Track
<1>. QED
  BY <1>1, <1>9

\* What is tracked to the end is what is to be kept.
LEMMA TrackSound ==
    ASSUME NEW msgs \in Seq(Row), NEW h \in Seq(Row), NEW any, NEW f, Track(f, h, {}, any, msgs, Len(msgs))
    PROVE  Sound(h, msgs)
<1>1. PICK n, c, kept : n = Len(msgs) /\ c = Len(h) /\ kept = {i \in 1 .. n : Remains(msgs, i)}
  OBVIOUS
<1>2. n \in Nat /\ c \in Nat
  BY <1>1, LenProperties
<1>3. /\ f \in [1 .. c -> 1 .. n] /\ \A k, l \in 1 .. c : k < l => f[k] < f[l]
      /\ \A k \in 1 .. c : Remains(msgs, f[k]) /\ h[k] = Struck(msgs, f[k])
      /\ \A i \in 1 .. n : Remains(msgs, i) => \E k \in 1 .. c : f[k] = i
  BY <1>1 DEF Track, Increasing
<1>4. \A k \in 1 .. c : f[k] \in kept
  BY <1>1, <1>3
<1>5. \A i \in kept : \E k \in 1 .. c : f[k] = i
  BY <1>1, <1>3
<1>6. ASSUME NEW k \in 0 .. c, NEW S, S = {f[l] : l \in 1 .. k} PROVE Cardinality(S) = k
  <2>1. 1 .. k \subseteq 1 .. c
    BY <1>2
  <2>2. PICK g : g = [l \in 1 .. k |-> f[l]]
    OBVIOUS
  <2>3. g \in [1 .. k -> S]
    BY <1>6, <2>2
  <2>4. \A l, m \in 1 .. k : g[l] = g[m] => l = m
    <3>1. ASSUME NEW l \in 1 .. k, NEW m \in 1 .. k, g[l] = g[m] PROVE l = m
      <4>1. l \in 1 .. c /\ m \in 1 .. c /\ f[l] = f[m] /\ f[l] \in 1 .. n /\ f[m] \in 1 .. n
        BY <1>3, <2>1, <2>2, <3>1
      <4>2. ~(l < m) /\ ~(m < l)
        BY <1>2, <1>3, <4>1
      <4>. QED
        BY <1>2, <4>1, <4>2
    <3>. QED
      BY <3>1
  <2>5. \A x \in S : \E l \in 1 .. k : g[l] = x
    BY <1>6, <2>2
  <2>6. ExistsBijection(1 .. k, S)
    BY <2>3, <2>4, <2>5 DEF ExistsBijection, Bijection, Injection, Surjection, IsInjective
  <2>7. IsFiniteSet(1 .. k) /\ Cardinality(1 .. k) = k
    BY <1>2, FS_Interval
  <2>. QED
    BY <2>6, <2>7, FS_Bijection
<1>7. c = Cardinality(kept)
  <2>1. kept = {f[l] : l \in 1 .. c}
    BY <1>4, <1>5
  <2>. QED
    BY <1>2, <1>6, <2>1
<1>8. ASSUME NEW i \in kept PROVE h[Cardinality({k \in kept : k <= i})] = Struck(msgs, i)
  <2>1. PICK k \in 1 .. c : f[k] = i
    BY <1>5
  <2>2. PICK S : S = {x \in kept : x <= i}
    OBVIOUS
  <2>3. ASSUME NEW x \in S PROVE x \in {f[l] : l \in 1 .. k}
    <3>1. x \in kept /\ x <= i
      BY <2>2, <2>3
    <3>2. PICK l \in 1 .. c : f[l] = x
      BY <1>5, <3>1
    <3>3. f[l] \in 1 .. n /\ f[k] \in 1 .. n
      BY <1>3
    <3>4. ~(k < l)
      BY <1>2, <1>3, <2>1, <3>1, <3>2, <3>3
    <3>5. l \in 1 .. k
      BY <1>2, <3>4
    <3>. QED
      BY <3>2, <3>5
  <2>4. ASSUME NEW l \in 1 .. k PROVE f[l] \in S
    <3>1. l \in 1 .. c /\ (l = k \/ l < k)
      BY <1>2
    <3>2. f[l] \in 1 .. n /\ f[k] \in 1 .. n
      BY <1>3, <3>1
    <3>3. f[l] <= i
      BY <1>2, <1>3, <2>1, <3>1, <3>2
    <3>. QED
      BY <1>4, <2>2, <3>1, <3>3
  <2>5. S = {f[l] : l \in 1 .. k}
    BY <2>3, <2>4
  <2>6. Cardinality(S) = k
    BY <1>2, <1>6, <2>5
  <2>. QED
    BY <1>3, <2>1, <2>2, <2>6
<1>. QED
  BY <1>1, <1>7, <1>8 DEF Sound

LEMMA FlushTracked ==
    ASSUME NEW acc, Sane(acc), NEW msgs \in Seq(Row), NEW n \in Nat,
           RunEnds(msgs, n),
           NEW Own, Follows(acc, msgs, n, Own), Tracked(acc, msgs, n), NEW any
    PROVE  \E f : Track(f, FlushUnmatched(acc).out, {}, any, msgs, n)
<1>1. PICK f, out, open, at : /\ out = acc.out /\ open = acc.open /\ at = acc.at
                              /\ Track(f, out, open, at, msgs, n)
  BY DEF Tracked
<1>2. out \in Seq(Row)
  BY <1>1 DEF Sane
<1>3. CASE open = {}
  <2>1. FlushUnmatched(acc).out = out
    BY <1>1, <1>3 DEF FlushUnmatched
  <2>2. Track(f, out, {}, any, msgs, n)
    BY <1>1, <1>3 DEF Track
  <2>. QED
    BY <2>1, <2>2
<1>4. CASE open # {}
  <2>1. PICK h \in Seq(Row) : FlushUnmatched(acc) = [Start EXCEPT !.out = h] /\ Flushed(out, open, at, h)
    BY <1>1, <1>4, FlushShape
  <2>2. FlushUnmatched(acc).out = h
    BY <2>1 DEF Start
  <2>3. f[at] \in 1 .. n /\ LastOther(msgs, n, f[at]) /\ Requests(msgs[f[at]])
    BY <1>1, <1>4 DEF Track, LastOther
  <2>4. open = msgs[f[at]].calls \ Ids(msgs, f[at], n)
    BY <1>1, <2>3 DEF Follows, Ids
  <2>5. Track(f, out, open, at, msgs, n) /\ Flushed(out, open, at, h) /\ h \in Seq(Row)
    BY <1>1, <2>1
  <2>6. \E g : Track(g, h, {}, any, msgs, n)
    BY <1>2, <1>4, <2>4, <2>5, TrackFlush
  <2>. QED
    BY <2>2, <2>6
<1>. QED
  BY <1>3, <1>4

\* One more row.
LEMMA TakeTracked ==
    ASSUME NEW acc, Sane(acc), NEW msgs \in Seq(Row), NEW n \in Nat, n + 1 \in 1 .. Len(msgs),
           NEW Own, Follows(acc, msgs, n, Own), Tracked(acc, msgs, n),
           NEW m, m = msgs[n + 1], m \in Row, NEW new, new = Take(acc, m)
    PROVE  Tracked(new, msgs, n + 1)
<1>1. n < Len(msgs) /\ Len(msgs) \in Nat
  BY LenProperties
<1>2. CASE m.role = "tool" /\ m.id \in acc.open
  <2>1. PICK f, out, open, at : /\ out = acc.out /\ open = acc.open /\ at = acc.at
                                /\ Track(f, out, open, at, msgs, n)
    BY DEF Tracked
  <2>2. new = [acc EXCEPT !.out = Append(@, m), !.open = @ \ {m.id}]
    BY <1>2, TakeIs
  <2>3. acc \in [out : Seq(Row), open : SUBSET Id, at : Nat] /\ out \in Seq(Row)
    BY <2>1 DEF Sane
  <2>4. new.out = Append(out, m) /\ new.open = open \ {m.id} /\ new.at = at
    BY <2>1, <2>2, <2>3
  <2>5. f[at] \in 1 .. n /\ LastOther(msgs, n, f[at]) /\ Requests(msgs[f[at]])
    BY <1>2, <2>1 DEF Track, LastOther
  <2>6. open = msgs[f[at]].calls \ Ids(msgs, f[at], n)
    BY <2>1, <2>5 DEF Follows, Ids
  <2>7. \E g : Track(g, Append(out, m), open \ {m.id}, at, msgs, n + 1)
    BY <1>2, <2>1, <2>3, <2>6, TrackResult
  <2>. QED
    BY <2>4, <2>7 DEF Tracked
<1>3. CASE m.role = "tool" /\ m.id \notin acc.open
  <2>1. new = acc
    BY <1>3, TakeIs
  <2>. QED
    BY <1>3, <2>1, TrackDropped
<1>4. CASE m.role # "tool"
  <2>1. PICK b, at : b = FlushUnmatched(acc).out /\ at = new.at
    OBVIOUS
  <2>2. new.out = Append(b, m) /\ new.open = m.calls /\ (m.calls # {} => at = Len(b) + 1)
    BY <1>4, <2>1, TakeIs
  <2>3. b \in Seq(Row)
    BY <2>1, FlushKeepsSane
  <2>4. PICK f : Track(f, b, {}, at, msgs, n)
    <3>1. RunEnds(msgs, n)
      BY <1>1, <1>4 DEF RunEnds
    <3>. QED
      BY <2>1, <3>1, FlushTracked
  <2>5. \E g : Track(g, Append(b, m), m.calls, at, msgs, n + 1)
    BY <1>4, <2>2, <2>3, <2>4, TrackOther
  <2>. QED
    BY <2>1, <2>2, <2>5 DEF Tracked
<1>. QED
  BY <1>2, <1>3, <1>4

\* For every history, Sanitize computes what the definition of a sound one says: the rows to
\* keep, in their order, with the calls that have a result.
THEOREM SanitizedIsSound ==
    ASSUME NEW msgs \in Seq(Row)
    PROVE  Sound(Sanitize(msgs), msgs)
<1>1. Len(msgs) \in Nat
  BY LenProperties
<1>2. PICK f : /\ f[0] = Start
               /\ \A n \in 1 .. Len(msgs) : f[n] = Take(f[n - 1], msgs[n])
               /\ Sanitize(msgs) = FlushUnmatched(f[Len(msgs)]).out
  BY <1>1, SanitizeIs
<1>. DEFINE Own == Turns \X Turns
            T == {n \in Nat : n <= Len(msgs) =>
                    Sane(f[n]) /\ Follows(f[n], msgs, n, Own) /\ Tracked(f[n], msgs, n)}
<1>3. 0 \in T
  BY <1>2, StartIsSane, StartFollows, StartTracked
<1>4. ASSUME NEW n \in Nat, n \in T PROVE n + 1 \in T
  <2>1. SUFFICES ASSUME n + 1 <= Len(msgs)
                 PROVE  Sane(f[n + 1]) /\ Follows(f[n + 1], msgs, n + 1, Own) /\ Tracked(f[n + 1], msgs, n + 1)
    BY <1>1
  <2>2. n <= Len(msgs) /\ n + 1 \in 1 .. Len(msgs) /\ (n + 1) - 1 = n
    BY <1>1, <2>1
  <2>3. PICK acc, m, new : acc = f[n] /\ m = msgs[n + 1] /\ new = f[n + 1]
    OBVIOUS
  <2>4. /\ Sane(acc) /\ Follows(acc, msgs, n, Own) /\ Tracked(acc, msgs, n)
        /\ m \in Row /\ new = Take(acc, m)
    BY <1>2, <1>4, <2>2, <2>3, ElementOfSeq
  <2>5. OwnAnswers(msgs, Own)
    <3>1. \A k \in 1 .. Len(msgs) : msgs[k].by \in Turns
      BY RowTypes, ElementOfSeq
    <3>. QED
      BY <3>1 DEF OwnAnswers
  <2>6. Sane(new)
    BY <2>4, TakeIsSane
  <2>7. Follows(new, msgs, n + 1, Own)
    BY <2>2, <2>3, <2>4, <2>5, TakeFollows
  <2>8. Tracked(new, msgs, n + 1)
    BY <2>2, <2>3, <2>4, TakeTracked
  <2>. QED
    BY <2>3, <2>6, <2>7, <2>8
<1>5. Len(msgs) \in T
  <2>. HIDE DEF T
  <2>. QED
    BY <1>1, <1>3, <1>4, NatSetInduction
<1>6. PICK acc, h : acc = f[Len(msgs)] /\ h = FlushUnmatched(acc).out
  OBVIOUS
<1>7. Sane(acc) /\ Follows(acc, msgs, Len(msgs), Own) /\ Tracked(acc, msgs, Len(msgs))
  BY <1>1, <1>5, <1>6
<1>8. PICK g : Track(g, h, {}, 0, msgs, Len(msgs))
  <2>1. RunEnds(msgs, Len(msgs))
    BY DEF RunEnds
  <2>. QED
    BY <1>1, <1>6, <1>7, <2>1, FlushTracked
<1>9. h \in Seq(Row)
  BY <1>6, <1>7, FlushKeepsSane
<1>10. Sound(h, msgs)
  BY <1>8, <1>9, TrackSound
<1>. QED
  BY <1>2, <1>6, <1>10

-----------------------------------------------------------------------------
(* The turns                                                                 *)

Pcs == {"new", "load", "think", "act", "conclude", "over", "posted"}

RunStates == [pc : Pcs, iter : Nat, prompt : Seq(Row), todo : Seq(Id), lost : BOOLEAN]

\* The types of the turns' variables.
TurnsTypeOK ==
    /\ rows \in Seq(Row)
    /\ run \in [Turns -> RunStates]
    /\ met \in [Turns -> SUBSET Turns]
    /\ troubles \in Nat

LEMMA NoIdIsNone == NoId \notin Id
<1>1. ASSUME NEW x \in Id PROVE Len(x) = 2
  BY DEF Id
<1>2. Len(NoId) = 0
  BY DEF NoId
<1>. QED
  BY <1>1, <1>2

\* What the text of an assistant row says.
Says == [text : BOOLEAN, calls : SUBSET Id, bare : BOOLEAN]

LEMMA ContentsAre == CallId \subseteq Id /\ Contents \subseteq Says
<1>1. CallId \subseteq Id
  BY TurnsAssumption DEF CallId, Id
<1>2. ASSUME NEW c \in Contents PROVE c \in Says
  <2>1. c \in [text : BOOLEAN, calls : SUBSET CallId, bare : BOOLEAN]
    BY TurnsAssumption
  <2>. QED
    BY <1>1, <2>1 DEF Says
<1>. QED
  BY <1>1, <1>2

LEMMA RowsWritten ==
    ASSUME NEW t \in Turns
    PROVE  /\ UserRow(t) \in Row /\ UserRow(t).role = "user"
           /\ \A says \in Says :
                /\ AssistantRow(t, says) \in Row
                /\ AssistantRow(t, says).role = "assistant"
                /\ AssistantRow(t, says).calls = says.calls
                /\ AssistantRow(t, says).by = t
           /\ \A id \in Id \cup {NoId} :
                /\ ToolRow(t, id) \in Row /\ ToolRow(t, id).role = "tool"
                /\ ToolRow(t, id).id = id /\ ToolRow(t, id).by = t
           /\ UserRow(t).by = t
BY DEF Row, UserRow, AssistantRow, ToolRow, Says

LEMMA EndedIs ==
    ASSUME TurnsTypeOK, NEW t \in Turns, NEW pc \in Pcs
    PROVE  /\ Ended(t, pc) \in RunStates /\ Ended(t, pc).pc = pc
           /\ Ended(t, pc).prompt = <<>> /\ Ended(t, pc).lost = run[t].lost
<1>1. run[t] \in RunStates /\ <<>> \in Seq(Row) /\ <<>> \in Seq(Id)
  BY EmptySeq DEF TurnsTypeOK
<1>. QED
  BY <1>1 DEF RunStates, Ended

\* What a turn does when it writes a row.
LEMMA WriteIs ==
    ASSUME TurnsTypeOK, NEW t \in Turns, NEW m \in Row, NEW next \in RunStates, Write(t, m, next)
    PROVE  /\ \/ rows' = Append(rows, m) /\ run'[t] = next
              \/ rows' = rows /\ run'[t] = [next EXCEPT !.lost = TRUE]
           /\ \A u \in Turns : u # t => run'[u] = run[u]
           /\ rows' \in Seq(Row) /\ run' \in [Turns -> RunStates] /\ troubles' \in Nat
<1>1. [next EXCEPT !.lost = TRUE] \in RunStates
  BY DEF RunStates
<1>2. Append(rows, m) \in Seq(Row)
  BY AppendProperties DEF TurnsTypeOK
<1>3. CASE rows' = Append(rows, m) /\ run' = [run EXCEPT ![t] = next] /\ UNCHANGED troubles
  BY <1>2, <1>3 DEF TurnsTypeOK
<1>4. CASE /\ troubles' = troubles + 1 /\ rows' = rows
           /\ run' = [run EXCEPT ![t] = [next EXCEPT !.lost = TRUE]]
  <2>1. PICK new \in RunStates : new = [next EXCEPT !.lost = TRUE]
    BY <1>1
  <2>. QED
    BY <1>4, <2>1 DEF TurnsTypeOK
<1>. QED
  BY <1>3, <1>4 DEF Write

LEMMA MeetIs ==
    ASSUME TurnsTypeOK, NEW t \in Turns, Meet(t), met[t] = {}
    PROVE  /\ met' \in [Turns -> SUBSET Turns]
           /\ met'[t] = Running
           /\ \A u \in Turns : met[u] \subseteq met'[u] /\ met'[u] \subseteq met[u] \cup Running \cup {t}
           /\ \A u \in Running : u # t => t \in met'[u]
           /\ \A u \in Turns : u \notin Running /\ u # t => met'[u] = met[u]
<1>1. Running \subseteq Turns
  BY DEF Running
<1>. QED
  BY <1>1 DEF Meet, TurnsTypeOK

LEMMA CallIdsAre ==
    ASSUME TurnsTypeOK, NEW t \in Turns, NEW n \in 1 .. MaxCalls
    PROVE  /\ CallIds(t, n) \in Seq(Id) /\ CallIds(t, n) # <<>>
           /\ Range(CallIds(t, n)) \subseteq Id /\ Range(CallIds(t, n)) # {}
           /\ \A i, j \in 1 .. Len(CallIds(t, n)) : CallIds(t, n)[i] = CallIds(t, n)[j] => i = j
<1>1. MaxCalls \in Nat /\ run[t].iter \in Nat
  BY TurnsAssumption DEF TurnsTypeOK, RunStates
<1>2. n \in Nat /\ n >= 1
  BY <1>1
<1>3. PICK c : c = CallIds(t, n)
  OBVIOUS
<1>4. c \in [1 .. n -> Id] /\ \A i \in 1 .. n : c[i] = <<run[t].iter, i>>
  BY <1>1, <1>2, <1>3 DEF CallIds, Id
<1>5. c \in Seq(Id) /\ Len(c) = n /\ DOMAIN c = 1 .. n
  BY <1>2, <1>4, IsASeq, LenProperties
<1>6. Range(c) = {c[i] : i \in 1 .. n}
  BY <1>5 DEF Range
<1>7. 1 \in 1 .. n
  BY <1>2
<1>. QED
  BY <1>2, <1>3, <1>4, <1>5, <1>6, <1>7

\* The turn writes a request m for the calls, and goes on as next.
Asking(t, calls, m, next) ==
    /\ calls # <<>> /\ \A i, j \in 1 .. Len(calls) : calls[i] = calls[j] => i = j
    /\ m.role = "assistant" /\ m.calls = Range(calls) /\ Range(calls) # {}
    /\ Range(calls) \subseteq Id /\ m.by = t
    /\ run[t].pc = "think" /\ next.pc = "act" /\ next.todo = calls
    /\ next.prompt = Append(run[t].prompt, m) /\ next.lost = run[t].lost
    /\ Write(t, m, next) /\ met' = met

\* A run's counter is what a request depends on besides its turn's state.
LEMMA RequestIs ==
    ASSUME TurnsTypeOK, NEW t \in Turns, NEW text \in BOOLEAN, NEW n \in 1 .. MaxCalls,
           Request(t, text, CallIds(t, n))
    PROVE  \E calls \in Seq(Id), m \in Row, next \in RunStates : Asking(t, calls, m, next)
<1>1. PICK calls : calls = CallIds(t, n)
  OBVIOUS
<1>2. /\ calls \in Seq(Id) /\ calls # <<>> /\ Range(calls) \subseteq Id /\ Range(calls) # {}
      /\ \A i, j \in 1 .. Len(calls) : calls[i] = calls[j] => i = j
  BY <1>1, CallIdsAre
<1>3. PICK m : m = AssistantRow(t, [text |-> text, calls |-> Range(calls), bare |-> FALSE])
  OBVIOUS
<1>4. m \in Row /\ m.role = "assistant" /\ m.calls = Range(calls) /\ m.by = t
  <2>1. PICK says : says = [text |-> text, calls |-> Range(calls), bare |-> FALSE]
    OBVIOUS
  <2>2. says \in Says /\ says.calls = Range(calls)
    BY <1>2, <2>1 DEF Says
  <2>. QED
    BY <1>3, <2>1, <2>2, RowsWritten
<1>5. PICK next : next = [run[t] EXCEPT !.pc = "act", !.iter = @ + 1, !.prompt = Append(@, m), !.todo = calls]
  OBVIOUS
<1>6. run[t] \in RunStates
  BY DEF TurnsTypeOK
<1>7. Append(run[t].prompt, m) \in Seq(Row)
  BY <1>4, <1>6, AppendProperties DEF RunStates
<1>8. /\ next \in RunStates /\ next.pc = "act" /\ next.todo = calls
      /\ next.prompt = Append(run[t].prompt, m) /\ next.lost = run[t].lost
  <2>1. PICK r \in RunStates, p \in Seq(Row) : r = run[t] /\ p = Append(r.prompt, m)
    BY <1>6, <1>7
  <2>2. next = [r EXCEPT !.pc = "act", !.iter = @ + 1, !.prompt = p, !.todo = calls]
    BY <1>5, <2>1 DEF RunStates
  <2>3. calls \in Seq(Id) /\ r.iter + 1 \in Nat
    BY <1>2 DEF RunStates
  <2>4. next = [pc |-> "act", iter |-> r.iter + 1, prompt |-> p, todo |-> calls, lost |-> r.lost]
    BY <2>2 DEF RunStates
  <2>5. next \in RunStates /\ next.pc = "act" /\ next.todo = calls /\ next.prompt = p /\ next.lost = r.lost
    BY <2>3, <2>4 DEF RunStates, Pcs
  <2>. QED
    BY <2>1, <2>5
<1>9. Write(t, m, next) /\ met' = met /\ run[t].pc = "think"
  BY <1>1, <1>3, <1>5 DEF Request
<1>10. Asking(t, calls, m, next)
  BY <1>2, <1>4, <1>8, <1>9 DEF Asking
<1>. QED
  BY <1>2, <1>4, <1>8, <1>10

LEMMA ActIs ==
    ASSUME TurnsTypeOK, NEW t \in Turns, NEW pending \in BOOLEAN, Act(t, pending), run[t].todo # <<>>
    PROVE  \E m \in Row, next \in RunStates :
             /\ m.role = "tool" /\ m.id = Head(run[t].todo) /\ m.by = t /\ m.id \in Id
             /\ run[t].pc = "act" /\ next.lost = run[t].lost
             /\ \/ next.pc = "conclude" /\ next.prompt = <<>>
                \/ /\ next.pc = IF Tail(run[t].todo) = <<>> THEN "think" ELSE "act"
                   /\ next.todo = Tail(run[t].todo) /\ next.prompt = Append(run[t].prompt, m)
             /\ Write(t, m, next) /\ met' = met
<1>1. PICK r, id, todo : r = run[t] /\ id = Head(r.todo) /\ todo = Tail(r.todo)
  OBVIOUS
<1>2. r \in RunStates /\ r.todo \in Seq(Id) /\ r.prompt \in Seq(Row)
  BY <1>1 DEF TurnsTypeOK, RunStates
<1>3. id \in Id /\ todo \in Seq(Id)
  BY <1>1, <1>2, HeadTailProperties
<1>4. PICK m : m = ToolRow(t, id)
  OBVIOUS
<1>5. m \in Row /\ m.role = "tool" /\ m.id = id /\ m.by = t
  BY <1>3, <1>4, RowsWritten
<1>6. r.pc = "act" /\ met' = met
  BY <1>1 DEF Act
<1>7. PICK p \in Seq(Row) : p = Append(r.prompt, m)
  BY <1>2, <1>5, AppendProperties
<1>8. PICK on : on = [r EXCEPT !.pc = IF todo = <<>> THEN "think" ELSE "act", !.todo = todo, !.prompt = p]
  OBVIOUS
<1>9. /\ on \in RunStates /\ on.pc = (IF todo = <<>> THEN "think" ELSE "act") /\ on.todo = todo
      /\ on.prompt = p /\ on.lost = r.lost
  BY <1>2, <1>3, <1>8 DEF RunStates, Pcs
<1>10. PICK end : end = Ended(t, "conclude")
  OBVIOUS
<1>11. end \in RunStates /\ end.pc = "conclude" /\ end.prompt = <<>> /\ end.lost = r.lost
  BY <1>1, <1>10, EndedIs DEF Pcs
<1>12. on = [run[t] EXCEPT !.pc = IF Tail(run[t].todo) = <<>> THEN "think" ELSE "act",
                           !.todo = Tail(run[t].todo), !.prompt = Append(@, ToolRow(t, Head(run[t].todo)))]
  BY <1>1, <1>2, <1>4, <1>7, <1>8 DEF RunStates
<1>13. Write(t, m, end) \/ Write(t, m, on)
  <2>1. CASE pending \/ (todo = <<>> /\ run[t].iter = MaxIter)
    BY <1>1, <1>4, <1>10, <2>1 DEF Act
  <2>2. CASE ~(pending \/ (todo = <<>> /\ run[t].iter = MaxIter))
    BY <1>1, <1>4, <1>12, <2>2 DEF Act
  <2>. QED
    BY <2>1, <2>2
<1>. QED
  BY <1>1, <1>3, <1>5, <1>6, <1>7, <1>9, <1>11, <1>13

-----------------------------------------------------------------------------
(* What holds of the turns at every step.                                    *)

\* The turns whose requests the results of a turn may answer; a posted row may answer any.
OwnTurns ==
    {p \in Turns \X Turns : p[1] = p[2] \/ p[1] \in met[p[2]] \/ run[p[2]].pc = "posted"}

\* Turns that have not begun have met none.
NewMeetNone == \A t \in Turns : run[t].pc = "new" => met[t] = {}

\* Turns that run have met each other.
RunningMet == \A t, u \in Running : t # u => u \in met[t]

\* Between two replies of the model, the calls of the last request that have no result yet
\* are those to make.
Acting(t) ==
    /\ run[t].todo # <<>>
    /\ \A i, j \in 1 .. Len(run[t].todo) : run[t].todo[i] = run[t].todo[j] => i = j
    /\ \E at \in 1 .. Len(run[t].prompt) :
         /\ Sane([out |-> run[t].prompt, open |-> Range(run[t].todo), at |-> at])
         /\ run[t].prompt[at].by = t

PromptsSound ==
    \A t \in Turns : /\ run[t].pc = "think" => WellFormed(run[t].prompt)
                     /\ run[t].pc = "act" => Acting(t)

\* After its first row, a turn that runs has met whoever wrote a row.
Since(t, b) ==
    /\ b \in 1 .. Len(rows) /\ rows[b].role = "user"
    /\ \A k \in (b + 1) .. Len(rows) : <<rows[k].by, t>> \in OwnTurns

RowsSince == \A t \in Running : \E b \in Nat : Since(t, b)

AnswersOwn ==
    /\ OwnAnswers(rows, OwnTurns)
    /\ \A t \in Turns : OwnAnswers(run[t].prompt, OwnTurns)

\* A turn that met no other and lost no row, and is not a posted row.
Undisturbed(t) == met[t] = {} /\ ~run[t].lost /\ run[t].pc # "posted"

\* Its calls to make are those its last row of the session asks for and has no result of.
Asks(t, p) ==
    /\ p \in 1 .. Len(rows) /\ rows[p].by = t /\ Requests(rows[p])
    /\ \A k \in (p + 1) .. Len(rows) : rows[k].role = "tool" /\ rows[k].id \notin Range(run[t].todo)
    /\ Range(run[t].todo) \subseteq rows[p].calls

CallsAsked == \A t \in Turns : run[t].pc = "act" /\ Undisturbed(t) => \E p \in Nat : Asks(t, p)

\* Its results answer requests of its own.
ResultsAnswer ==
    \A q \in 1 .. Len(rows) :
        rows[q].role = "tool" /\ rows[q].id # NoId /\ Undisturbed(rows[q].by) =>
            \E p \in 1 .. Len(rows) : Answers(rows, q, p) /\ rows[p].by = rows[q].by

TurnsInv ==
    /\ TurnsTypeOK
    /\ NewMeetNone
    /\ RunningMet
    /\ PromptsSound
    /\ RowsSince
    /\ AnswersOwn
    /\ CallsAsked
    /\ ResultsAnswer

LEMMA OwnTurnsAre ==
    ASSUME TurnsTypeOK, NEW t \in Turns, NEW u \in Turns
    PROVE  <<u, t>> \in OwnTurns <=> u = t \/ u \in met[t] \/ run[t].pc = "posted"
BY DEF OwnTurns

LEMMA RunTypes ==
    ASSUME TurnsTypeOK, NEW t \in Turns
    PROVE  /\ run[t] \in RunStates /\ run[t].pc \in Pcs /\ run[t].iter \in Nat /\ run[t].prompt \in Seq(Row)
           /\ run[t].todo \in Seq(Id) /\ run[t].lost \in BOOLEAN /\ met[t] \subseteq Turns
           /\ t \in Running <=> run[t].pc \notin {"new", "over", "posted"}
BY DEF TurnsTypeOK, RunStates, Running

\* The steps that write a row and end or conclude a turn, or begin it.
LEMMA BeginIs ==
    ASSUME TurnsTypeOK, NEW t \in Turns, Begin(t)
    PROVE  /\ run[t].pc = "new" /\ run'[t].pc = "load" /\ run'[t].prompt = run[t].prompt
           /\ run'[t].lost = run[t].lost /\ rows' = Append(rows, UserRow(t)) /\ Meet(t)
           /\ \A u \in Turns : u # t => run'[u] = run[u]
           /\ rows' \in Seq(Row) /\ run' \in [Turns -> RunStates] /\ troubles' = troubles
<1>1. PICK r \in RunStates, m \in Row : r = run[t] /\ m = UserRow(t)
  BY RunTypes, RowsWritten
<1>2. PICK s : s = [r EXCEPT !.pc = "load"]
  OBVIOUS
<1>3. s \in RunStates /\ s.pc = "load" /\ s.prompt = r.prompt /\ s.lost = r.lost
  BY <1>2 DEF RunStates, Pcs
<1>4. /\ run' = [run EXCEPT ![t] = s] /\ rows' = Append(rows, m) /\ r.pc = "new" /\ Meet(t)
      /\ troubles' = troubles
  BY <1>1, <1>2 DEF Begin, TurnsTypeOK
<1>5. rows' \in Seq(Row)
  BY <1>4, AppendProperties DEF TurnsTypeOK
<1>6. run' \in [Turns -> RunStates] /\ run'[t] = s /\ \A u \in Turns : u # t => run'[u] = run[u]
  BY <1>3, <1>4 DEF TurnsTypeOK
<1>. QED
  BY <1>1, <1>3, <1>4, <1>5, <1>6

LEMMA PostMessageIs ==
    ASSUME TurnsTypeOK, NEW t \in Turns, NEW m \in Posted(t), PostMessage(t, m)
    PROVE  /\ run[t].pc = "new" /\ run'[t] = Ended(t, "posted") /\ rows' = Append(rows, m) /\ Meet(t)
           /\ m \in Row /\ m.by = t
           /\ \A u \in Turns : u # t => run'[u] = run[u]
           /\ rows' \in Seq(Row) /\ run' \in [Turns -> RunStates] /\ troubles' = troubles
<1>1. m \in Row /\ m.by = t
  <2>1. ASSUME NEW says \in Contents, m = AssistantRow(t, says) PROVE m \in Row /\ m.by = t
    BY <2>1, ContentsAre, RowsWritten
  <2>2. ASSUME NEW id \in CallId \cup {NoId}, m = ToolRow(t, id) PROVE m \in Row /\ m.by = t
    BY <2>2, ContentsAre, RowsWritten
  <2>. QED
    BY <2>1, <2>2 DEF Posted
<1>2. PICK s \in RunStates : s = Ended(t, "posted")
  BY EndedIs DEF Pcs
<1>3. /\ run[t].pc = "new" /\ rows' = Append(rows, m) /\ run' = [run EXCEPT ![t] = s] /\ Meet(t)
      /\ troubles' = troubles
  BY <1>2 DEF PostMessage
<1>4. rows' \in Seq(Row)
  BY <1>1, <1>3, AppendProperties DEF TurnsTypeOK
<1>5. run' \in [Turns -> RunStates] /\ run'[t] = s /\ \A u \in Turns : u # t => run'[u] = run[u]
  BY <1>3 DEF TurnsTypeOK
<1>. QED
  BY <1>1, <1>2, <1>3, <1>4, <1>5

\* The last Cap rows.
LEMMA CapLastIs ==
    ASSUME NEW h \in Seq(Row)
    PROVE  \E d \in Nat : /\ CapLast(h, Cap) \in Seq(Row)
                          /\ Len(CapLast(h, Cap)) = Len(h) - d
                          /\ \A i \in 1 .. Len(h) - d : CapLast(h, Cap)[i] = h[i + d]
<1>1. Cap \in Nat /\ Len(h) \in Nat
  BY TurnsAssumption, LenProperties
<1>2. CASE Cap <= 0 \/ Len(h) <= Cap
  BY <1>1, <1>2 DEF CapLast
<1>3. CASE ~(Cap <= 0 \/ Len(h) <= Cap)
  <2>1. PICK d \in Nat : d = Len(h) - Cap
    BY <1>1, <1>3
  <2>2. CapLast(h, Cap) = SubSeq(h, d + 1, Len(h))
    BY <1>1, <1>3, <2>1 DEF CapLast
  <2>3. d + 1 \in 1 .. Len(h) + 1 /\ Len(h) \in d .. Len(h)
    BY <1>1, <1>3, <2>1
  <2>4. /\ SubSeq(h, d + 1, Len(h)) \in Seq(Row)
        /\ Len(SubSeq(h, d + 1, Len(h))) = Len(h) - d
        /\ \A i \in 1 .. Len(h) - d : SubSeq(h, d + 1, Len(h))[i] = h[i + d]
    BY <1>1, <1>3, <2>1, <2>3
  <2>. QED
    BY <2>2, <2>4
<1>. QED
  BY <1>2, <1>3

LEMMA LoadHistoryIs ==
    ASSUME TurnsTypeOK, NEW t \in Turns, LoadHistory(t)
    PROVE  /\ run[t].pc = "load" /\ run'[t].pc = "think" /\ run'[t].lost = run[t].lost
           /\ run'[t].prompt = Sanitize(CapLast(rows, Cap))
           /\ rows' = rows /\ met' = met /\ troubles' = troubles
           /\ \A u \in Turns : u # t => run'[u] = run[u]
           /\ run' \in [Turns -> RunStates]
<1>1. PICK p : p = Sanitize(CapLast(rows, Cap))
  OBVIOUS
<1>2. p \in Seq(Row)
  BY <1>1, CapLastIs, SanitizedIsWellFormed DEF TurnsTypeOK
<1>3. PICK r, s : r \in RunStates /\ r = run[t] /\ s = [r EXCEPT !.pc = "think", !.prompt = p]
  BY RunTypes
<1>4. s = [pc |-> "think", iter |-> r.iter, prompt |-> p, todo |-> r.todo, lost |-> r.lost]
  BY <1>3 DEF RunStates
<1>5. s \in RunStates /\ s.pc = "think" /\ s.prompt = p /\ s.lost = r.lost
  BY <1>2, <1>3, <1>4 DEF RunStates, Pcs
<1>6. run' = [run EXCEPT ![t] = s] /\ rows' = rows /\ met' = met /\ troubles' = troubles /\ r.pc = "load"
  BY <1>1, <1>3 DEF LoadHistory, TurnsTypeOK
<1>7. run' \in [Turns -> RunStates] /\ run'[t] = s /\ \A u \in Turns : u # t => run'[u] = run[u]
  BY <1>5, <1>6 DEF TurnsTypeOK
<1>. QED
  BY <1>1, <1>3, <1>5, <1>6, <1>7

Ends(t) == \E says \in Contents : Reply(t, says) \/ Conclude(t, says)

LEMMA EndIs ==
    ASSUME TurnsTypeOK, NEW t \in Turns, Ends(t)
    PROVE  \E m \in Row, next \in RunStates :
             /\ m.role = "assistant" /\ m.by = t
             /\ run[t].pc \in {"think", "conclude"} /\ next.pc = "over" /\ next.prompt = <<>>
             /\ next.lost = run[t].lost
             /\ Write(t, m, next) /\ met' = met
<1>0. PICK says \in Contents : Reply(t, says) \/ Conclude(t, says)
  BY DEF Ends
<1>1. PICK m : m = AssistantRow(t, says)
  OBVIOUS
<1>2. m \in Row /\ m.role = "assistant" /\ m.by = t
  BY <1>1, ContentsAre, RowsWritten
<1>3. PICK next : next = Ended(t, "over")
  OBVIOUS
<1>4. next \in RunStates /\ next.pc = "over" /\ next.prompt = <<>> /\ next.lost = run[t].lost
  BY <1>3, EndedIs DEF Pcs
<1>5. Write(t, m, next) /\ met' = met /\ run[t].pc \in {"think", "conclude"}
  BY <1>0, <1>1, <1>3 DEF Reply, Conclude
<1>. QED
  BY <1>2, <1>4, <1>5

LEMMA FailIs ==
    ASSUME TurnsTypeOK, NEW t \in Turns, Fail(t)
    PROVE  /\ run'[t] = Ended(t, "over") /\ rows' = rows /\ met' = met /\ troubles' = troubles
           /\ \A u \in Turns : u # t => run'[u] = run[u]
           /\ run' \in [Turns -> RunStates]
<1>1. PICK s \in RunStates : s = Ended(t, "over")
  BY EndedIs DEF Pcs
<1>2. run' = [run EXCEPT ![t] = s] /\ rows' = rows /\ met' = met /\ troubles' = troubles
  BY <1>1 DEF Fail
<1>. QED
  BY <1>1, <1>2 DEF TurnsTypeOK

LEMMA RestartIs ==
    ASSUME TurnsTypeOK, RestartTurns
    PROVE  /\ rows' = rows /\ met' = met /\ troubles' \in Nat /\ run' \in [Turns -> RunStates]
           /\ \A t \in Turns : \/ run'[t] = run[t] /\ t \notin Running
                               \/ run'[t] = Ended(t, "over") /\ t \in Running
<1>1. \A t \in Turns : Ended(t, "over") \in RunStates
  BY EndedIs DEF Pcs
<1>. QED
  BY <1>1 DEF RestartTurns, TurnsTypeOK

LEMMA TailIs ==
    ASSUME NEW todo \in Seq(Id), todo # <<>>,
           \A i, j \in 1 .. Len(todo) : todo[i] = todo[j] => i = j
    PROVE  /\ Tail(todo) \in Seq(Id) /\ Head(todo) \in Range(todo)
           /\ Range(Tail(todo)) = Range(todo) \ {Head(todo)}
           /\ Tail(todo) = <<>> => Range(Tail(todo)) = {}
           /\ \A i, j \in 1 .. Len(Tail(todo)) : Tail(todo)[i] = Tail(todo)[j] => i = j
<1>1. PICK n, rest : n = Len(todo) /\ rest = Tail(todo)
  OBVIOUS
<1>2. n \in Nat /\ n >= 1 /\ DOMAIN todo = 1 .. n
  BY <1>1, LenProperties, EmptySeq
<1>3. /\ rest \in Seq(Id) /\ Len(rest) = n - 1 /\ Head(todo) = todo[1]
      /\ \A i \in 1 .. n - 1 : rest[i] = todo[i + 1]
  BY <1>1, <1>2, HeadTailProperties
<1>4. DOMAIN rest = 1 .. n - 1
  BY <1>3, LenProperties
<1>5. Range(todo) = {todo[i] : i \in 1 .. n} /\ Range(rest) = {rest[i] : i \in 1 .. n - 1}
  BY <1>2, <1>4 DEF Range
<1>6. Head(todo) \in Range(todo)
  BY <1>2, <1>3, <1>5
<1>7. ASSUME NEW x \in Range(rest) PROVE x \in Range(todo) /\ x # Head(todo)
  <2>1. PICK i \in 1 .. n - 1 : x = rest[i]
    BY <1>5
  <2>2. i + 1 \in 1 .. n /\ i + 1 # 1 /\ 1 \in 1 .. n /\ x = todo[i + 1]
    BY <1>2, <1>3, <2>1
  <2>. QED
    BY <1>1, <1>3, <1>5, <2>2
<1>8. ASSUME NEW x \in Range(todo), x # Head(todo) PROVE x \in Range(rest)
  <2>1. PICK i \in 1 .. n : x = todo[i]
    BY <1>5
  <2>2. i # 1
    BY <1>3, <1>8, <2>1
  <2>3. i - 1 \in 1 .. n - 1 /\ (i - 1) + 1 = i
    BY <1>2, <2>2
  <2>4. rest[i - 1] = x
    BY <1>3, <2>1, <2>3
  <2>. QED
    BY <1>5, <2>3, <2>4
<1>9. rest = <<>> => Range(rest) = {}
  <2>1. rest = <<>> => n = 1
    BY <1>2, <1>3, EmptySeq
  <2>. QED
    BY <1>5, <2>1
<1>10. ASSUME NEW i \in 1 .. Len(rest), NEW j \in 1 .. Len(rest), rest[i] = rest[j] PROVE i = j
  <2>1. i \in 1 .. n - 1 /\ j \in 1 .. n - 1 /\ i + 1 \in 1 .. n /\ j + 1 \in 1 .. n
    BY <1>2, <1>3
  <2>2. todo[i + 1] = todo[j + 1]
    BY <1>3, <1>10, <2>1
  <2>3. i + 1 = j + 1
    BY <1>1, <2>1, <2>2
  <2>. QED
    BY <2>1, <2>3
<1>11. Range(rest) = Range(todo) \ {Head(todo)}
  BY <1>7, <1>8
<1>. QED
  BY <1>1, <1>3, <1>6, <1>9, <1>10, <1>11

\* A step of a turn that writes a row.
LEMMA WritingIs ==
    ASSUME TurnsTypeOK, NEW t \in Turns, NEW m \in Row, NEW next \in RunStates, Write(t, m, next),
           m.by = t, met' = met, run[t].pc \notin {"new", "over", "posted"}, next.pc # "new", next.lost = run[t].lost
    PROVE  /\ TurnsTypeOK'
           /\ \A u \in Turns : u # t => run'[u] = run[u]
           /\ run'[t].pc = next.pc /\ run'[t].todo = next.todo /\ run'[t].prompt = next.prompt
           /\ run[t].lost => run'[t].lost
           /\ \/ rows' = rows /\ run'[t].lost
              \/ rows' = Append(rows, m)
<1>1. TurnsTypeOK' /\ \A u \in Turns : u # t => run'[u] = run[u]
  BY WriteIs DEF TurnsTypeOK
<1>2. CASE rows' = Append(rows, m) /\ run'[t] = next
  BY <1>1, <1>2
<1>3. CASE rows' = rows /\ run'[t] = [next EXCEPT !.lost = TRUE]
  BY <1>1, <1>3 DEF RunStates
<1>. QED
  BY <1>1, <1>2, <1>3, WriteIs

\* The rows of a turn: a result that has an id is of a call the turn has to make, or posted.
Adds(t, m) ==
    /\ m.by = t
    /\ m.role = "tool" /\ m.id # NoId =>
          \/ run[t].pc = "act" /\ m.id \in Range(run[t].todo)
          \/ run'[t].pc = "posted"

\* A step of a turn, whichever it is.
Moves(t) ==
    /\ TurnsTypeOK'
    /\ \A u \in Turns : u # t => run'[u] = run[u]
    /\ run'[t].pc # "new" /\ run[t].pc # "posted"
    /\ run[t].lost => run'[t].lost
    /\ rows' = rows \/ \E m \in Row : rows' = Append(rows, m) /\ Adds(t, m)
    /\ \/ run[t].pc \notin {"new", "over", "posted"} /\ met' = met
       \/ run[t].pc = "new" /\ Meet(t)
       \/ rows' = rows /\ met' = met /\ run'[t].pc = "over"

LEMMA StepIs ==
    ASSUME TurnsTypeOK, NewMeetNone, PromptsSound, NEW t \in Turns, Step(t)
    PROVE  Moves(t)
<1>1. run[t].pc = "new" => met[t] = {}
  BY DEF NewMeetNone
<1>2. CASE Begin(t)
  <2>1. PICK m \in Row : m = UserRow(t) /\ Adds(t, m)
    BY RowsWritten DEF Adds
  <2>2. TurnsTypeOK'
    BY <1>1, <1>2, BeginIs, MeetIs DEF TurnsTypeOK
  <2>3. /\ run[t].pc = "new" /\ run'[t].pc = "load" /\ run'[t].lost = run[t].lost
        /\ rows' = Append(rows, m) /\ Meet(t) /\ \A u \in Turns : u # t => run'[u] = run[u]
    BY <1>2, <2>1, BeginIs
  <2>. QED
    BY <2>1, <2>2, <2>3 DEF Moves
<1>3. ASSUME NEW m \in Posted(t), PostMessage(t, m) PROVE Moves(t)
  <2>1. TurnsTypeOK'
    BY <1>1, <1>3, PostMessageIs, MeetIs DEF TurnsTypeOK
  <2>2. run'[t].pc = "posted" /\ run'[t].lost = run[t].lost
    BY <1>3, PostMessageIs, EndedIs DEF Pcs
  <2>3. /\ run[t].pc = "new" /\ rows' = Append(rows, m) /\ Meet(t) /\ m \in Row /\ Adds(t, m)
        /\ \A u \in Turns : u # t => run'[u] = run[u]
    BY <1>3, <2>2, PostMessageIs DEF Adds
  <2>. QED
    BY <2>1, <2>2, <2>3 DEF Moves
<1>4. CASE LoadHistory(t)
  <2>1. TurnsTypeOK'
    BY <1>4, LoadHistoryIs DEF TurnsTypeOK
  <2>. QED
    BY <1>4, <2>1, LoadHistoryIs DEF Moves
<1>5. ASSUME NEW m \in Row, NEW next \in RunStates, Write(t, m, next), m.by = t, met' = met,
             run[t].pc \notin {"new", "over", "posted"}, next.pc # "new", next.lost = run[t].lost, Adds(t, m)
      PROVE  Moves(t)
  BY <1>5, WritingIs DEF Moves
<1>6. CASE Ends(t)
  BY <1>5, <1>6, EndIs DEF Adds
<1>7. ASSUME NEW text \in BOOLEAN, NEW n \in 1 .. MaxCalls, Request(t, text, CallIds(t, n)) PROVE Moves(t)
  <2>1. PICK calls \in Seq(Id), m \in Row, next \in RunStates : Asking(t, calls, m, next)
    BY <1>7, RequestIs
  <2>. QED
    BY <1>5, <2>1 DEF Adds, Asking
<1>8. ASSUME NEW pending \in BOOLEAN, Act(t, pending) PROVE Moves(t)
  <2>1. run[t].todo # <<>>
    BY <1>8 DEF Act, PromptsSound, Acting
  <2>2. Head(run[t].todo) \in Range(run[t].todo)
    BY <1>8, <2>1, TailIs, RunTypes DEF Act, PromptsSound, Acting
  <2>. QED
    BY <1>5, <1>8, <2>1, <2>2, ActIs DEF Adds
<1>9. CASE Fail(t)
  <2>1. TurnsTypeOK'
    BY <1>9, FailIs DEF TurnsTypeOK
  <2>2. run'[t].pc = "over" /\ run'[t].lost = run[t].lost
    BY <1>9, FailIs, EndedIs DEF Pcs
  <2>3. run[t].pc # "posted"
    BY <1>9 DEF Fail
  <2>. QED
    BY <1>9, <2>1, <2>2, <2>3, FailIs DEF Moves
<1>. QED
  BY <1>2, <1>3, <1>4, <1>6, <1>7, <1>8, <1>9 DEF Step, Ends

\* Turns that run, and whom they met, when t moves.
LEMMA MetGrows ==
    ASSUME TurnsTypeOK, NewMeetNone, RunningMet, NEW t \in Turns, Moves(t)
    PROVE  /\ NewMeetNone' /\ RunningMet' /\ OwnTurns \subseteq OwnTurns'
           /\ \A u \in Turns : met[u] \subseteq met'[u]
           /\ \A u \in Turns : Undisturbed(u)' => Undisturbed(u)
           /\ rows' = rows \/ \A u \in Running' : u # t => t \in met'[u]
           /\ \A u \in Running' : u # t => u \in Running
<1>1. /\ TurnsTypeOK' /\ \A u \in Turns : u # t => run'[u] = run[u]
      /\ run'[t].pc # "new" /\ run[t].pc # "posted" /\ (run[t].lost => run'[t].lost)
  BY DEF Moves
<1>2. \A u \in Running' : u # t => u \in Running
  BY <1>1 DEF Running
<1>3. run[t].pc = "new" => met[t] = {}
  BY DEF NewMeetNone
<1>4. /\ \A u \in Turns : met[u] \subseteq met'[u]
      /\ NewMeetNone' /\ RunningMet'
      /\ rows' = rows \/ \A u \in Running' : u # t => t \in met'[u]
  <2>1. CASE run[t].pc \notin {"new", "over", "posted"} /\ met' = met
    <3>1. t \in Running /\ Running' \subseteq Running
      BY <1>1, <2>1, <1>2 DEF Running
    <3>2. NewMeetNone' /\ RunningMet'
      BY <1>1, <2>1, <3>1 DEF NewMeetNone, RunningMet
    <3>3. \A u \in Running' : u # t => t \in met'[u]
      BY <2>1, <3>1 DEF RunningMet
    <3>. QED
      BY <2>1, <3>2, <3>3
  <2>2. CASE run[t].pc = "new" /\ Meet(t)
    <3>1. /\ met'[t] = Running /\ \A u \in Turns : met[u] \subseteq met'[u]
          /\ \A u \in Running : u # t => t \in met'[u]
          /\ \A u \in Turns : u \notin Running /\ u # t => met'[u] = met[u]
      BY <1>3, <2>2, MeetIs
    <3>2. NewMeetNone'
      <4>1. ASSUME NEW u \in Turns, run'[u].pc = "new" PROVE met'[u] = {}
        <5>1. u # t /\ run[u].pc = "new" /\ u \notin Running
          BY <1>1, <4>1 DEF Running
        <5>. QED
          BY <3>1, <5>1 DEF NewMeetNone
      <4>. QED
        BY <4>1 DEF NewMeetNone
    <3>3. RunningMet'
      <4>1. Running' \subseteq Turns /\ Running \subseteq Turns
        BY DEF Running
      <4>2. ASSUME NEW a \in Running', NEW b \in Running', a # b PROVE b \in met'[a]
        BY <1>2, <3>1, <4>1, <4>2 DEF RunningMet
      <4>. QED
        BY <4>2 DEF RunningMet
    <3>. QED
      BY <1>2, <3>1, <3>2, <3>3
  <2>3. CASE rows' = rows /\ met' = met /\ run'[t].pc = "over"
    <3>1. Running' \subseteq Running
      BY <1>1, <1>2, <2>3 DEF Running
    <3>. QED
      BY <1>1, <2>3, <3>1 DEF NewMeetNone, RunningMet
  <2>. QED
    BY <2>1, <2>2, <2>3 DEF Moves
<1>5. OwnTurns \subseteq OwnTurns'
  BY <1>1, <1>4 DEF OwnTurns
<1>6. ASSUME NEW u \in Turns, Undisturbed(u)' PROVE Undisturbed(u)
  BY <1>1, <1>4, <1>6 DEF Undisturbed
<1>. QED
  BY <1>2, <1>4, <1>5, <1>6

-----------------------------------------------------------------------------
(* The prompts                                                               *)

\* A request opens its calls.
LEMMA RequestOpens ==
    ASSUME NEW p \in Seq(Row), WellFormed(p), NEW m \in Row, m.role = "assistant"
    PROVE  Sane([out |-> Append(p, m), open |-> m.calls, at |-> Len(p) + 1])
<1>1. PICK acc : acc = [out |-> p, open |-> {}, at |-> 0]
  OBVIOUS
<1>2. acc \in [out : Seq(Row), open : SUBSET Id, at : Nat] /\ acc.out = p /\ acc.open = {}
  BY <1>1
<1>3. Sane(acc)
  BY <1>2 DEF Sane, WellFormed
<1>4. Append(p, m) \in Seq(Row) /\ Len(p) \in Nat /\ m.calls \subseteq Id
  BY AppendKeeps, RowTypes
<1>5. PICK new : new = [out |-> Append(p, m), open |-> m.calls, at |-> Len(p) + 1]
  OBVIOUS
<1>6. /\ new \in [out : Seq(Row), open : SUBSET Id, at : Nat]
      /\ new.out = Append(acc.out, m) /\ new.open = m.calls /\ new.at = Len(acc.out) + 1
  BY <1>2, <1>4, <1>5
<1>7. Sane(new)
  BY <1>2, <1>3, <1>6, OtherIsSane
<1>. QED
  BY <1>5, <1>7

\* A result closes its call.
LEMMA ResultCloses ==
    ASSUME NEW p, NEW open, NEW at, Sane([out |-> p, open |-> open, at |-> at]),
           NEW m \in Row, m.role = "tool", m.id \in open
    PROVE  Sane([out |-> Append(p, m), open |-> open \ {m.id}, at |-> at])
<1>1. PICK acc : acc = [out |-> p, open |-> open, at |-> at]
  OBVIOUS
<1>2. Sane([acc EXCEPT !.out = Append(@, m), !.open = @ \ {m.id}])
  BY <1>1, ResultIsSane
<1>3. [acc EXCEPT !.out = Append(@, m), !.open = @ \ {m.id}]
        = [out |-> Append(p, m), open |-> open \ {m.id}, at |-> at]
  <2>1. PICK q, o : q = Append(p, m) /\ o = open \ {m.id}
    OBVIOUS
  <2>2. [acc EXCEPT !.out = q] = [out |-> q, open |-> open, at |-> at]
    BY <1>1
  <2>3. [acc EXCEPT !.out = q, !.open = o] = [out |-> q, open |-> o, at |-> at]
    <3>1. PICK b : b = [out |-> q, open |-> open, at |-> at]
      OBVIOUS
    <3>2. b = [acc EXCEPT !.out = q]
      BY <2>2, <3>1
    <3>3. [b EXCEPT !.open = o] = [out |-> q, open |-> o, at |-> at]
      BY <3>1
    <3>. QED
      BY <3>2, <3>3, Zenon
  <2>4. acc.out = p /\ acc.open = open
    BY <1>1
  <2>. QED
    BY <2>1, <2>3, <2>4
<1>. QED
  BY <1>2, <1>3

\* What PromptsSound says of one turn.
PromptSound(t) ==
    /\ run[t].pc = "think" => WellFormed(run[t].prompt)
    /\ run[t].pc = "act" => Acting(t)

LEMMA PromptSoundStep ==
    ASSUME TurnsTypeOK, NewMeetNone, PromptsSound, NEW t \in Turns, Step(t)
    PROVE  PromptsSound'
<1>1. Moves(t)
  BY StepIs
<1>2. ASSUME NEW u \in Turns, u # t PROVE PromptSound(u)'
  <2>1. run'[u] = run[u]
    BY <1>1, <1>2 DEF Moves
  <2>2. PromptSound(u)
    BY DEF PromptsSound, PromptSound
  <2>3. Acting(u) => Acting(u)'
    BY <2>1 DEF Acting
  <2>. QED
    BY <2>1, <2>2, <2>3 DEF PromptSound
<1>3. ASSUME run'[t].pc \notin {"think", "act"} PROVE PromptSound(t)'
  BY <1>3 DEF PromptSound
<1>4. ASSUME Begin(t) PROVE PromptSound(t)'
  BY <1>3, <1>4, BeginIs
<1>5. ASSUME NEW m \in Posted(t), PostMessage(t, m) PROVE PromptSound(t)'
  BY <1>3, <1>5, PostMessageIs, EndedIs DEF Pcs
<1>6. ASSUME LoadHistory(t) PROVE PromptSound(t)'
  <2>1. run'[t].pc = "think" /\ run'[t].prompt = Sanitize(CapLast(rows, Cap))
    BY <1>6, LoadHistoryIs
  <2>2. WellFormed(Sanitize(CapLast(rows, Cap)))
    BY CapLastIs, SanitizedIsWellFormed DEF TurnsTypeOK
  <2>. QED
    BY <2>1, <2>2 DEF PromptSound
<1>7. ASSUME Ends(t) PROVE PromptSound(t)'
  <2>1. PICK m \in Row, next \in RunStates :
           /\ m.role = "assistant" /\ m.by = t
           /\ run[t].pc \in {"think", "conclude"} /\ next.pc = "over" /\ next.prompt = <<>>
           /\ next.lost = run[t].lost
           /\ Write(t, m, next) /\ met' = met
    BY <1>7, EndIs
  <2>. QED
    BY <1>3, <2>1, WritingIs
<1>8. ASSUME NEW text \in BOOLEAN, NEW n \in 1 .. MaxCalls, Request(t, text, CallIds(t, n)) PROVE PromptSound(t)'
  <2>0. PICK calls \in Seq(Id), m \in Row, next \in RunStates : Asking(t, calls, m, next)
    BY <1>8, RequestIs
  <2>1. /\ calls # <<>> /\ \A i, j \in 1 .. Len(calls) : calls[i] = calls[j] => i = j
        /\ m.role = "assistant" /\ m.calls = Range(calls) /\ Range(calls) # {} /\ Range(calls) \subseteq Id /\ m.by = t
        /\ run[t].pc = "think" /\ next.pc = "act" /\ next.todo = calls
        /\ next.prompt = Append(run[t].prompt, m) /\ next.lost = run[t].lost
        /\ Write(t, m, next) /\ met' = met
    BY <2>0 DEF Asking
  <2>2. PICK p, s : p \in Seq(Row) /\ p = run[t].prompt /\ s = run'[t]
    BY RunTypes
  <2>3. s.pc = "act" /\ s.todo = calls /\ s.prompt = Append(p, m)
    <3>1. /\ run[t].pc \notin {"new", "over", "posted"} /\ next.pc # "new" /\ next.lost = run[t].lost
          /\ m.by = t /\ Write(t, m, next) /\ met' = met
      BY <2>1
    <3>2. run'[t].pc = next.pc /\ run'[t].todo = next.todo /\ run'[t].prompt = next.prompt
      BY <3>1, WritingIs
    <3>3. next.pc = "act" /\ next.todo = calls /\ next.prompt = Append(p, m)
      BY <2>1, <2>2
    <3>. QED
      BY <2>2, <3>2, <3>3
  <2>4. WellFormed(p)
    BY <2>1, <2>2 DEF PromptsSound
  <2>5. Sane([out |-> Append(p, m), open |-> Range(calls), at |-> Len(p) + 1])
    <3>1. Sane([out |-> Append(p, m), open |-> m.calls, at |-> Len(p) + 1])
      BY <2>1, <2>2, <2>4, RequestOpens
    <3>. QED
      BY <2>1, <3>1
  <2>6. Len(p) + 1 \in 1 .. Len(Append(p, m)) /\ Append(p, m)[Len(p) + 1] = m
    BY <2>2, AppendKeeps
  <2>7. \E at \in 1 .. Len(s.prompt) :
           Sane([out |-> s.prompt, open |-> Range(s.todo), at |-> at]) /\ s.prompt[at].by = t
    BY <2>1, <2>3, <2>5, <2>6
  <2>8. s.todo # <<>> /\ \A i, j \in 1 .. Len(s.todo) : s.todo[i] = s.todo[j] => i = j
    BY <2>1, <2>3
  <2>9. Acting(t)'
    BY <2>2, <2>7, <2>8 DEF Acting
  <2>. QED
    BY <2>2, <2>3, <2>9 DEF PromptSound
<1>9. ASSUME NEW pending \in BOOLEAN, Act(t, pending) PROVE PromptSound(t)'
  <2>1. run[t].pc = "act" /\ Acting(t)
    BY <1>9 DEF Act, PromptsSound
  <2>2. PICK r, s, todo, p : r = run[t] /\ s = run'[t] /\ todo = r.todo /\ p = r.prompt
    OBVIOUS
  <2>3. /\ todo # <<>> /\ todo \in Seq(Id) /\ p \in Seq(Row)
        /\ \A i, j \in 1 .. Len(todo) : todo[i] = todo[j] => i = j
    BY <2>1, <2>2, RunTypes DEF Acting
  <2>4. PICK at \in 1 .. Len(p) : Sane([out |-> p, open |-> Range(todo), at |-> at]) /\ p[at].by = t
    BY <2>1, <2>2 DEF Acting
  <2>5. PICK m \in Row, next \in RunStates :
             /\ m.role = "tool" /\ m.id = Head(todo) /\ m.by = t /\ m.id \in Id
             /\ r.pc = "act" /\ next.lost = r.lost
             /\ \/ next.pc = "conclude" /\ next.prompt = <<>>
                \/ /\ next.pc = IF Tail(todo) = <<>> THEN "think" ELSE "act"
                   /\ next.todo = Tail(todo) /\ next.prompt = Append(p, m)
             /\ Write(t, m, next) /\ met' = met
    <3>1. run[t].todo # <<>>
      BY <2>2, <2>3
    <3>2. PICK m \in Row, next \in RunStates :
             /\ m.role = "tool" /\ m.id = Head(run[t].todo) /\ m.by = t /\ m.id \in Id
             /\ run[t].pc = "act" /\ next.lost = run[t].lost
             /\ \/ next.pc = "conclude" /\ next.prompt = <<>>
                \/ /\ next.pc = IF Tail(run[t].todo) = <<>> THEN "think" ELSE "act"
                   /\ next.todo = Tail(run[t].todo) /\ next.prompt = Append(run[t].prompt, m)
             /\ Write(t, m, next) /\ met' = met
      BY <1>9, <3>1, ActIs
    <3>. QED
      BY <2>2, <3>2
  <2>6. s.pc = next.pc /\ s.todo = next.todo /\ s.prompt = next.prompt
    BY <2>2, <2>5, WritingIs
  <2>7. CASE next.pc = "conclude"
    BY <1>3, <2>2, <2>6, <2>7
  <2>8. CASE /\ next.pc = IF Tail(todo) = <<>> THEN "think" ELSE "act"
             /\ next.todo = Tail(todo) /\ next.prompt = Append(p, m)
    <3>1. PICK rest : rest = Tail(todo)
      OBVIOUS
    <3>2. /\ rest \in Seq(Id) /\ Range(rest) = Range(todo) \ {m.id} /\ m.id \in Range(todo)
          /\ rest = <<>> => Range(rest) = {}
          /\ \A i, j \in 1 .. Len(rest) : rest[i] = rest[j] => i = j
      BY <2>3, <2>5, <3>1, TailIs
    <3>3. Sane([out |-> Append(p, m), open |-> Range(rest), at |-> at])
      BY <2>4, <2>5, <3>2, ResultCloses
    <3>4. /\ at \in 1 .. Len(Append(p, m)) /\ Append(p, m)[at].by = t
      BY <2>3, <2>4, AppendKeeps
    <3>5. CASE rest = <<>>
      <4>1. Sane([out |-> Append(p, m), open |-> {}, at |-> at])
        BY <3>2, <3>3, <3>5
      <4>2. WellFormed(Append(p, m))
        BY <4>1 DEF Sane, WellFormed
      <4>. QED
        BY <2>2, <2>6, <2>8, <3>1, <3>5, <4>2 DEF PromptSound
    <3>6. CASE rest # <<>>
      <4>1. s.pc = "act" /\ s.todo = rest /\ s.prompt = Append(p, m)
        BY <2>6, <2>8, <3>1, <3>6
      <4>2. \E a \in 1 .. Len(s.prompt) :
               Sane([out |-> s.prompt, open |-> Range(s.todo), at |-> a]) /\ s.prompt[a].by = t
        BY <3>3, <3>4, <4>1
      <4>3. s.todo # <<>> /\ \A i, j \in 1 .. Len(s.todo) : s.todo[i] = s.todo[j] => i = j
        BY <3>2, <3>6, <4>1
      <4>4. Acting(t)'
        BY <2>2, <4>2, <4>3 DEF Acting
      <4>. QED
        BY <2>2, <4>1, <4>4 DEF PromptSound
    <3>. QED
      BY <3>5, <3>6
  <2>. QED
    BY <2>5, <2>7, <2>8
<1>10. ASSUME Fail(t) PROVE PromptSound(t)'
  BY <1>3, <1>10, FailIs, EndedIs DEF Pcs
<1>11. PromptSound(t)'
  BY <1>4, <1>5, <1>6, <1>7, <1>8, <1>9, <1>10 DEF Step, Ends
<1>. QED
  BY <1>2, <1>11 DEF PromptsSound, PromptSound

-----------------------------------------------------------------------------
(* Whose results go to whose requests                                        *)

LEMMA OwnLarger ==
    ASSUME NEW h, NEW A, NEW B, A \subseteq B, OwnAnswers(h, A)
    PROVE  OwnAnswers(h, B)
BY DEF OwnAnswers

LEMMA OwnAppend ==
    ASSUME NEW h \in Seq(Row), NEW m \in Row, NEW Own, OwnAnswers(h, Own),
           \A j \in 1 .. Len(h) : Answers(Append(h, m), Len(h) + 1, j) => <<h[j].by, m.by>> \in Own
    PROVE  OwnAnswers(Append(h, m), Own)
<1>1. PICK g, n : g = Append(h, m) /\ n = Len(h)
  OBVIOUS
<1>2. n \in Nat /\ Len(g) = n + 1 /\ g[n + 1] = m /\ \A i \in 1 .. n : g[i] = h[i]
  BY <1>1, AppendKeeps
<1>3. ASSUME NEW i \in 1 .. n + 1, NEW j \in 1 .. n + 1, Answers(g, i, j)
      PROVE  <<g[j].by, g[i].by>> \in Own
  <2>1. j \in 1 .. n
    BY <1>2, <1>3 DEF Answers
  <2>2. CASE i = n + 1
    BY <1>1, <1>2, <1>3, <2>1, <2>2
  <2>3. CASE i \in 1 .. n
    <3>1. Answers(h, i, j)
      BY <1>1, <1>3, <2>1, <2>3, AnswersAppend
    <3>2. <<h[j].by, h[i].by>> \in Own
      BY <1>1, <2>1, <2>3, <3>1 DEF OwnAnswers
    <3>. QED
      BY <1>2, <2>1, <2>3, <3>2
  <2>. QED
    BY <1>2, <2>2, <2>3
<1>. QED
  BY <1>1, <1>2, <1>3 DEF OwnAnswers

\* A row that is no result answers nothing.
LEMMA OwnAppendOther ==
    ASSUME NEW h \in Seq(Row), NEW m \in Row, NEW Own, OwnAnswers(h, Own), m.role # "tool" \/ m.id = NoId
    PROVE  OwnAnswers(Append(h, m), Own)
<1>1. PICK g, n : g = Append(h, m) /\ n = Len(h)
  OBVIOUS
<1>2. /\ n \in Nat /\ g[n + 1] = m /\ \A i \in 1 .. n : g[i] = h[i] /\ h[i] \in Row
  BY <1>1, AppendKeeps
<1>3. ASSUME NEW j \in 1 .. n, Answers(g, n + 1, j) PROVE FALSE
  <2>1. n + 1 \in (j + 1) .. n + 1
    BY <1>2
  <2>2. m.role = "tool" /\ m.id \in h[j].calls
    BY <1>2, <1>3, <2>1 DEF Answers
  <2>3. h[j].calls \subseteq Id
    BY <1>2, RowTypes
  <2>. QED
    BY <2>2, <2>3, NoIdIsNone
<1>. QED
  BY <1>1, <1>3, OwnAppend

\* What the last rows answer, they answer in the session.
LEMMA AnswersCap ==
    ASSUME NEW h, NEW g, NEW d \in Nat, Len(h) \in Nat, Len(g) = Len(h) - d,
           \A i \in 1 .. Len(h) - d : g[i] = h[i + d],
           NEW i \in 1 .. Len(g), NEW j \in 1 .. Len(g)
    PROVE  Answers(g, i, j) <=> Answers(h, i + d, j + d)
<1>1. i \in Nat /\ j \in Nat /\ i + d \in 1 .. Len(h) /\ j + d \in 1 .. Len(h) /\ g[i] = h[i + d] /\ g[j] = h[j + d]
  OBVIOUS
<1>2. \A k \in (j + 1) .. i : k + d \in (j + d + 1) .. (i + d) /\ g[k] = h[k + d]
  OBVIOUS
<1>3. \A k \in (j + d + 1) .. (i + d) : k - d \in (j + 1) .. i /\ g[k - d] = h[k]
  <2>1. ASSUME NEW k \in (j + d + 1) .. (i + d) PROVE k - d \in (j + 1) .. i /\ g[k - d] = h[k]
    <3>1. k - d \in (j + 1) .. i /\ k - d \in 1 .. Len(h) - d /\ (k - d) + d = k
      OBVIOUS
    <3>. QED
      BY <3>1
  <2>. QED
    BY <2>1
<1>4. ASSUME Answers(g, i, j) PROVE Answers(h, i + d, j + d)
  <2>1. j + d < i + d /\ Requests(h[j + d]) /\ h[i + d].id \in h[j + d].calls
    BY <1>1, <1>4 DEF Answers
  <2>2. \A k \in (j + d + 1) .. (i + d) : h[k].role = "tool"
    BY <1>3, <1>4 DEF Answers
  <2>3. ASSUME NEW k \in (j + d + 1) .. ((i + d) - 1) PROVE h[k].id # h[i + d].id
    <3>1. k \in (j + d + 1) .. (i + d) /\ k - d \in (j + 1) .. (i - 1)
      OBVIOUS
    <3>. QED
      BY <1>1, <1>3, <1>4, <3>1 DEF Answers
  <2>. QED
    BY <2>1, <2>2, <2>3 DEF Answers
<1>5. ASSUME Answers(h, i + d, j + d) PROVE Answers(g, i, j)
  <2>1. j < i /\ Requests(g[j]) /\ g[i].id \in g[j].calls
    BY <1>1, <1>5 DEF Answers
  <2>2. \A k \in (j + 1) .. i : g[k].role = "tool"
    BY <1>2, <1>5 DEF Answers
  <2>3. ASSUME NEW k \in (j + 1) .. (i - 1) PROVE g[k].id # g[i].id
    <3>1. k \in (j + 1) .. i /\ k + d \in (j + d + 1) .. ((i + d) - 1)
      OBVIOUS
    <3>. QED
      BY <1>1, <1>2, <1>5, <3>1 DEF Answers
  <2>. QED
    BY <2>1, <2>2, <2>3 DEF Answers
<1>. QED
  BY <1>4, <1>5

LEMMA OwnCap ==
    ASSUME NEW h \in Seq(Row), NEW Own, OwnAnswers(h, Own)
    PROVE  OwnAnswers(CapLast(h, Cap), Own)
<1>1. PICK g : g = CapLast(h, Cap)
  OBVIOUS
<1>2. PICK d \in Nat : Len(g) = Len(h) - d /\ \A i \in 1 .. Len(h) - d : g[i] = h[i + d]
  BY <1>1, CapLastIs
<1>3. Len(h) \in Nat
  BY LenProperties
<1>4. ASSUME NEW i \in 1 .. Len(g), NEW j \in 1 .. Len(g), Answers(g, i, j)
      PROVE  <<g[j].by, g[i].by>> \in Own
  <2>1. Answers(h, i + d, j + d)
    BY <1>2, <1>3, <1>4, AnswersCap
  <2>2. i + d \in 1 .. Len(h) /\ j + d \in 1 .. Len(h) /\ g[i] = h[i + d] /\ g[j] = h[j + d]
    BY <1>2, <1>3
  <2>3. <<h[j + d].by, h[i + d].by>> \in Own
    BY <2>1, <2>2 DEF OwnAnswers
  <2>. QED
    BY <2>2, <2>3
<1>5. OwnAnswers(g, Own)
  BY <1>4 DEF OwnAnswers
<1>. QED
  BY <1>1, <1>5

\* The rows of a turn that runs come after its first one.
LEMMA RowsSinceStep ==
    ASSUME TurnsTypeOK, NewMeetNone, RunningMet, RowsSince, NEW t \in Turns, Moves(t), Step(t)
    PROVE  RowsSince'
<1>1. /\ TurnsTypeOK' /\ OwnTurns \subseteq OwnTurns'
      /\ rows' = rows \/ \A u \in Running' : u # t => t \in met'[u]
      /\ \A u \in Running' : u # t => u \in Running
  BY MetGrows DEF Moves
<1>2. Running \subseteq Turns /\ Running' \subseteq Turns
  BY DEF Running
<1>3. rows \in Seq(Row) /\ Len(rows) \in Nat
  BY LenProperties DEF TurnsTypeOK
<1>4. ASSUME NEW u \in Running, u \in Running' PROVE \E b \in Nat : Since(u, b)'
  <2>1. PICK b \in Nat : Since(u, b)
    BY <1>4 DEF RowsSince
  <2>2. CASE rows' = rows
    BY <1>1, <2>1, <2>2 DEF Since
  <2>3. CASE rows' # rows
    <3>1. PICK m \in Row : rows' = Append(rows, m) /\ m.by = t
      BY <2>3 DEF Moves, Adds
    <3>2. PICK g : g = rows'
      OBVIOUS
    <3>3. Len(g) = Len(rows) + 1 /\ g[Len(rows) + 1] = m /\ \A k \in 1 .. Len(rows) : g[k] = rows[k]
      BY <1>3, <3>1, <3>2, AppendKeeps
    <3>4. <<t, u>> \in OwnTurns'
      BY <1>1, <1>2, <1>4, <2>3 DEF OwnTurns
    <3>5. ASSUME NEW k \in (b + 1) .. Len(g) PROVE <<g[k].by, u>> \in OwnTurns'
      <4>1. CASE k = Len(rows) + 1
        BY <3>1, <3>3, <3>4, <4>1
      <4>2. CASE k # Len(rows) + 1
        <5>1. k \in (b + 1) .. Len(rows) /\ k \in 1 .. Len(rows)
          BY <1>3, <2>1, <3>3, <4>2 DEF Since
        <5>. QED
          BY <1>1, <2>1, <3>3, <5>1 DEF Since
      <4>. QED
        BY <4>1, <4>2
    <3>6. b \in 1 .. Len(g) /\ g[b].role = "user"
      BY <1>3, <2>1, <3>3 DEF Since
    <3>7. Since(u, b)'
      BY <3>2, <3>5, <3>6 DEF Since
    <3>. QED
      BY <3>7
  <2>. QED
    BY <2>2, <2>3
<1>5. ASSUME t \in Running', t \notin Running PROVE \E b \in Nat : Since(t, b)'
  <2>1. run'[t].pc \notin {"over", "posted"} /\ run[t].pc \in {"new", "over", "posted"}
    BY <1>1, <1>5 DEF Running
  <2>2. Begin(t)
    <3>1. ASSUME NEW m \in Posted(t), PostMessage(t, m) PROVE FALSE
      BY <2>1, <3>1, PostMessageIs, EndedIs DEF Pcs
    <3>2. ~LoadHistory(t) /\ ~Ends(t)
      BY <2>1 DEF LoadHistory, Ends, Reply, Conclude
    <3>3. ~Fail(t)
      BY <2>1, FailIs, EndedIs DEF Pcs
    <3>4. ASSUME NEW text, NEW n, Request(t, text, CallIds(t, n)) PROVE FALSE
      BY <2>1, <3>4 DEF Request
    <3>5. ASSUME NEW pending, Act(t, pending) PROVE FALSE
      BY <2>1, <3>5 DEF Act
    <3>. QED
      BY <3>1, <3>2, <3>3, <3>4, <3>5 DEF Step, Ends
  <2>3. PICK g, m : g = rows' /\ m = UserRow(t)
    OBVIOUS
  <2>4. m \in Row /\ m.role = "user" /\ g = Append(rows, m)
    BY <2>2, <2>3, BeginIs, RowsWritten
  <2>5. Len(g) = Len(rows) + 1 /\ g[Len(rows) + 1] = m
    BY <1>3, <2>4, AppendKeeps
  <2>6. PICK b \in Nat : b = Len(rows) + 1
    BY <1>3
  <2>7. b \in 1 .. Len(g) /\ g[b].role = "user" /\ \A k \in (b + 1) .. Len(g) : FALSE
    BY <2>4, <2>5, <2>6
  <2>8. Since(t, b)'
    BY <2>3, <2>7 DEF Since
  <2>. QED
    BY <2>8
<1>. QED
  BY <1>1, <1>4, <1>5 DEF RowsSince

\* Rows of the session.
LEMMA RowsOwnStep ==
    ASSUME TurnsTypeOK, NewMeetNone, RunningMet, RowsSince, AnswersOwn, NEW t \in Turns, Moves(t)
    PROVE  OwnAnswers(rows, OwnTurns)'
<1>1. OwnTurns \subseteq OwnTurns' /\ rows \in Seq(Row)
  BY MetGrows DEF TurnsTypeOK
<1>2. PICK Own : Own = OwnTurns'
  OBVIOUS
<1>3. OwnAnswers(rows, Own)
  BY <1>1, <1>2, OwnLarger DEF AnswersOwn
<1>4. CASE rows' = rows
  BY <1>2, <1>3, <1>4 DEF OwnAnswers
<1>5. ASSUME NEW m \in Row, rows' = Append(rows, m), Adds(t, m)
      PROVE  OwnAnswers(Append(rows, m), Own)
  <2>1. CASE m.role # "tool" \/ m.id = NoId
    BY <1>1, <1>3, <2>1, OwnAppendOther
  <2>3. CASE run'[t].pc = "posted"
    <3>1. m.by = t
      BY <1>5 DEF Adds
    <3>2. TurnsTypeOK'
      BY DEF Moves
    <3>3. ASSUME NEW j \in 1 .. Len(rows) PROVE <<rows[j].by, m.by>> \in Own
      <4>1. rows[j].by \in Turns
        BY <1>1, RowTypes, ElementOfSeq
      <4>. QED
        BY <1>2, <2>3, <3>1, <3>2, <4>1, OwnTurnsAre DEF OwnTurns
    <3>. QED
      BY <1>1, <1>3, <3>3, OwnAppend
  <2>2. CASE m.role = "tool" /\ m.id # NoId /\ run'[t].pc # "posted"
    <3>1. t \in Running /\ m.by = t
      BY <1>5, <2>2 DEF Adds, Running
    <3>2. PICK b \in Nat : Since(t, b)
      BY <3>1 DEF RowsSince
    <3>3. PICK n, g : n = Len(rows) /\ g = Append(rows, m)
      OBVIOUS
    <3>4. /\ n \in Nat /\ Len(g) = n + 1 /\ \A k \in 1 .. n : g[k] = rows[k]
          /\ b \in 1 .. n /\ rows[b].role = "user"
          /\ \A k \in (b + 1) .. n : <<rows[k].by, t>> \in OwnTurns
      BY <1>1, <3>2, <3>3, AppendKeeps DEF Since
    <3>5. ASSUME NEW j \in 1 .. n, Answers(g, n + 1, j) PROVE <<rows[j].by, m.by>> \in Own
      <4>1. ~(j < b)
        <5>1. SUFFICES ASSUME j < b PROVE FALSE
          OBVIOUS
        <5>2. b \in (j + 1) .. (n + 1) /\ g[b].role = "user"
          BY <3>4, <5>1
        <5>3. g[b].role = "tool"
          BY <3>5, <5>2 DEF Answers
        <5>. QED
          BY <5>2, <5>3
      <4>2. j # b
        BY <3>4, <3>5 DEF Answers, Requests
      <4>3. j \in (b + 1) .. n
        BY <3>4, <4>1, <4>2
      <4>. QED
        BY <1>1, <1>2, <3>1, <3>4, <4>3
    <3>. QED
      BY <1>1, <1>3, <3>3, <3>5, OwnAppend
  <2>. QED
    BY <2>1, <2>2, <2>3
<1>6. CASE \E m \in Row : rows' = Append(rows, m) /\ Adds(t, m)
  BY <1>2, <1>5, <1>6 DEF OwnAnswers
<1>. QED
  BY <1>4, <1>6 DEF Moves

\* Rows of the prompt of the turn that moves.
LEMMA PromptOwnStep ==
    ASSUME TurnsTypeOK, NewMeetNone, RunningMet, PromptsSound, AnswersOwn, NEW t \in Turns, Step(t)
    PROVE  OwnAnswers(run'[t].prompt, OwnTurns')
<1>1. Moves(t) /\ OwnTurns \subseteq OwnTurns'
  BY MetGrows, StepIs
<1>2. PICK Own, p, s : Own = OwnTurns' /\ p = run[t].prompt /\ s = run'[t]
  OBVIOUS
<1>3. p \in Seq(Row) /\ OwnAnswers(p, Own) /\ OwnAnswers(rows, Own)
  BY <1>1, <1>2, OwnLarger, RunTypes DEF AnswersOwn
<1>. SUFFICES OwnAnswers(s.prompt, Own)
  BY <1>2
<1>4. OwnAnswers(<<>>, Own)
  BY DEF OwnAnswers
<1>5. ASSUME s.prompt = <<>> PROVE OwnAnswers(s.prompt, Own)
  BY <1>4, <1>5
<1>6. CASE Begin(t)
  BY <1>2, <1>3, <1>6, BeginIs
<1>7. ASSUME NEW m \in Posted(t), PostMessage(t, m) PROVE OwnAnswers(s.prompt, Own)
  BY <1>2, <1>5, <1>7, PostMessageIs, EndedIs DEF Pcs
<1>8. CASE LoadHistory(t)
  <2>1. PICK h : h = CapLast(rows, Cap)
    OBVIOUS
  <2>2. h \in Seq(Row) /\ OwnAnswers(h, Own)
    BY <1>3, <2>1, CapLastIs, OwnCap DEF TurnsTypeOK
  <2>3. OwnAnswers(Sanitize(h), Own)
    BY <2>2, SanitizedFollows
  <2>. QED
    BY <1>2, <1>8, <2>1, <2>3, LoadHistoryIs
<1>9. CASE Ends(t)
  <2>1. PICK m \in Row, next \in RunStates :
           /\ m.role = "assistant" /\ m.by = t
           /\ run[t].pc \in {"think", "conclude"} /\ next.pc = "over" /\ next.prompt = <<>>
           /\ next.lost = run[t].lost
           /\ Write(t, m, next) /\ met' = met
    BY <1>9, EndIs
  <2>2. s.prompt = <<>>
    BY <1>2, <2>1, WritingIs
  <2>. QED
    BY <1>5, <2>2
<1>10. ASSUME NEW text \in BOOLEAN, NEW n \in 1 .. MaxCalls, Request(t, text, CallIds(t, n))
       PROVE  OwnAnswers(s.prompt, Own)
  <2>0. PICK calls \in Seq(Id), m \in Row, next \in RunStates : Asking(t, calls, m, next)
    BY <1>10, RequestIs
  <2>1. /\ m.role = "assistant" /\ m.by = t /\ run[t].pc = "think" /\ next.pc = "act"
        /\ next.prompt = Append(run[t].prompt, m) /\ next.lost = run[t].lost
        /\ Write(t, m, next) /\ met' = met
    BY <2>0 DEF Asking
  <2>2. s.prompt = Append(p, m)
    BY <1>2, <2>1, WritingIs
  <2>. QED
    BY <1>3, <2>1, <2>2, OwnAppendOther
<1>11. ASSUME NEW pending \in BOOLEAN, Act(t, pending) PROVE OwnAnswers(s.prompt, Own)
  <2>1. run[t].pc = "act" /\ Acting(t)
    BY <1>11 DEF Act, PromptsSound
  <2>2. PICK at \in 1 .. Len(p) :
           Sane([out |-> p, open |-> Range(run[t].todo), at |-> at]) /\ p[at].by = t
    BY <1>2, <2>1 DEF Acting
  <2>3. PICK m \in Row, next \in RunStates :
             /\ m.role = "tool" /\ m.id = Head(run[t].todo) /\ m.by = t /\ m.id \in Id
             /\ run[t].pc = "act" /\ next.lost = run[t].lost
             /\ \/ next.pc = "conclude" /\ next.prompt = <<>>
                \/ /\ next.pc = IF Tail(run[t].todo) = <<>> THEN "think" ELSE "act"
                   /\ next.todo = Tail(run[t].todo) /\ next.prompt = Append(run[t].prompt, m)
             /\ Write(t, m, next) /\ met' = met
    <3>1. run[t].todo # <<>>
      BY <2>1 DEF Acting
    <3>. QED
      BY <1>11, <3>1, ActIs
  <2>4. s.prompt = next.prompt
    BY <1>2, <2>3, WritingIs
  <2>5. CASE next.prompt = <<>>
    BY <1>5, <2>4, <2>5
  <2>6. CASE next.prompt = Append(p, m)
    <3>1. Range(run[t].todo) # {}
      BY <2>1, <2>3, TailIs, RunTypes DEF Acting
    <3>2. /\ Requests(p[at]) /\ \A k \in (at + 1) .. Len(p) : p[k].role = "tool"
      <4>1. PICK acc : acc = [out |-> p, open |-> Range(run[t].todo), at |-> at]
        OBVIOUS
      <4>2. acc.out = p /\ acc.open # {} /\ acc.at = at /\ Sane(acc)
        BY <2>2, <3>1, <4>1
      <4>. QED
        BY <4>2 DEF Sane
    <3>3. PICK g, n : g = Append(p, m) /\ n = Len(p)
      OBVIOUS
    <3>4. /\ g \in Seq(Row) /\ Len(g) = n + 1 /\ n \in Nat /\ g[n + 1] = m
          /\ \A i \in 1 .. n : g[i] = p[i]
      BY <1>3, <3>3, AppendKeeps
    <3>5. \A k \in (at + 1) .. n + 1 : g[k].role = "tool"
      <4>1. ASSUME NEW k \in (at + 1) .. n + 1 PROVE g[k].role = "tool"
        <5>1. CASE k = n + 1
          BY <2>3, <3>4, <5>1
        <5>2. CASE k # n + 1
          <6>1. k \in (at + 1) .. n /\ k \in 1 .. n
            BY <3>3, <3>4, <5>2
          <6>. QED
            BY <3>2, <3>3, <3>4, <6>1
        <5>. QED
          BY <5>1, <5>2
      <4>. QED
        BY <4>1
    <3>6. ASSUME NEW j \in 1 .. n, Answers(g, n + 1, j) PROVE <<p[j].by, m.by>> \in Own
      <4>1. g[at].role # "tool" /\ at \in 1 .. Len(g) /\ n + 1 \in (at + 1) .. Len(g) /\ j \in 1 .. Len(g)
        BY <3>2, <3>3, <3>4 DEF Requests
      <4>2. j = at
        BY <3>4, <3>5, <3>6, <4>1, AnswersLast
      <4>3. <<t, t>> \in Own
        BY <1>1, <1>2, OwnTurnsAre
      <4>. QED
        BY <2>2, <2>3, <4>2, <4>3
    <3>7. OwnAnswers(g, Own)
      BY <1>3, <3>3, <3>6, OwnAppend
    <3>. QED
      BY <2>4, <2>6, <3>3, <3>7
  <2>. QED
    BY <1>2, <2>3, <2>5, <2>6
<1>12. CASE Fail(t)
  BY <1>2, <1>5, <1>12, FailIs, EndedIs DEF Pcs
<1>. QED
  BY <1>6, <1>7, <1>8, <1>9, <1>10, <1>11, <1>12 DEF Step, Ends

LEMMA AnswersOwnStep ==
    ASSUME TurnsTypeOK, NewMeetNone, RunningMet, PromptsSound, RowsSince, AnswersOwn,
           NEW t \in Turns, Step(t)
    PROVE  AnswersOwn'
<1>1. Moves(t) /\ OwnTurns \subseteq OwnTurns'
  BY MetGrows, StepIs
<1>2. OwnAnswers(rows, OwnTurns)'
  BY <1>1, RowsOwnStep
<1>3. ASSUME NEW u \in Turns PROVE OwnAnswers(run'[u].prompt, OwnTurns')
  <2>1. CASE u = t
    BY <2>1, PromptOwnStep
  <2>2. CASE u # t
    <3>1. run'[u] = run[u] /\ OwnAnswers(run[u].prompt, OwnTurns)
      BY <1>1, <2>2 DEF Moves, AnswersOwn
    <3>. QED
      BY <1>1, <3>1, OwnLarger
  <2>. QED
    BY <2>1, <2>2
<1>. QED
  BY <1>2, <1>3 DEF AnswersOwn, OwnAnswers

-----------------------------------------------------------------------------
(* Results of turns that met no other                                        *)

LEMMA CallsAskedOwn ==
    ASSUME TurnsTypeOK, NewMeetNone, RunningMet, PromptsSound, CallsAsked, NEW t \in Turns, Step(t),
           run'[t].pc = "act", Undisturbed(t)'
    PROVE  \E p \in Nat : Asks(t, p)'
<1>1. Moves(t)
  BY StepIs
<1>2. Undisturbed(t)
  BY <1>1, MetGrows
<1>3. PICK s, g, n : s = run'[t] /\ g = rows' /\ n = Len(rows)
  OBVIOUS
<1>4. rows \in Seq(Row) /\ n \in Nat /\ s.pc = "act" /\ ~s.lost
  BY <1>3, LenProperties DEF TurnsTypeOK, Undisturbed
<1>5. ASSUME NEW text \in BOOLEAN, NEW c \in 1 .. MaxCalls, Request(t, text, CallIds(t, c))
      PROVE  \E p \in Nat : Asks(t, p)'
  <2>0. PICK calls \in Seq(Id), m \in Row, next \in RunStates : Asking(t, calls, m, next)
    BY <1>5, RequestIs
  <2>1. /\ m.role = "assistant" /\ m.calls = Range(calls) /\ Range(calls) # {} /\ m.by = t
        /\ run[t].pc = "think" /\ next.pc = "act" /\ next.todo = calls /\ next.lost = run[t].lost
        /\ Write(t, m, next) /\ met' = met
    BY <2>0 DEF Asking
  <2>2. s.todo = calls /\ g = Append(rows, m)
    BY <1>3, <1>4, <2>1, WritingIs
  <2>3. Len(g) = n + 1 /\ g[n + 1] = m
    BY <1>3, <1>4, <2>2, AppendKeeps
  <2>4. \A k \in ((n + 1) + 1) .. Len(g) : FALSE
    BY <1>4, <2>3
  <2>5. n + 1 \in 1 .. Len(g) /\ n + 1 \in Nat
    BY <1>4, <2>3
  <2>6. Asks(t, n + 1)'
    BY <1>3, <2>1, <2>2, <2>3, <2>4, <2>5 DEF Asks, Requests
  <2>. QED
    BY <1>3, <2>5, <2>6
<1>6. ASSUME NEW pending \in BOOLEAN, Act(t, pending)
      PROVE  \E p \in Nat : Asks(t, p)'
  <2>1. run[t].pc = "act" /\ Acting(t)
    BY <1>6 DEF Act, PromptsSound
  <2>2. PICK m \in Row, next \in RunStates :
             /\ m.role = "tool" /\ m.id = Head(run[t].todo) /\ m.by = t /\ m.id \in Id
             /\ run[t].pc = "act" /\ next.lost = run[t].lost
             /\ \/ next.pc = "conclude" /\ next.prompt = <<>>
                \/ /\ next.pc = IF Tail(run[t].todo) = <<>> THEN "think" ELSE "act"
                   /\ next.todo = Tail(run[t].todo) /\ next.prompt = Append(run[t].prompt, m)
             /\ Write(t, m, next) /\ met' = met
    <3>1. run[t].todo # <<>>
      BY <2>1 DEF Acting
    <3>. QED
      BY <1>6, <3>1, ActIs
  <2>3. s.todo = next.todo /\ s.pc = next.pc /\ g = Append(rows, m)
    BY <1>3, <1>4, <2>2, WritingIs
  <2>4. PICK p \in Nat : Asks(t, p)
    BY <1>2, <2>1 DEF CallsAsked
  <2>5. PICK ids, old : ids = Range(s.todo) /\ old = Range(run[t].todo)
    OBVIOUS
  <2>6. ids = old \ {m.id}
    <3>1. PICK todo \in Seq(Id) : todo = run[t].todo
      BY RunTypes
    <3>2. todo # <<>> /\ \A i, j \in 1 .. Len(todo) : todo[i] = todo[j] => i = j
      BY <2>1, <3>1 DEF Acting
    <3>3. s.todo = Tail(todo) /\ m.id = Head(todo)
      BY <1>4, <2>2, <2>3, <3>1
    <3>4. Range(Tail(todo)) = Range(todo) \ {Head(todo)}
      BY <3>2, TailIs
    <3>. QED
      BY <2>5, <3>1, <3>3, <3>4
  <2>7. /\ p \in 1 .. n /\ rows[p].by = t /\ Requests(rows[p])
        /\ \A k \in (p + 1) .. n : rows[k].role = "tool" /\ rows[k].id \notin old
        /\ old \subseteq rows[p].calls
    BY <1>3, <2>4, <2>5 DEF Asks
  <2>8. Len(g) = n + 1 /\ g[n + 1] = m /\ \A k \in 1 .. n : g[k] = rows[k]
    BY <1>3, <1>4, <2>3, AppendKeeps
  <2>9. ASSUME NEW k \in (p + 1) .. Len(g) PROVE g[k].role = "tool" /\ g[k].id \notin ids
    <3>1. CASE k = n + 1
      BY <2>2, <2>6, <2>8, <3>1
    <3>2. CASE k # n + 1
      <4>1. k \in (p + 1) .. n /\ k \in 1 .. n
        BY <1>4, <2>7, <2>8, <3>2
      <4>. QED
        BY <2>6, <2>7, <2>8, <4>1
    <3>. QED
      BY <3>1, <3>2
  <2>10. p \in 1 .. Len(g) /\ g[p] = rows[p] /\ ids \subseteq g[p].calls
    BY <1>4, <2>6, <2>7, <2>8
  <2>11. Asks(t, p)'
    BY <1>3, <2>5, <2>7, <2>9, <2>10 DEF Asks
  <2>. QED
    BY <2>11
<1>7. ~Begin(t) /\ ~LoadHistory(t) /\ ~Fail(t)
  BY <1>3, <1>4, BeginIs, LoadHistoryIs, FailIs, EndedIs DEF Pcs
<1>8. ~Ends(t)
  <2>1. SUFFICES ASSUME Ends(t) PROVE FALSE
    OBVIOUS
  <2>2. PICK m \in Row, next \in RunStates :
           /\ m.role = "assistant" /\ m.by = t
           /\ run[t].pc \in {"think", "conclude"} /\ next.pc = "over" /\ next.prompt = <<>>
           /\ next.lost = run[t].lost
           /\ Write(t, m, next) /\ met' = met
    BY <2>1, EndIs
  <2>3. s.pc = "over"
    BY <1>3, <2>2, WritingIs
  <2>. QED
    BY <1>4, <2>3
<1>9. ASSUME NEW m \in Posted(t), PostMessage(t, m) PROVE FALSE
  BY <1>3, <1>4, <1>9, PostMessageIs, EndedIs DEF Pcs
<1>. QED
  BY <1>5, <1>6, <1>7, <1>8, <1>9 DEF Step, Ends

LEMMA CallsAskedStep ==
    ASSUME TurnsTypeOK, NewMeetNone, RunningMet, PromptsSound, CallsAsked, NEW t \in Turns, Step(t)
    PROVE  CallsAsked'
<1>1. Moves(t)
  BY StepIs
<1>2. ASSUME NEW u \in Turns, u # t, run'[u].pc = "act", Undisturbed(u)' PROVE \E p \in Nat : Asks(u, p)'
  <2>1. run'[u] = run[u] /\ TurnsTypeOK'
    BY <1>1, <1>2 DEF Moves
  <2>2. u \in Running'
    BY <1>2 DEF Running
  <2>3. rows' = rows
    <3>1. rows' = rows \/ t \in met'[u]
      BY <1>1, <1>2, <2>2, MetGrows
    <3>. QED
      BY <1>2, <3>1 DEF Undisturbed
  <2>4. Undisturbed(u)
    BY <1>1, <1>2, MetGrows
  <2>5. PICK p \in Nat : Asks(u, p)
    BY <1>2, <2>1, <2>4 DEF CallsAsked
  <2>6. Asks(u, p)'
    BY <2>1, <2>3, <2>5 DEF Asks
  <2>. QED
    BY <2>6
<1>3. ASSUME run'[t].pc = "act", Undisturbed(t)' PROVE \E p \in Nat : Asks(t, p)'
  BY <1>3, CallsAskedOwn
<1>. QED
  BY <1>2, <1>3 DEF CallsAsked

LEMMA ResultsAnswerStep ==
    ASSUME TurnsTypeOK, NewMeetNone, RunningMet, CallsAsked, ResultsAnswer, NEW t \in Turns, Moves(t)
    PROVE  ResultsAnswer'
<1>1. \A u \in Turns : Undisturbed(u)' => Undisturbed(u)
  BY MetGrows
<1>2. rows \in Seq(Row)
  BY DEF TurnsTypeOK
<1>3. CASE rows' = rows
  <2>1. ASSUME NEW q \in 1 .. Len(rows), rows[q].role = "tool", rows[q].id # NoId,
               NEW u, u = rows[q].by, Undisturbed(u)'
        PROVE  \E p \in 1 .. Len(rows) : Answers(rows, q, p) /\ rows[p].by = rows[q].by
    <3>1. u \in Turns
      BY <1>2, <2>1, RowTypes, ElementOfSeq
    <3>. QED
      BY <1>1, <2>1, <3>1 DEF ResultsAnswer
  <2>. QED
    BY <1>3, <2>1 DEF ResultsAnswer, Undisturbed
<1>4. ASSUME NEW m \in Row, rows' = Append(rows, m), Adds(t, m) PROVE ResultsAnswer'
  <2>1. PICK g, n : g = rows' /\ n = Len(rows)
    OBVIOUS
  <2>2. /\ n \in Nat /\ g \in Seq(Row) /\ Len(g) = n + 1 /\ g[n + 1] = m
        /\ \A i \in 1 .. n : g[i] = rows[i] /\ rows[i] \in Row
    BY <1>2, <1>4, <2>1, AppendKeeps
  <2>3. ASSUME NEW q \in 1 .. n, rows[q].role = "tool", rows[q].id # NoId,
               NEW u, u = rows[q].by, Undisturbed(u)'
        PROVE  \E p \in 1 .. n : Answers(g, q, p) /\ g[p].by = g[q].by
    <3>1. u \in Turns
      BY <2>2, <2>3, RowTypes
    <3>2. PICK p \in 1 .. n : Answers(rows, q, p) /\ rows[p].by = rows[q].by
      BY <1>1, <2>1, <2>3, <3>1 DEF ResultsAnswer
    <3>3. Answers(g, q, p)
      BY <1>2, <1>4, <2>1, <3>2, AnswersAppend
    <3>. QED
      BY <2>2, <3>2, <3>3
  <2>4. ASSUME m.role = "tool", m.id # NoId, Undisturbed(t)'
        PROVE  \E p \in 1 .. n : Answers(g, n + 1, p) /\ g[p].by = t
    <3>1. run[t].pc = "act" /\ m.id \in Range(run[t].todo) /\ Undisturbed(t)
      BY <1>1, <1>4, <2>4 DEF Adds, Undisturbed
    <3>2. PICK p \in Nat : Asks(t, p)
      BY <3>1 DEF CallsAsked
    <3>3. /\ p \in 1 .. n /\ rows[p].by = t /\ Requests(rows[p]) /\ m.id \in rows[p].calls
          /\ \A k \in (p + 1) .. n : rows[k].role = "tool" /\ rows[k].id # m.id
      BY <2>1, <3>1, <3>2 DEF Asks
    <3>4. ASSUME NEW k \in (p + 1) .. (n + 1) PROVE g[k].role = "tool"
      <4>1. CASE k = n + 1
        BY <2>2, <2>4, <4>1
      <4>2. CASE k # n + 1
        <5>1. k \in (p + 1) .. n /\ k \in 1 .. n
          BY <2>2, <3>3, <4>2
        <5>. QED
          BY <2>2, <3>3, <5>1
      <4>. QED
        BY <4>1, <4>2
    <3>5. ASSUME NEW k \in (p + 1) .. ((n + 1) - 1) PROVE g[k].id # m.id
      <4>1. k \in (p + 1) .. n /\ k \in 1 .. n
        BY <2>2, <3>3
      <4>. QED
        BY <2>2, <3>3, <4>1
    <3>6. Answers(g, n + 1, p)
      BY <2>2, <3>3, <3>4, <3>5 DEF Answers
    <3>. QED
      BY <2>2, <3>3, <3>6
  <2>5. ASSUME NEW q \in 1 .. Len(g), g[q].role = "tool", g[q].id # NoId,
               NEW u, u = g[q].by, Undisturbed(u)'
        PROVE  \E p \in 1 .. Len(g) : Answers(g, q, p) /\ g[p].by = g[q].by
    <3>1. CASE q \in 1 .. n
      <4>1. rows[q] = g[q]
        BY <2>2, <3>1
      <4>2. PICK p \in 1 .. n : Answers(g, q, p) /\ g[p].by = g[q].by
        BY <2>3, <2>5, <3>1, <4>1
      <4>. QED
        BY <2>2, <4>2
    <3>2. CASE q = n + 1
      <4>1. g[q] = m /\ m.by = t
        BY <1>4, <2>2, <3>2 DEF Adds
      <4>2. PICK p \in 1 .. n : Answers(g, n + 1, p) /\ g[p].by = t
        BY <2>4, <2>5, <4>1
      <4>. QED
        BY <2>2, <3>2, <4>1, <4>2
    <3>. QED
      BY <2>2, <3>1, <3>2
  <2>. QED
    BY <2>1, <2>5 DEF ResultsAnswer, Undisturbed
<1>. QED
  BY <1>3, <1>4 DEF Moves

-----------------------------------------------------------------------------
(* The invariant, and what it is for                                         *)

LEMMA TurnsInvInit ==
    ASSUME InitTurns
    PROVE  TurnsInv
<1>1. \A t \in Turns : run[t].pc = "new" /\ met[t] = {} /\ run[t].prompt = <<>>
  BY DEF InitTurns, Fresh
<1>2. rows = <<>> /\ Len(rows) = 0
  BY DEF InitTurns
<1>3. Fresh \in RunStates
  <2>1. <<>> \in Seq(Row) /\ <<>> \in Seq(Id)
    BY EmptySeq
  <2>. QED
    BY <2>1 DEF Fresh, RunStates, Pcs
<1>4. TurnsTypeOK
  BY <1>2, <1>3, EmptySeq DEF InitTurns, TurnsTypeOK
<1>5. NewMeetNone /\ RunningMet /\ RowsSince
  BY <1>1 DEF NewMeetNone, RunningMet, RowsSince, Running
<1>6. PromptsSound /\ CallsAsked
  BY <1>1 DEF PromptsSound, CallsAsked
<1>7. OwnAnswers(<<>>, OwnTurns)
  BY DEF OwnAnswers
<1>8. AnswersOwn
  BY <1>1, <1>2, <1>7 DEF AnswersOwn
<1>9. ResultsAnswer
  BY <1>2 DEF ResultsAnswer
<1>. QED
  BY <1>4, <1>5, <1>6, <1>8, <1>9 DEF TurnsInv

LEMMA TurnsInvRestart ==
    ASSUME TurnsInv, RestartTurns
    PROVE  TurnsInv'
<1>1. /\ TurnsTypeOK /\ NewMeetNone /\ RunningMet /\ PromptsSound /\ RowsSince /\ AnswersOwn
      /\ CallsAsked /\ ResultsAnswer
  BY DEF TurnsInv
<1>2. /\ rows' = rows /\ met' = met /\ troubles' \in Nat /\ run' \in [Turns -> RunStates]
      /\ \A t \in Turns : \/ run'[t] = run[t] /\ t \notin Running
                          \/ run'[t] = Ended(t, "over") /\ t \in Running
  BY <1>1, RestartIs
<1>3. \A t \in Turns : /\ Ended(t, "over").pc = "over" /\ Ended(t, "over").prompt = <<>>
                       /\ Ended(t, "over").lost = run[t].lost
  BY <1>1, EndedIs DEF Pcs
<1>4. \A t \in Turns : /\ run'[t].pc \in {"new", "over", "posted"} /\ run'[t].lost = run[t].lost
                       /\ run'[t].pc = "new" => run[t].pc = "new"
                       /\ run'[t].pc = "posted" <=> run[t].pc = "posted"
                       /\ run'[t].prompt = run[t].prompt \/ run'[t].prompt = <<>>
  BY <1>2, <1>3 DEF Running
<1>5. TurnsTypeOK'
  BY <1>1, <1>2 DEF TurnsTypeOK
<1>6. NewMeetNone' /\ RunningMet' /\ RowsSince'
  BY <1>1, <1>2, <1>4 DEF NewMeetNone, RunningMet, RowsSince, Running
<1>7. PromptsSound' /\ CallsAsked'
  BY <1>4 DEF PromptsSound, CallsAsked
<1>8. OwnTurns' = OwnTurns
  BY <1>2, <1>4 DEF OwnTurns
<1>9. AnswersOwn'
  <2>1. OwnAnswers(<<>>, OwnTurns)
    BY DEF OwnAnswers
  <2>2. \A t \in Turns : OwnAnswers(run'[t].prompt, OwnTurns)
    BY <1>1, <1>4, <2>1 DEF AnswersOwn
  <2>. QED
    BY <1>1, <1>2, <1>8, <2>2 DEF AnswersOwn, OwnAnswers
<1>10. ResultsAnswer'
  <2>1. \A u \in Turns : Undisturbed(u)' => Undisturbed(u)
    BY <1>2, <1>4 DEF Undisturbed
  <2>2. ASSUME NEW q \in 1 .. Len(rows), rows[q].role = "tool", rows[q].id # NoId,
               NEW u, u = rows[q].by, Undisturbed(u)'
        PROVE  \E p \in 1 .. Len(rows) : Answers(rows, q, p) /\ rows[p].by = rows[q].by
    <3>1. u \in Turns
      BY <1>1, <2>2, RowTypes, ElementOfSeq DEF TurnsTypeOK
    <3>. QED
      BY <1>1, <2>1, <2>2, <3>1 DEF ResultsAnswer
  <2>. QED
    BY <1>2, <2>2 DEF ResultsAnswer, Undisturbed
<1>. QED
  BY <1>5, <1>6, <1>7, <1>9, <1>10 DEF TurnsInv

LEMMA TurnsInvStep ==
    ASSUME TurnsInv, NEW t \in Turns, Step(t)
    PROVE  TurnsInv'
<1>1. /\ TurnsTypeOK /\ NewMeetNone /\ RunningMet /\ PromptsSound /\ RowsSince /\ AnswersOwn
      /\ CallsAsked /\ ResultsAnswer
  BY DEF TurnsInv
<1>2. Moves(t)
  BY <1>1, StepIs
<1>3. TurnsTypeOK' /\ NewMeetNone' /\ RunningMet'
  BY <1>1, <1>2, MetGrows DEF Moves
<1>4. PromptsSound'
  BY <1>1, PromptSoundStep
<1>5. RowsSince'
  BY <1>1, <1>2, RowsSinceStep
<1>6. AnswersOwn'
  BY <1>1, AnswersOwnStep
<1>7. CallsAsked'
  BY <1>1, CallsAskedStep
<1>8. ResultsAnswer'
  BY <1>1, <1>2, ResultsAnswerStep
<1>. QED
  BY <1>3, <1>4, <1>5, <1>6, <1>7, <1>8 DEF TurnsInv

LEMMA TurnsInvUnchanged ==
    ASSUME TurnsInv, UNCHANGED turnVars
    PROVE  TurnsInv'
<1>1. rows' = rows /\ run' = run /\ met' = met /\ troubles' = troubles
  BY DEF turnVars
<1>2. /\ TurnsTypeOK' /\ NewMeetNone' /\ PromptsSound'
  BY <1>1 DEF TurnsInv, TurnsTypeOK, NewMeetNone, PromptsSound, Acting
<1>3. RunningMet' /\ RowsSince'
  BY <1>1 DEF TurnsInv, RunningMet, RowsSince, Running, Since, OwnTurns
<1>4. AnswersOwn'
  BY <1>1 DEF TurnsInv, AnswersOwn, OwnAnswers, OwnTurns
<1>5. CallsAsked'
  BY <1>1 DEF TurnsInv, CallsAsked, Undisturbed, Asks
<1>6. ResultsAnswer'
  BY <1>1 DEF TurnsInv, ResultsAnswer, Undisturbed
<1>. QED
  BY <1>2, <1>3, <1>4, <1>5, <1>6 DEF TurnsInv

\* Turns that overlap, break off, lose a row or meet a restart keep the invariant that the
\* theorems after it rest on.
THEOREM TurnsKeepInv == SpecTurns => []TurnsInv
<1>1. InitTurns => TurnsInv
  BY TurnsInvInit
<1>2. TurnsInv /\ [NextTurns]_turnVars => TurnsInv'
  BY TurnsInvStep, TurnsInvRestart, TurnsInvUnchanged DEF NextTurns
<1>. QED
  BY <1>1, <1>2, PTL DEF SpecTurns

\* The prompts, and the history a turn would load, are sequences of rows that go to requests
\* of turns their own turn met.
LEMMA PromptsAre ==
    ASSUME TurnsInv, NEW h \in Prompts
    PROVE  h \in Seq(Row) /\ WellFormed(h) /\ OwnAnswers(h, OwnTurns)
<1>1. TurnsTypeOK /\ PromptsSound /\ AnswersOwn
  BY DEF TurnsInv
<1>2. CASE h = Sanitize(CapLast(rows, Cap))
  <2>1. PICK c : c = CapLast(rows, Cap)
    OBVIOUS
  <2>2. c \in Seq(Row) /\ OwnAnswers(c, OwnTurns)
    BY <1>1, <2>1, CapLastIs, OwnCap DEF TurnsTypeOK, AnswersOwn
  <2>. QED
    BY <1>2, <2>1, <2>2, SanitizedIsWellFormed, SanitizedFollows
<1>3. ASSUME NEW t \in Turns, run[t].pc = "think", h = run[t].prompt
      PROVE  h \in Seq(Row) /\ WellFormed(h) /\ OwnAnswers(h, OwnTurns)
  BY <1>1, <1>3, RunTypes DEF PromptsSound, AnswersOwn
<1>. QED
  BY <1>2, <1>3 DEF Prompts

\* Whatever turns overlapped, broke off or lost a write before, and whatever was posted to the
\* session, every result the model is sent follows its request and every call with an id has
\* its result.
THEOREM PromptsAreWellFormed == SpecTurns => []PromptsWellFormed
<1>1. TurnsInv => PromptsWellFormed
  BY PromptsAre DEF PromptsWellFormed
<1>. QED
  BY <1>1, TurnsKeepInv, PTL

\* The last request that asked for the id of a result is the one it answers.
LEMMA RequestOfIs ==
    ASSUME NEW h \in Seq(Row), NEW i \in 1 .. Len(h), NEW j \in 1 .. Len(h), Answers(h, i, j)
    PROVE  RequestOf(h, i) = j
<1>1. Len(h) \in Nat /\ j < i /\ h[i].id \in h[j].calls
  BY LenProperties DEF Answers
<1>2. ASSUME NEW k \in (j + 1) .. i PROVE h[k].calls = {}
  <2>1. h[k] \in Row /\ h[k].role = "tool"
    BY <1>1, <1>2, ElementOfSeq DEF Answers
  <2>. QED
    BY <2>1, RowTypes
<1>. DEFINE P(o) == /\ h[i].id \in h[o].calls
                    /\ \A k \in o + 1 .. i - 1 : h[i].id \notin h[k].calls
<1>3. j \in 1 .. i - 1 /\ P(j)
  <2>1. \A k \in j + 1 .. i - 1 : h[i].id \notin h[k].calls
    BY <1>1, <1>2
  <2>. QED
    BY <1>1, <2>1
<1>4. ASSUME NEW o \in 1 .. i - 1, P(o) PROVE o = j
  <2>1. ~(o < j)
    <3>1. SUFFICES ASSUME o < j PROVE FALSE
      OBVIOUS
    <3>2. j \in o + 1 .. i - 1
      BY <1>1, <3>1
    <3>. QED
      BY <1>1, <1>4, <3>2
  <2>2. ~(j < o)
    <3>1. SUFFICES ASSUME j < o PROVE FALSE
      OBVIOUS
    <3>2. o \in (j + 1) .. i
      BY <1>1, <3>1
    <3>. QED
      BY <1>2, <1>4, <3>2
  <2>. QED
    BY <1>1, <2>1, <2>2
<1>5. RequestOf(h, i) = CHOOSE o \in 1 .. i - 1 : P(o)
  BY DEF RequestOf
<1>. HIDE DEF P
<1>. QED
  BY <1>3, <1>4, <1>5

\* The model is shown a result of a turn as the answer to a request of that turn, or of one it
\* overlapped, also when rows with ids of their own were posted.
THEOREM ResultsGoToTheirOwn == SpecTurns => []ResultsAreOwn
<1>1. ASSUME TurnsInv PROVE ResultsAreOwn
  <2>1. ASSUME NEW h \in Prompts, NEW i \in 1 .. Len(h), TurnResult(h, i)
        PROVE  h[RequestOf(h, i)].by \in {h[i].by} \cup met[h[i].by]
    <3>1. h \in Seq(Row) /\ WellFormed(h) /\ OwnAnswers(h, OwnTurns)
      BY <1>1, <2>1, PromptsAre
    <3>2. PICK j \in 1 .. Len(h) : Answers(h, i, j)
      BY <2>1, <3>1 DEF WellFormed, TurnResult
    <3>3. RequestOf(h, i) = j
      BY <3>1, <3>2, RequestOfIs
    <3>4. <<h[j].by, h[i].by>> \in OwnTurns
      BY <3>1, <3>2 DEF OwnAnswers
    <3>. QED
      BY <2>1, <3>3, <3>4 DEF OwnTurns, TurnResult
  <2>. QED
    BY <2>1 DEF ResultsAreOwn
<1>. QED
  BY <1>1, TurnsKeepInv, PTL

\* The results of a turn that met no other and lost no row are in the history of later turns,
\* while the cap reaches back to their request.
THEOREM ResultsStay == SpecTurns => []ResultsAreKept
<1>1. ASSUME TurnsInv PROVE ResultsAreKept
  <2>1. PICK h, n : h = CapLast(rows, Cap) /\ n = Len(rows)
    OBVIOUS
  <2>2. rows \in Seq(Row) /\ n \in Nat /\ \A q \in 1 .. n : rows[q] \in Row
    BY <1>1, <2>1, ElementOfSeq, LenProperties DEF TurnsInv, TurnsTypeOK
  <2>3. PICK d \in Nat : h \in Seq(Row) /\ Len(h) = n - d /\ \A i \in 1 .. n - d : h[i] = rows[i + d]
    BY <2>1, <2>2, CapLastIs
  <2>4. ASSUME NEW i \in 1 .. Len(h), h[i].role = "tool", run[h[i].by].pc # "posted", met[h[i].by] = {}, ~run[h[i].by].lost,
               NEW j \in 1 .. i - 1, h[i].id \in h[j].calls, h[j].by = h[i].by
        PROVE  h[i] \in Range(Sanitize(h))
    <3>1. /\ i + d \in 1 .. n /\ j + d \in 1 .. n /\ j + d < i + d /\ h[i] = rows[i + d] /\ h[j] = rows[j + d]
      BY <2>2, <2>3
    <3>2. h[i].id # NoId
      BY <2>2, <2>4, <3>1, RowTypes, NoIdIsNone
    <3>3. PICK p \in 1 .. n : Answers(rows, i + d, p)
      BY <1>1, <2>1, <2>4, <3>1, <3>2 DEF TurnsInv, ResultsAnswer, Undisturbed
    <3>4. ~(p < j + d)
      <4>1. SUFFICES ASSUME p < j + d PROVE FALSE
        OBVIOUS
      <4>2. rows[j + d].role = "tool" /\ rows[j + d] \in Row
        BY <2>2, <3>1, <3>3, <4>1 DEF Answers
      <4>3. rows[j + d].calls = {}
        BY <4>2, RowTypes
      <4>. QED
        BY <2>4, <3>1, <4>3
    <3>5. p - d \in 1 .. Len(h) /\ (p - d) + d = p
      BY <2>2, <2>3, <2>4, <3>4
    <3>6. Answers(h, i, p - d)
      <4>1. PICK o \in 1 .. Len(h) : o = p - d /\ o + d = p
        BY <3>5
      <4>2. /\ Len(rows) \in Nat /\ Len(h) = Len(rows) - d
            /\ \A k \in 1 .. Len(rows) - d : h[k] = rows[k + d]
        BY <2>1, <2>2, <2>3
      <4>3. Answers(h, i, o) <=> Answers(rows, i + d, o + d)
        BY <4>2, AnswersCap
      <4>. QED
        BY <3>3, <4>1, <4>3
    <3>7. OwnAnswers(h, Turns \X Turns)
      <4>1. \A k \in 1 .. Len(h) : h[k].by \in Turns
        BY <2>3, RowTypes, ElementOfSeq
      <4>. QED
        BY <4>1 DEF OwnAnswers
    <3>8. Shown(Sanitize(h), h, Len(h)) /\ Sanitize(h) \in Seq(Row)
      BY <2>3, <3>7, SanitizedFollows, SanitizedIsWellFormed
    <3>9. PICK g : g = Sanitize(h)
      OBVIOUS
    <3>10. PICK k \in 1 .. Len(g) : g[k] = h[i]
      BY <2>4, <3>5, <3>6, <3>8, <3>9 DEF Shown
    <3>11. DOMAIN g = 1 .. Len(g)
      BY <3>8, <3>9, LenProperties
    <3>. QED
      BY <3>9, <3>10, <3>11 DEF Range
  <2>. QED
    BY <2>1, <2>4 DEF ResultsAreKept, TurnResult
<1>. QED
  BY <1>1, TurnsKeepInv, PTL

\* Whatever rows the turns have written and clients have posted, a load keeps the rows to keep,
\* in their order, and in each the calls that have a result.
THEOREM SanitizeStaysSound == SpecTurns => []SanitizeIsSound
<1>1. ASSUME TurnsInv PROVE SanitizeIsSound
  <2>1. PICK h : h = CapLast(rows, Cap)
    OBVIOUS
  <2>2. rows \in Seq(Row)
    BY <1>1 DEF TurnsInv, TurnsTypeOK
  <2>3. h \in Seq(Row)
    BY <2>1, <2>2, CapLastIs
  <2>4. Sound(Sanitize(h), h)
    BY <2>3, SanitizedIsSound
  <2>. QED
    BY <2>1, <2>4 DEF SanitizeIsSound
<1>. QED
  BY <1>1, TurnsKeepInv, PTL

-----------------------------------------------------------------------------
(* The note of a session *)

Note == [read : Nat, time : Nat]

Turn == [pc : {"idle", "think", "summarize", "save"}, session : Sessions \cup {None},
         read : Nat]

SweepState ==
    [pc : {"off", "walk", "save"}, rested : BOOLEAN, todo : SUBSET Sessions,
     seen : SUBSET Sessions, last : [Sessions -> Nat], due : SUBSET Sessions,
     noted : SUBSET Sessions, at : Sessions \cup {None}, read : Nat, wrote : Nat]

TypeOK ==
    /\ messages \in [Sessions -> Nat]
    /\ quiet \in [Sessions -> Nat]
    /\ note \in [Sessions -> Note]
    /\ archived \in SUBSET Sessions
    /\ turn \in [Runners -> Turn]
    /\ sweep \in SweepState
    /\ checked \in [Sessions -> Nat]
    /\ faults \in Nat
    /\ flushed \in [Sessions -> Nat]
    /\ passed \in SUBSET Sessions

\* A turn under way is one of a session.
TurnInv == \A r \in Runners : turn[r].pc # "idle" => turn[r].session \in Sessions

Reached(s) ==
    /\ sweep.last[s] <= messages[s]
    /\ checked[s] <= messages[s]
    /\ note[s].time <= messages[s]
    /\ flushed[s] <= note[s].time

\* The messages the flusher is about to save are newer than those it saved.
Saves ==
    sweep.pc = "save" =>
        /\ sweep.at \in Sessions
        /\ sweep.read > flushed[sweep.at]
        /\ sweep.read <= messages[sweep.at]

IInv ==
    /\ TypeOK
    /\ TurnInv
    /\ \A s \in Sessions : Reached(s)
    /\ Saves
    /\ archived \subseteq passed
    /\ CheckedHasNote

USE MemoryAssumption

-----------------------------------------------------------------------------
(* Parts of a step *)

LEMMA SessionTypes ==
    ASSUME TypeOK, NEW s \in Sessions
    PROVE  /\ messages[s] \in Nat /\ quiet[s] \in Nat /\ checked[s] \in Nat
           /\ flushed[s] \in Nat /\ note[s].time \in Nat /\ note[s].read \in Nat
           /\ sweep.last[s] \in Nat
<1>1. note[s] \in Note /\ sweep \in SweepState
  BY DEF TypeOK
<1>2. sweep.last \in [Sessions -> Nat]
  BY <1>1 DEF SweepState
<1>. QED
  BY <1>1, <1>2 DEF TypeOK, Note

LEMMA SweepTypes ==
    ASSUME TypeOK
    PROVE  /\ sweep \in SweepState
           /\ sweep.pc \in {"off", "walk", "save"} /\ sweep.rested \in BOOLEAN
           /\ sweep.todo \in SUBSET Sessions /\ sweep.seen \in SUBSET Sessions
           /\ sweep.last \in [Sessions -> Nat] /\ sweep.due \in SUBSET Sessions
           /\ sweep.noted \in SUBSET Sessions /\ sweep.at \in Sessions \cup {None}
           /\ sweep.read \in Nat /\ sweep.wrote \in Nat
<1>1. sweep \in SweepState
  BY DEF TypeOK
<1>. QED
  BY <1>1 DEF SweepState

LEMMA TurnTypes ==
    ASSUME TypeOK, NEW r \in Runners
    PROVE  /\ turn[r] \in Turn
           /\ turn[r].pc \in {"idle", "think", "summarize", "save"}
           /\ turn[r].session \in Sessions \cup {None}
           /\ turn[r].read \in Nat
<1>1. turn[r] \in Turn
  BY DEF TypeOK
<1>. QED
  BY <1>1 DEF Turn

LEMMA NoTurnIs == NoTurn \in Turn /\ NoTurn.pc = "idle"
BY DEF NoTurn, Turn

LEMMA NoSweepIs ==
    /\ NoSweep \in SweepState
    /\ NoSweep.pc = "off"
    /\ \A s \in Sessions : NoSweep.last[s] = 0
BY DEF NoSweep, SweepState

\* The turn of r moves on, and stays one of a session.
LEMMA TurnTo ==
    ASSUME TypeOK, TurnInv, NEW r \in Runners, NEW t \in Turn,
           t.pc # "idle" => t.session \in Sessions, turn' = [turn EXCEPT ![r] = t]
    PROVE  turn' \in [Runners -> Turn] /\ TurnInv'
<1>1. turn' \in [Runners -> Turn]
  BY DEF TypeOK
<1>2. \A q \in Runners : turn'[q] = IF q = r THEN t ELSE turn[q]
  BY DEF TypeOK
<1>. QED
  BY <1>1, <1>2 DEF TurnInv

\* A step that writes no message and no note, and remembers nothing that was not checked.
LEMMA Kept ==
    ASSUME IInv, TypeOK', TurnInv', Saves', UNCHANGED <<messages, note, flushed>>,
           passed \subseteq passed', archived' \subseteq passed',
           \A s \in Sessions :
              /\ sweep'.last[s] \in {0, messages[s], sweep.last[s]}
              /\ \/ checked'[s] \in {0, checked[s]}
                 \/ /\ checked'[s] = sweep.last[s]
                    /\ sweep.last[s] = messages[s] =>
                          note[s].time >= messages[s] \/ s \in passed'
    PROVE  IInv'
<1>1. TypeOK
  BY DEF IInv
<1>2. ASSUME NEW s \in Sessions
      PROVE  /\ Reached(s)'
             /\ checked'[s] = messages[s] /\ messages[s] > 0 =>
                   note[s].time >= messages[s] \/ s \in passed'
  <2>1. /\ messages[s] \in Nat /\ checked[s] \in Nat /\ sweep.last[s] \in Nat
        /\ Reached(s)
    BY <1>1, SessionTypes DEF IInv
  <2>2. sweep'.last[s] <= messages[s] /\ checked'[s] <= messages[s]
    BY <2>1 DEF Reached
  <2>3. Reached(s)'
    BY <2>1, <2>2 DEF Reached
  <2>. QED
    BY <2>1, <2>3 DEF IInv, CheckedHasNote
<1>. QED
  BY <1>2 DEF IInv, CheckedHasNote

-----------------------------------------------------------------------------
(* A chat turn *)

\* A message makes what was checked and listed older still.
LEMMA MessageKeeps ==
    ASSUME IInv, NEW s \in Sessions, AddMessage(s), turn' \in [Runners -> Turn], TurnInv',
           UNCHANGED <<note, archived, sweep, checked, faults, flushed, passed>>
    PROVE  IInv'
<1>1. TypeOK
  BY DEF IInv
<1>2. messages' \in [Sessions -> Nat] /\ quiet' \in [Sessions -> Nat]
  BY <1>1 DEF AddMessage, TypeOK
<1>3. TypeOK'
  BY <1>1, <1>2 DEF TypeOK
<1>4. ASSUME NEW x \in Sessions
      PROVE  messages'[x] = messages[x] \/ messages'[x] = messages[x] + 1
  BY <1>1 DEF AddMessage, TypeOK
<1>5. ASSUME NEW x \in Sessions
      PROVE  /\ Reached(x)'
             /\ checked[x] = messages'[x] /\ messages'[x] > 0 =>
                   note[x].time >= messages'[x] \/ x \in passed
  <2>1. /\ messages[x] \in Nat /\ checked[x] \in Nat /\ sweep.last[x] \in Nat
        /\ note[x].time \in Nat /\ flushed[x] \in Nat /\ Reached(x)
    BY <1>1, SessionTypes DEF IInv
  <2>2. checked[x] = messages[x] /\ messages[x] > 0 =>
           note[x].time >= messages[x] \/ x \in passed
    BY DEF IInv, CheckedHasNote
  <2>. QED
    BY <1>4, <2>1, <2>2 DEF Reached
<1>6. Saves'
  <2>1. CASE sweep.pc = "save"
    <3>1. /\ sweep.at \in Sessions /\ sweep.read > flushed[sweep.at]
          /\ sweep.read <= messages[sweep.at]
      BY <2>1 DEF IInv, Saves
    <3>2. messages[sweep.at] \in Nat /\ sweep.read \in Nat
      BY <1>1, <3>1, SessionTypes, SweepTypes
    <3>. QED
      BY <1>4, <3>1, <3>2 DEF Saves
  <2>2. CASE sweep.pc # "save"
    BY <2>2 DEF Saves
  <2>. QED
    BY <2>1, <2>2
<1>. QED
  BY <1>3, <1>5, <1>6 DEF IInv, CheckedHasNote

LEMMA AskKeeps ==
    ASSUME IInv, NEW r \in Runners, NEW s \in Sessions, Ask(r, s)
    PROVE  IInv'
<1>. DEFINE t == [NoTurn EXCEPT !.pc = "think", !.session = s]
<1>1. t \in Turn /\ t.session \in Sessions
  BY DEF NoTurn, Turn
<1>2. turn' = [turn EXCEPT ![r] = t]
  BY DEF Ask
<1>. HIDE DEF t
<1>3. turn' \in [Runners -> Turn] /\ TurnInv'
  BY <1>1, <1>2, TurnTo DEF IInv
<1>. QED
  BY <1>3, MessageKeeps DEF Ask

LEMMA AnswerKeeps ==
    ASSUME IInv, NEW r \in Runners, Answer(r)
    PROVE  IInv'
<1>1. TypeOK /\ turn[r].session \in Sessions
  BY DEF IInv, TurnInv, Answer
<1>. DEFINE t == [turn[r] EXCEPT !.pc = "summarize"]
<1>2. t \in Turn /\ t.session \in Sessions
  BY <1>1, TurnTypes DEF Turn
<1>3. turn' = [turn EXCEPT ![r] = t]
  BY <1>1 DEF Answer, TypeOK
<1>. HIDE DEF t
<1>4. turn' \in [Runners -> Turn] /\ TurnInv'
  BY <1>2, <1>3, TurnTo DEF IInv
<1>. QED
  BY <1>1, <1>4, MessageKeeps DEF Answer

\* A turn moves on, and that is all.
LEMMA OnlyTurn ==
    ASSUME IInv, NEW r \in Runners, NEW t \in Turn,
           t.pc # "idle" => t.session \in Sessions, turn' = [turn EXCEPT ![r] = t],
           faults' \in Nat,
           UNCHANGED <<messages, quiet, note, archived, sweep, checked, flushed, passed>>
    PROVE  IInv'
<1>1. turn' \in [Runners -> Turn] /\ TurnInv'
  BY TurnTo DEF IInv
<1>2. TypeOK'
  BY <1>1 DEF IInv, TypeOK
<1>3. Saves'
  BY DEF IInv, Saves
<1>. QED
  BY <1>1, <1>2, <1>3, Kept DEF IInv

LEMMA AnswerFailsKeeps ==
    ASSUME IInv, NEW r \in Runners, AnswerFails(r)
    PROVE  IInv'
<1>1. TypeOK /\ turn[r].session \in Sessions
  BY DEF IInv, TurnInv, AnswerFails
<1>2. PICK t : t \in {NoTurn, [turn[r] EXCEPT !.pc = "summarize"]}
               /\ turn' = [turn EXCEPT ![r] = t]
  BY DEF AnswerFails
<1>3. t \in Turn /\ (t.pc # "idle" => t.session \in Sessions)
  <2>1. CASE t = NoTurn
    BY <2>1, NoTurnIs
  <2>2. CASE t = [turn[r] EXCEPT !.pc = "summarize"]
    BY <1>1, <2>2, TurnTypes DEF Turn
  <2>. QED
    BY <1>2, <2>1, <2>2
<1>4. faults' \in Nat
  BY <1>1 DEF AnswerFails, Fault, TypeOK
<1>. QED
  BY <1>2, <1>3, <1>4, OnlyTurn DEF AnswerFails

LEMMA SummarizeKeeps ==
    ASSUME IInv, NEW r \in Runners, NEW force \in BOOLEAN, Summarize(r, force)
    PROVE  IInv'
<1>1. TypeOK /\ turn[r].session \in Sessions
  BY DEF IInv, TurnInv, Summarize
<1>. DEFINE n == messages[turn[r].session]
            t == IF force \/ n >= SummarizeMessageMin
                 THEN [turn[r] EXCEPT !.pc = "save", !.read = n] ELSE NoTurn
<1>2. n \in Nat
  BY <1>1, SessionTypes
<1>3. turn' = [turn EXCEPT ![r] = t]
  BY <1>1 DEF Summarize, TypeOK
<1>. HIDE DEF n
<1>4. t \in Turn /\ (t.pc # "idle" => t.session \in Sessions)
  <2>1. /\ [turn[r] EXCEPT !.pc = "save", !.read = n] \in Turn
        /\ [turn[r] EXCEPT !.pc = "save", !.read = n].session = turn[r].session
    BY <1>1, <1>2, TurnTypes DEF Turn
  <2>. QED
    BY <1>1, <2>1, NoTurnIs
<1>5. faults' \in Nat
  BY <1>1 DEF Summarize, TypeOK
<1>. HIDE DEF t
<1>. QED
  BY <1>3, <1>4, <1>5, OnlyTurn DEF Summarize

LEMMA SaveTurnFailsKeeps ==
    ASSUME IInv, NEW r \in Runners, SaveTurnFails(r)
    PROVE  IInv'
<1>1. faults' \in Nat
  BY DEF SaveTurnFails, Fault, IInv, TypeOK
<1>. QED
  BY <1>1, NoTurnIs, OnlyTurn DEF SaveTurnFails

\* A saved note is as new as the session.
LEMMA NoteSaved ==
    ASSUME TypeOK, NEW s \in Sessions, NEW read \in Nat, SaveSummary(s, read)
    PROVE  /\ note' \in [Sessions -> Note]
           /\ note'[s].time = messages[s]
           /\ \A x \in Sessions : x # s => note'[x] = note[x]
<1>1. [read |-> read, time |-> messages[s]] \in Note
  BY SessionTypes DEF Note
<1>. QED
  BY <1>1 DEF SaveSummary, TypeOK

LEMMA SaveTurnKeeps ==
    ASSUME IInv, NEW r \in Runners, SaveTurn(r)
    PROVE  IInv'
<1>1. TypeOK /\ turn[r].session \in Sessions
  BY DEF IInv, TurnInv, SaveTurn
<1>2. PICK s \in Sessions, read \in Nat : SaveSummary(s, read)
  BY <1>1, TurnTypes DEF SaveTurn
<1>3. turn' \in [Runners -> Turn] /\ TurnInv'
  BY NoTurnIs, TurnTo DEF IInv, SaveTurn
<1>4. /\ note' \in [Sessions -> Note]
      /\ note'[s].time = messages[s]
      /\ \A x \in Sessions : x # s => note'[x] = note[x]
  BY <1>1, <1>2, NoteSaved
<1>5. UNCHANGED <<messages, quiet, archived, sweep, checked, faults, flushed, passed>>
  BY DEF SaveTurn
<1>6. TypeOK'
  BY <1>1, <1>3, <1>4, <1>5 DEF TypeOK
<1>7. ASSUME NEW x \in Sessions
      PROVE  /\ Reached(x)'
             /\ checked[x] = messages[x] /\ messages[x] > 0 =>
                   note'[x].time >= messages[x] \/ x \in passed
  <2>1. /\ messages[x] \in Nat /\ note[x].time \in Nat /\ flushed[x] \in Nat /\ Reached(x)
    BY <1>1, SessionTypes DEF IInv
  <2>2. checked[x] = messages[x] /\ messages[x] > 0 =>
           note[x].time >= messages[x] \/ x \in passed
    BY DEF IInv, CheckedHasNote
  <2>3. note'[x].time = IF x = s THEN messages[x] ELSE note[x].time
    BY <1>4
  <2>. QED
    BY <1>5, <2>1, <2>2, <2>3 DEF Reached
<1>8. Saves'
  BY <1>5 DEF IInv, Saves
<1>. QED
  BY <1>3, <1>5, <1>6, <1>7, <1>8 DEF IInv, CheckedHasNote

-----------------------------------------------------------------------------
(* The idle flusher *)

LEMMA PastIs ==
    ASSUME TypeOK, NEW s \in Sessions
    PROVE  /\ Past(s) \in SweepState
           /\ Past(s).pc = "walk" /\ Past(s).last = sweep.last
           /\ Past(s).wrote = sweep.wrote
BY SweepTypes DEF Past, SweepState

\* A sweep goes on or ends, without a note.
LEMMA SweepTo ==
    ASSUME IInv, NEW w \in SweepState, w.pc # "save", sweep' = w,
           \A s \in Sessions : w.last[s] \in {0, messages[s], sweep.last[s]},
           checked' \in [Sessions -> Nat],
           \A s \in Sessions :
              \/ checked'[s] \in {0, checked[s]}
              \/ /\ checked'[s] = sweep.last[s]
                 /\ sweep.last[s] = messages[s] =>
                       note[s].time >= messages[s] \/ s \in passed',
           passed' \in SUBSET Sessions, passed \subseteq passed', faults' \in Nat,
           turn' \in [Runners -> Turn], TurnInv',
           UNCHANGED <<messages, quiet, note, archived, flushed>>
    PROVE  IInv'
<1>1. TypeOK' /\ archived' \subseteq passed'
  BY DEF IInv, TypeOK
<1>2. Saves'
  BY DEF Saves
<1>. QED
  BY <1>1, <1>2, Kept

LEMMA TurnsAre == IInv => turn \in [Runners -> Turn] /\ faults \in Nat
                          /\ passed \in SUBSET Sessions /\ checked \in [Sessions -> Nat]
BY DEF IInv, TypeOK

LEMMA SameTurns == IInv /\ UNCHANGED turn => TurnInv' /\ turn' \in [Runners -> Turn]
BY DEF IInv, TurnInv, TypeOK

LEMMA StartSweepKeeps ==
    ASSUME IInv, StartSweep
    PROVE  IInv'
<1>1. TypeOK
  BY DEF IInv
<1>2. PICK listed \in SUBSET Sessions, due \in SUBSET Sessions, noted \in SUBSET Sessions :
         sweep' = [NoSweep EXCEPT !.pc = "walk", !.todo = listed, !.last = messages,
                                  !.due = due, !.noted = noted]
  <2>. DEFINE listed == {s \in Sessions : messages[s] > 0 /\ quiet[s] <= Lookback}
              due == {s \in listed : quiet[s] >= Idle}
              noted == {s \in listed : note[s].time >= messages[s]}
  <2>1. listed \in SUBSET Sessions /\ due \in SUBSET Sessions /\ noted \in SUBSET Sessions
    OBVIOUS
  <2>2. sweep' = [NoSweep EXCEPT !.pc = "walk", !.todo = listed, !.last = messages,
                                 !.due = due, !.noted = noted]
    BY DEF StartSweep
  <2>. HIDE DEF listed, due, noted
  <2>. QED
    BY <2>1, <2>2
<1>3. messages \in [Sessions -> Nat]
  BY <1>1 DEF TypeOK
<1>4. sweep' \in SweepState /\ sweep'.pc = "walk" /\ sweep'.last = messages
  BY <1>2, <1>3, NoSweepIs DEF SweepState
<1>5. UNCHANGED <<messages, quiet, note, archived, turn, checked, faults, flushed, passed>>
  BY DEF StartSweep
<1>6. TypeOK'
  BY <1>1, <1>4, <1>5 DEF TypeOK
<1>7. Saves'
  BY <1>4 DEF Saves
<1>. QED
  BY <1>4, <1>5, <1>6, <1>7, Kept, SameTurns DEF IInv

LEMMA SkipKeeps ==
    ASSUME IInv, NEW s \in Sessions, Skip(s)
    PROVE  IInv'
<1>1. TypeOK /\ sweep' = Past(s)
      /\ UNCHANGED <<messages, quiet, note, archived, turn, checked, faults, flushed, passed>>
  BY DEF IInv, Skip
<1>. QED
  BY <1>1, PastIs, SweepTo, SameTurns, TurnsAre

\* What is remembered of a session as checked.
LEMMA Remembered ==
    ASSUME TypeOK, NEW s \in Sessions, Remember(s)
    PROVE  /\ checked' \in [Sessions -> Nat]
           /\ checked'[s] = sweep.last[s]
           /\ \A x \in Sessions : x # s => checked'[x] = checked[x]
<1>1. sweep.last[s] \in Nat
  BY SessionTypes
<1>. QED
  BY <1>1 DEF Remember, TypeOK

LEMMA FlushKeeps ==
    ASSUME IInv, NEW s \in Sessions, Flush(s)
    PROVE  IInv'
<1>1. TypeOK
  BY DEF IInv
<1>2. UNCHANGED <<messages, quiet, note, archived, turn, faults, flushed, passed>>
  BY DEF Flush
<1>3. CASE NeedsNote(s)
  <2>. DEFINE w == [sweep EXCEPT !.pc = "save", !.at = s, !.read = messages[s]]
  <2>1. sweep' = w /\ UNCHANGED checked
    BY <1>3 DEF Flush
  <2>2. messages[s] \in Nat /\ note[s].time \in Nat /\ flushed[s] \in Nat
    BY <1>1, SessionTypes
  <2>3. /\ w \in SweepState /\ w.pc = "save" /\ w.at = s /\ w.read = messages[s]
        /\ w.last = sweep.last
    BY <1>1, <2>2, SweepTypes DEF SweepState
  <2>. HIDE DEF w
  <2>4. TypeOK'
    BY <1>1, <1>2, <2>1, <2>3 DEF TypeOK
  <2>5. flushed[s] <= note[s].time /\ note[s].time < messages[s]
    BY <1>3 DEF IInv, Reached, NeedsNote
  <2>6. Saves'
    BY <1>2, <2>1, <2>2, <2>3, <2>5 DEF Saves
  <2>. QED
    BY <1>2, <2>1, <2>3, <2>4, <2>6, Kept, SameTurns DEF IInv
<1>4. CASE ~NeedsNote(s)
  <2>1. sweep' = Past(s) /\ Remember(s)
    BY <1>4 DEF Flush
  <2>2. sweep.last[s] = messages[s] => note[s].time >= messages[s] \/ s \in passed
    <3>1. messages[s] \in Nat /\ note[s].time \in Nat
      BY <1>1, SessionTypes
    <3>. QED
      BY <1>4, <3>1 DEF NeedsNote, IInv
  <2>3. /\ Past(s) \in SweepState /\ Past(s).pc # "save" /\ Past(s).last = sweep.last
    BY <1>1, PastIs
  <2>4. \A x \in Sessions :
           \/ checked'[x] \in {0, checked[x]}
           \/ /\ checked'[x] = sweep.last[x]
              /\ sweep.last[x] = messages[x] => note[x].time >= messages[x] \/ x \in passed'
    BY <1>1, <1>2, <2>1, <2>2, Remembered
  <2>5. checked' \in [Sessions -> Nat]
    BY <1>1, <2>1, Remembered
  <2>. QED
    BY <1>2, <2>1, <2>3, <2>4, <2>5, SweepTo, SameTurns, TurnsAre
<1>. QED
  BY <1>3, <1>4

LEMMA FlushSaveKeeps ==
    ASSUME IInv, FlushSave
    PROVE  IInv'
<1>1. TypeOK
  BY DEF IInv
<1>2. PICK s \in Sessions, read \in Nat :
         /\ s = sweep.at /\ read = sweep.read
         /\ read > flushed[s] /\ read <= messages[s]
  BY <1>1, SweepTypes DEF IInv, Saves, FlushSave
<1>3. /\ SaveSummary(s, read)
      /\ sweep' = [Past(s) EXCEPT !.wrote = @ + 1]
      /\ Remember(s)
      /\ flushed' = [flushed EXCEPT ![s] = read]
      /\ UNCHANGED <<messages, quiet, archived, turn, faults, passed>>
  BY <1>2 DEF FlushSave
<1>4. /\ note' \in [Sessions -> Note]
      /\ note'[s].time = messages[s]
      /\ \A x \in Sessions : x # s => note'[x] = note[x]
  BY <1>1, <1>3, NoteSaved
<1>5. /\ checked' \in [Sessions -> Nat]
      /\ checked'[s] = sweep.last[s]
      /\ \A x \in Sessions : x # s => checked'[x] = checked[x]
  BY <1>1, <1>3, Remembered
<1>6. sweep' \in SweepState /\ sweep'.pc = "walk" /\ sweep'.last = sweep.last
  <2>1. Past(s).wrote + 1 \in Nat
    BY <1>1, PastIs, SweepTypes
  <2>. QED
    BY <1>1, <1>3, <2>1, PastIs DEF SweepState
<1>7. /\ flushed' \in [Sessions -> Nat]
      /\ flushed'[s] = read
      /\ \A x \in Sessions : x # s => flushed'[x] = flushed[x]
  BY <1>1, <1>3 DEF TypeOK
<1>8. TypeOK'
  BY <1>1, <1>3, <1>4, <1>5, <1>6, <1>7 DEF TypeOK
<1>9. ASSUME NEW x \in Sessions
      PROVE  /\ Reached(x)'
             /\ checked'[x] = messages[x] /\ messages[x] > 0 =>
                   note'[x].time >= messages[x] \/ x \in passed
  <2>1. /\ messages[x] \in Nat /\ Reached(x) /\ sweep.last[x] \in Nat
        /\ sweep.last[x] <= messages[x]
    BY <1>1, SessionTypes DEF IInv, Reached
  <2>2. CASE x = s
    BY <1>2, <1>3, <1>4, <1>5, <1>6, <1>7, <2>1, <2>2 DEF Reached
  <2>3. CASE x # s
    BY <1>3, <1>4, <1>5, <1>6, <1>7, <2>1, <2>3 DEF Reached, IInv, CheckedHasNote
  <2>. QED
    BY <2>2, <2>3
<1>10. Saves'
  BY <1>6 DEF Saves
<1>. QED
  BY <1>3, <1>8, <1>9, <1>10, SameTurns DEF IInv, CheckedHasNote

LEMMA FlushFailsKeeps ==
    ASSUME IInv, NEW s \in Sessions, FlushFails(s)
    PROVE  IInv'
<1>1. TypeOK /\ sweep' = Past(s) /\ faults' \in Nat
      /\ UNCHANGED <<messages, quiet, note, archived, turn, checked, flushed, passed>>
  BY DEF IInv, FlushFails, Fault, TypeOK
<1>. QED
  BY <1>1, PastIs, SweepTo, SameTurns, TurnsAre

LEMMA FlushUnreadKeeps ==
    ASSUME IInv, NEW s \in Sessions, FlushUnread(s)
    PROVE  IInv'
<1>1. TypeOK /\ sweep' = Past(s) /\ faults' \in Nat /\ Remember(s)
      /\ passed' = passed \cup {s}
      /\ UNCHANGED <<messages, quiet, note, archived, turn, flushed>>
  BY DEF IInv, FlushUnread, Fault, TypeOK
<1>2. \A x \in Sessions :
         \/ checked'[x] \in {0, checked[x]}
         \/ /\ checked'[x] = sweep.last[x]
            /\ sweep.last[x] = messages[x] => note[x].time >= messages[x] \/ x \in passed'
  BY <1>1, Remembered
<1>3. checked' \in [Sessions -> Nat] /\ passed' \in SUBSET Sessions /\ passed \subseteq passed'
  BY <1>1, Remembered, TurnsAre
<1>. QED
  BY <1>1, <1>2, <1>3, PastIs, SweepTo, SameTurns

LEMMA EndOfSweepKeeps ==
    ASSUME IInv, StartFails \/ EndSweep
    PROVE  IInv'
<1>1. TypeOK
  BY DEF IInv
<1>2. /\ sweep' = NoSweep
      /\ UNCHANGED <<messages, quiet, note, archived, turn, flushed, passed>>
  BY DEF StartFails, EndSweep
<1>3. faults' \in Nat
  BY <1>1 DEF StartFails, EndSweep, Fault, TypeOK
<1>4. checked' \in [Sessions -> Nat] /\ \A s \in Sessions : checked'[s] \in {0, checked[s]}
  <2>1. CASE StartFails
    BY <1>1, <2>1 DEF StartFails, TypeOK
  <2>2. CASE EndSweep
    <3>1. PICK came : checked' = [s \in Sessions |-> IF s \in sweep.seen \cup came
                                                     THEN checked[s] ELSE 0]
      BY <2>2 DEF EndSweep
    <3>. QED
      BY <1>1, <3>1 DEF TypeOK
  <2>. QED
    BY <2>1, <2>2
<1>. QED
  BY <1>2, <1>3, <1>4, NoSweepIs, SweepTo, SameTurns, TurnsAre

-----------------------------------------------------------------------------
(* Archivings, restarts and time *)

LEMMA ArchiveKeeps ==
    ASSUME IInv, NEW s \in Sessions, Archive(s)
    PROVE  IInv'
<1>1. TypeOK
  BY DEF IInv
<1>2. /\ passed' = passed \cup {s} /\ archived' \subseteq archived \cup {s}
      /\ UNCHANGED <<messages, quiet, note, turn, sweep, checked, flushed>>
  BY DEF Archive
<1>3. faults' \in Nat
  BY <1>1 DEF Archive, Fault, TypeOK
<1>4. archived \subseteq passed
  BY DEF IInv
<1>5. archived' \subseteq passed' /\ passed \subseteq passed' /\ passed' \in SUBSET Sessions
  BY <1>1, <1>2, <1>4 DEF TypeOK
<1>6. TypeOK'
  BY <1>1, <1>2, <1>3, <1>5 DEF TypeOK
<1>7. Saves'
  BY <1>2 DEF IInv, Saves
<1>. QED
  BY <1>2, <1>5, <1>6, <1>7, Kept, SameTurns

LEMMA RestartKeeps ==
    ASSUME IInv, Restart
    PROVE  IInv'
<1>1. TypeOK
  BY DEF IInv
<1>2. /\ turn' = [r \in Runners |-> NoTurn] /\ sweep' = NoSweep
      /\ checked' = [s \in Sessions |-> 0]
      /\ UNCHANGED <<messages, quiet, note, archived, flushed, passed>>
  BY DEF Restart
<1>3. faults' \in Nat
  BY <1>1 DEF Restart, Fault, TypeOK
<1>4. turn' \in [Runners -> Turn] /\ TurnInv'
  BY <1>2, NoTurnIs DEF TurnInv
<1>5. checked' \in [Sessions -> Nat] /\ \A s \in Sessions : checked'[s] = 0
  BY <1>2
<1>. QED
  BY <1>2, <1>3, <1>4, <1>5, NoSweepIs, SweepTo, TurnsAre

LEMMA TickKeeps ==
    ASSUME IInv, Tick
    PROVE  IInv'
<1>1. TypeOK
  BY DEF IInv
<1>2. /\ sweep.pc = "off" /\ sweep' = [sweep EXCEPT !.rested = FALSE]
      /\ UNCHANGED <<messages, note, archived, turn, checked, faults, flushed, passed>>
  BY DEF Tick
<1>3. sweep' \in SweepState /\ sweep'.pc = "off" /\ sweep'.last = sweep.last
  BY <1>1, <1>2, SweepTypes DEF SweepState
<1>4. quiet' \in [Sessions -> Nat]
  BY <1>1 DEF Tick, TypeOK
<1>5. TypeOK'
  BY <1>1, <1>2, <1>3, <1>4 DEF TypeOK
<1>6. Saves'
  BY <1>3 DEF Saves
<1>. QED
  BY <1>2, <1>3, <1>5, <1>6, Kept, SameTurns DEF IInv

-----------------------------------------------------------------------------
(* The invariant *)

LEMMA InitHolds == Init => IInv
<1>1. SUFFICES ASSUME Init PROVE IInv
  OBVIOUS
<1>2. TypeOK
  BY <1>1, NoTurnIs, NoSweepIs DEF Init, TypeOK, Note
<1>3. TurnInv
  BY <1>1, NoTurnIs DEF Init, TurnInv
<1>4. \A s \in Sessions : Reached(s) /\ messages[s] = 0
  BY <1>1, NoSweepIs DEF Init, Reached
<1>5. Saves
  BY <1>1, NoSweepIs DEF Init, Saves
<1>. QED
  BY <1>1, <1>2, <1>3, <1>4, <1>5 DEF Init, IInv, CheckedHasNote

LEMMA NextKeeps == IInv /\ [Next]_vars => IInv'
<1>1. SUFFICES ASSUME IInv, [Next]_vars PROVE IInv'
  OBVIOUS
<1>2. ASSUME NEW r \in Runners, NEW s \in Sessions, Ask(r, s) PROVE IInv'
  BY <1>1, <1>2, AskKeeps
<1>3. ASSUME NEW r \in Runners, Run(r) PROVE IInv'
  BY <1>1, <1>3, AnswerKeeps, SummarizeKeeps, SaveTurnKeeps DEF Run
<1>4. ASSUME Sweep PROVE IInv'
  BY <1>1, <1>4, StartSweepKeeps, SkipKeeps, FlushKeeps, FlushSaveKeeps, EndOfSweepKeeps
    DEF Sweep
<1>5. ASSUME NEW r \in Runners, AnswerFails(r) \/ SaveTurnFails(r) PROVE IInv'
  BY <1>1, <1>5, AnswerFailsKeeps, SaveTurnFailsKeeps
<1>6. ASSUME NEW s \in Sessions, FlushFails(s) \/ FlushUnread(s) \/ Archive(s) PROVE IInv'
  BY <1>1, <1>6, FlushFailsKeeps, FlushUnreadKeeps, ArchiveKeeps
<1>7. ASSUME StartFails \/ Restart \/ Tick PROVE IInv'
  BY <1>1, <1>7, EndOfSweepKeeps, RestartKeeps, TickKeeps
<1>8. ASSUME UNCHANGED vars PROVE IInv'
  BY <1>1, <1>8 DEF vars, IInv, TypeOK, TurnInv, Reached, Saves, CheckedHasNote
<1>. QED
  BY <1>1, <1>2, <1>3, <1>4, <1>5, <1>6, <1>7, <1>8 DEF Next

LEMMA Invariant == Spec => []IInv
BY InitHolds, NextKeeps, PTL DEF Spec

-----------------------------------------------------------------------------
(* The theorems *)

\* The types of the rows of the store, of IdleFlusher and of the turns.
THEOREM TypeCorrect == Spec => []TypeOK
<1>1. IInv => TypeOK
  BY DEF IInv
<1>. QED
  BY <1>1, Invariant, PTL

\* IdleFlusher.checked hides no session that needs a note, except one that flush
\* passed over as archived or could not read, whatever is said, saved, archived or
\* restarted between the listing of a sweep and its second look.
THEOREM CheckedHasNoteAlways == Spec => []CheckedHasNote
<1>1. IInv => CheckedHasNote
  BY DEF IInv
<1>. QED
  BY <1>1, Invariant, PTL

\* flush makes no second note of messages it has made one of, also over the restarts
\* that lose what it has checked.
THEOREM OneFlushPerMessageAlways == Spec => OneFlushPerMessage
<1>1. ASSUME IInv, FlushSave PROVE flushed'[sweep.at] > flushed[sweep.at]
  <2>1. sweep.at \in Sessions /\ sweep.read > flushed[sweep.at]
    BY <1>1 DEF IInv, Saves, FlushSave
  <2>2. flushed'[sweep.at] = sweep.read
    BY <1>1, <2>1 DEF FlushSave, IInv, TypeOK
  <2>. QED
    BY <2>1, <2>2
<1>2. IInv /\ [Next]_vars
        => [FlushSave => flushed'[sweep.at] > flushed[sweep.at]]_vars
  BY <1>1
<1>. QED
  BY <1>2, Invariant, PTL DEF Spec, OneFlushPerMessage

=============================================================================
