-------------------------- MODULE ConsoleChatProofs --------------------------
(***************************************************************************)
(* Proofs about ConsoleChat, for any sessions and any budget.              *)
(*                                                                         *)
(* OwnTranscript needs to know what a load that is under way has got, what *)
(* the gateway keeps of each session, and that a page that was left shows  *)
(* nothing and has no continuation of its own: ShownInv says so.           *)
(* PostedOnce needs the turns to be numbered: a message whose post is      *)
(* under way is in no session yet, and a turn that runs has no reply yet   *)
(* (PostInv).                                                              *)
(* FreeWhenQuiet is about no request in particular: each flag of the page  *)
(* is held by a request whose end puts it back, and which no step takes    *)
(* away, nor makes stale, without putting the flag back itself (FreeInv).  *)
(* RestIsTrue is about what is still to come: as long as all goes in order *)
(* either the page shows what the gateway has or a request is under way    *)
(* after whose end it will, sent after every other that could spoil that   *)
(* or change the session again (RestInv).                                  *)
(***************************************************************************)
EXTENDS ConsoleChat, SequenceTheorems, WellFoundedInduction, TLAPS

Whose == {"user", "ai", "err", "event"}
Texts == {"none", "part", "all"}
MessagesOf(s) == [s : {s}, turn : Nat, who : Whose, text : Texts]

Fields == {"n", "op", "s", "gen", "by", "st", "turn", "json", "prev", "cap", "orphan", "cur", "got"}

CallOK(c) ==
  /\ DOMAIN c = Fields
  /\ c.turn \in Nat
  /\ c.op = "load" => c.got.rows \in Seq(MessagesOf(c.s))

ViewFields == {"msgs", "err", "loading", "sending", "stream", "agent", "saving", "gen", "ctrl"}

Fits(v) ==
  /\ DOMAIN v = ViewFields
  /\ v.msgs \in Seq(MessagesOf(picked))

ViewOK == Fits(view)

GwOK == \A s \in DOMAIN gw : DOMAIN gw[s] = {"rows", "agent"} /\ gw[s].rows \in Seq(MessagesOf(s))

SpentOK == DOMAIN spent = {"n", "turns", "calm", "used"} /\ spent.turns \in Nat

\* A page that was left shows nothing and has no continuation of its own.
AwayOK ==
  /\ tab \in {"chat", "away"}
  /\ tab = "away" => view.msgs = <<>> /\ \A c \in calls : c.orphan

CallsOK == \A c \in calls : CallOK(c)

ShownInv == ViewOK /\ GwOK /\ SpentOK /\ AwayOK /\ CallsOK

-----------------------------------------------------------------------------
(* Requests *)

\* A request as it is sent.
LEMMA CallFields ==
  ASSUME NEW op, NEW s
  PROVE  /\ DOMAIN Call(op, s) = Fields
         /\ Call(op, s).op = op /\ Call(op, s).s = s /\ Call(op, s).turn = 0
         /\ Call(op, s).orphan = FALSE /\ Call(op, s).st = "sent"
         /\ Call(op, s).got.rows = <<>>
BY DEF Call, Request, Fields, NewSession

\* The load that opens a session.
LEMMA LoadOK ==
  ASSUME NEW s, NEW g, NEW by
  PROVE  CallOK([Call("load", s) EXCEPT !.gen = g, !.by = by])
<1>1. PICK k : k = Call("load", s)
  OBVIOUS
<1>2. DOMAIN k = Fields /\ k.op = "load" /\ k.s = s /\ k.turn = 0 /\ k.got.rows = <<>>
  BY <1>1 DEF Call, Request, Fields, NewSession
<1>3. <<>> \in Seq(MessagesOf(s))
  BY EmptySeq
<1>4. PICK l : l = [k EXCEPT !.gen = g, !.by = by]
  OBVIOUS
<1>5. DOMAIN l = Fields /\ l.s = s /\ l.turn = 0 /\ l.got = k.got
  BY <1>2, <1>4 DEF Fields
<1>6. l.got.rows \in Seq(MessagesOf(l.s))
  BY <1>2, <1>3, <1>5
<1>. QED
  BY <1>1, <1>4, <1>5, <1>6 DEF CallOK

\* A load that follows another request, of the same session and the same page.
FollowOf(c, g, by) ==
  [Call("load", c.s) EXCEPT !.gen = g, !.by = by, !.orphan = c.orphan, !.cur = c.cur]

LEMMA FollowOK ==
  ASSUME NEW c, NEW g, NEW by
  PROVE  CallOK(FollowOf(c, g, by)) /\ FollowOf(c, g, by).orphan = c.orphan
<1>0. PICK l : l = FollowOf(c, g, by)
  OBVIOUS
<1>1. PICK k, s, o, u : k = Call("load", s) /\ s = c.s /\ o = c.orphan /\ u = c.cur
  OBVIOUS
<1>2. DOMAIN k = Fields /\ k.op = "load" /\ k.s = s /\ k.turn = 0 /\ k.got.rows = <<>>
  BY <1>1 DEF Call, Request, Fields, NewSession
<1>3. <<>> \in Seq(MessagesOf(s))
  BY EmptySeq
<1>4. l = [k EXCEPT !.gen = g, !.by = by, !.orphan = o, !.cur = u]
  BY <1>0, <1>1 DEF FollowOf
<1>5. DOMAIN l = Fields /\ l.s = s /\ l.turn = 0 /\ l.got = k.got /\ l.orphan = o
  BY <1>2, <1>4 DEF Fields
<1>6. l.got.rows \in Seq(MessagesOf(l.s))
  BY <1>2, <1>3, <1>5
<1>. QED
  BY <1>0, <1>1, <1>5, <1>6 DEF CallOK

\* Any other request.
LEMMA OtherOK ==
  ASSUME NEW op \in {"create", "delete", "save", "send"}, NEW s, NEW p, NEW by, NEW a, NEW n \in Nat
  PROVE  /\ CallOK(Call(op, s))
         /\ CallOK([Call(op, s) EXCEPT !.cap = p])
         /\ CallOK([Call(op, s) EXCEPT !.by = by])
         /\ CallOK([Call(op, s) EXCEPT !.by = by, !.prev = a])
         /\ CallOK([Call(op, s) EXCEPT !.turn = n])
<1>1. PICK k : k = Call(op, s)
  OBVIOUS
<1>2. DOMAIN k = Fields /\ k.op = op /\ k.turn = 0
  BY <1>1 DEF Call, Request, Fields
<1>. QED
  BY <1>1, <1>2 DEF CallOK, Fields

-----------------------------------------------------------------------------
(* Transcripts *)

LEMMA BlankMsgs ==
  ASSUME NEW g, NEW s
  PROVE  Blank(g).msgs = <<>> /\ <<>> \in Seq(MessagesOf(s))
BY EmptySeq DEF Blank

LEMMA MessageIsOf ==
  ASSUME NEW s, NEW n \in Nat, NEW who \in Whose, NEW text \in Texts
  PROVE  Message(s, n, who, text) \in MessagesOf(s)
BY DEF Message, MessagesOf

LEMMA PartIsOf ==
  ASSUME NEW s, NEW m \in MessagesOf(s)
  PROVE  [m EXCEPT !.text = "part"] \in MessagesOf(s)
BY DEF MessagesOf, Texts

LEMMA AppendIsOf ==
  ASSUME NEW s, NEW q \in Seq(MessagesOf(s)), NEW m \in MessagesOf(s)
  PROVE  /\ Append(q, m) \in Seq(MessagesOf(s))
         /\ DOMAIN Append(q, m) = 1 .. Len(q) + 1 /\ Len(q) \in Nat /\ DOMAIN q = 1 .. Len(q)
         /\ Append(q, m)[Len(q) + 1] = m
         /\ \A j \in 1 .. Len(q) : Append(q, m)[j] = q[j]
OBVIOUS

LEMMA WithoutIsOf ==
  ASSUME NEW s, NEW q \in Seq(MessagesOf(s)), NEW c
  PROVE  Without(q, c) \in Seq(MessagesOf(s))
<1>1. CASE ~\E j \in DOMAIN q : IsReply(q[j], c)
  BY <1>1 DEF Without
<1>2. CASE \E j \in DOMAIN q : IsReply(q[j], c)
  <2>1. PICK i : i \in DOMAIN q /\ i = CHOOSE j \in DOMAIN q : IsReply(q[j], c)
    BY <1>2
  <2>2. i \in 1 .. Len(q) /\ Len(q) \in Nat
    BY <2>1
  <2>3. SubSeq(q, 1, i - 1) \in Seq(MessagesOf(s)) /\ SubSeq(q, i + 1, Len(q)) \in Seq(MessagesOf(s))
    BY <2>2
  <2>4. RemoveAt(q, i) \in Seq(MessagesOf(s))
    BY <2>3 DEF RemoveAt
  <2>. QED
    BY <1>2, <2>1, <2>4 DEF Without
<1>. QED
  BY <1>1, <1>2

\* A function on an initial segment is a sequence.
LEMMA FunctionIsSeq ==
  ASSUME NEW S, NEW n \in Nat, NEW f \in [1 .. n -> S]
  PROVE  f \in Seq(S)
BY SeqDef

\* What was heard of a reply changes no session.
LEMMA HeardIsOf ==
  ASSUME NEW s, NEW v, NEW c, "msgs" \in DOMAIN v, v.msgs \in Seq(MessagesOf(s))
  PROVE  /\ Heard(v, c).msgs \in Seq(MessagesOf(s))
         /\ DOMAIN Heard(v, c) = DOMAIN v
<1>. DEFINE q == v.msgs
            h == [j \in DOMAIN q |-> IF IsReply(q[j], c) THEN [q[j] EXCEPT !.text = "part"] ELSE q[j]]
<1>1. Heard(v, c).msgs = h /\ DOMAIN Heard(v, c) = DOMAIN v
  BY DEF Heard
<1>2. q \in Seq(MessagesOf(s)) /\ Len(q) \in Nat /\ DOMAIN q = 1 .. Len(q)
  BY LenProperties
<1>. HIDE DEF q
<1>3. ASSUME NEW j \in 1 .. Len(q)
      PROVE  (IF IsReply(q[j], c) THEN [q[j] EXCEPT !.text = "part"] ELSE q[j]) \in MessagesOf(s)
  <2>1. q[j] \in MessagesOf(s)
    BY <1>2, ElementOfSeq
  <2>2. [q[j] EXCEPT !.text = "part"] \in MessagesOf(s)
    BY <2>1, PartIsOf
  <2>. QED
    BY <2>1, <2>2
<1>4. h \in [1 .. Len(q) -> MessagesOf(s)]
  BY <1>2, <1>3
<1>. HIDE DEF h
<1>5. h \in Seq(MessagesOf(s))
  BY <1>2, <1>4, FunctionIsSeq
<1>. QED
  BY <1>1, <1>5

LEMMA InitShown == Init => ShownInv
<1>. SUFFICES ASSUME Init PROVE ShownInv
  OBVIOUS
<1>1. ViewOK /\ AwayOK /\ CallsOK
  BY EmptySeq DEF Init, Fits, ViewFields, ViewOK, AwayOK, CallsOK, Blank
<1>2. PICK S : gw = [s \in S |-> NewSession]
  BY DEF Init
<1>3. GwOK
  BY <1>2, EmptySeq DEF GwOK, NewSession
<1>4. SpentOK
  BY DEF Init, SpentOK
<1>. QED
  BY <1>1, <1>3, <1>4 DEF ShownInv

-----------------------------------------------------------------------------
(* Views *)

\* A field other than the messages says nothing of a session.
LEMMA FieldsFit ==
  ASSUME NEW v, Fits(v), NEW a, NEW b, NEW d, NEW e
  PROVE  /\ Fits([v EXCEPT !.err = a])
         /\ Fits([v EXCEPT !.stream = a])
         /\ Fits([v EXCEPT !.saving = a])
         /\ Fits([v EXCEPT !.loading = a])
         /\ Fits([v EXCEPT !.agent = a, !.saving = b])
         /\ Fits([v EXCEPT !.err = a, !.saving = b])
         /\ Fits([v EXCEPT !.err = a, !.saving = b, !.agent = d])
         /\ Fits([v EXCEPT !.err = a, !.stream = b, !.sending = d])
         /\ Fits([v EXCEPT !.sending = a, !.loading = b, !.stream = d])
BY DEF Fits, ViewFields

\* The transcript that a load has got for the session that is open.
LEMMA MsgsFit ==
  ASSUME NEW v, Fits(v), NEW q \in Seq(MessagesOf(picked)), NEW a, NEW b
  PROVE  Fits([v EXCEPT !.msgs = q, !.agent = a, !.err = b])
BY DEF Fits

LEMMA EndsFits ==
  ASSUME NEW v, Fits(v), NEW c
  PROVE  Fits(Ends(v, c))
<1>1. PICK w : w = IF c.by = "save" THEN [v EXCEPT !.saving = FALSE] ELSE v
  OBVIOUS
<1>2. Fits(w)
  BY <1>1, FieldsFit
<1>3. Ends(v, c) = IF ~StillCurrent(c) THEN w
                   ELSE IF c.by = "send"
                   THEN [w EXCEPT !.sending = FALSE, !.loading = FALSE,
                                  !.stream = IF @ \in {"connecting", "streaming", "reconnect"} THEN "idle" ELSE @]
                   ELSE [w EXCEPT !.loading = FALSE]
  BY <1>1, Zenon DEF Ends
<1>. QED
  BY <1>2, <1>3 DEF Fits, ViewFields

\* What a continuation shows: a page that was left has no state to change.
Shows(v) == Fits(v) /\ (tab = "away" => v.msgs = <<>>)

LEMMA PageShows ==
  ASSUME ShownInv, NEW c \in calls, NEW v, ~c.orphan => Fits(v)
  PROVE  Shows(Page(c, v))
BY DEF ShownInv, ViewOK, AwayOK, Page, Shows

LEMMA ViewShows == ShownInv => Shows(view)
BY DEF ShownInv, ViewOK, AwayOK, Shows

\* A step that changes the view alone, or drops requests.
LEMMA ShowsStep ==
  ASSUME ShownInv, Shows(view'), UNCHANGED <<tab, picked>>,
         \A c \in calls' : c \in calls \/ (CallOK(c) /\ (tab = "away" => c.orphan))
  PROVE  ViewOK' /\ AwayOK' /\ CallsOK'
BY DEF ShownInv, Shows, ViewOK, Fits, AwayOK, CallsOK

-----------------------------------------------------------------------------
(* Opening and dropping a session *)

LEMMA OpenedShows ==
  ASSUME NEW v, NEW s
  PROVE  DOMAIN Opened(v, s) = ViewFields /\ Opened(v, s).msgs = <<>>
BY DEF Opened, Blank, ViewFields

LEMMA OpensShown ==
  ASSUME ShownInv, NEW s, NEW C, C \subseteq calls, Opens(s, C), UNCHANGED tab
  PROVE  ViewOK' /\ AwayOK' /\ CallsOK'
<1>1. CASE s = picked \/ tab # "chat"
  <2>1. view' = view /\ calls' = C /\ picked' = s
    BY <1>1 DEF Opens
  <2>2. CASE s = picked
    BY <2>1, <2>2, ViewShows, ShowsStep
  <2>3. CASE tab # "chat"
    <3>1. tab = "away" /\ view.msgs = <<>> /\ \A c \in C : c.orphan
      BY <2>3 DEF ShownInv, AwayOK
    <3>2. <<>> \in Seq(MessagesOf(s))
      BY EmptySeq
    <3>. QED
      BY <2>1, <3>1, <3>2 DEF ShownInv, ViewOK, Fits, AwayOK, CallsOK
  <2>. QED
    BY <1>1, <2>2, <2>3
<1>2. CASE ~(s = picked \/ tab # "chat")
  <2>1. view' = Opened(view, s) /\ picked' = s
    BY <1>2 DEF Opens
  <2>2. \A c \in calls' : c \in calls \/ CallOK(c)
    <3>1. PICK g : g = view'.gen
      OBVIOUS
    <3>2. PICK l : l = [Call("load", s) EXCEPT !.gen = g, !.by = "effect"]
      OBVIOUS
    <3>3. CallOK(l)
      BY <3>2, LoadOK
    <3>4. calls' \subseteq C \cup {l}
      BY <1>2, <3>1, <3>2 DEF Opens
    <3>. QED
      BY <3>3, <3>4
  <2>3. DOMAIN Opened(view, s) = ViewFields /\ Opened(view, s).msgs = <<>>
    BY OpenedShows
  <2>4. <<>> \in Seq(MessagesOf(s))
    BY EmptySeq
  <2>5. Fits(view)'
    BY <2>1, <2>3, <2>4 DEF Fits
  <2>. QED
    BY <1>2, <2>2, <2>5 DEF ShownInv, ViewOK, AwayOK, CallsOK
<1>. QED
  BY <1>1, <1>2

LEMMA DroppedShown ==
  ASSUME ShownInv, NEW s, NEW cap, NEW C, C \subseteq calls, NEW v, Shows(v),
         Dropped(s, cap, C, v), UNCHANGED tab
  PROVE  ViewOK' /\ AwayOK' /\ CallsOK'
<1>1. CASE s # cap \/ picked = NoSession
  BY <1>1, ShowsStep DEF Dropped
<1>2. CASE s = cap /\ picked # NoSession /\ tab # "chat"
  <2>1. picked' = NoSession /\ view' = v /\ calls' = C
    BY <1>2 DEF Dropped
  <2>2. tab = "away" /\ v.msgs = <<>> /\ \A c \in C : c.orphan
    BY <1>2 DEF ShownInv, AwayOK, Shows
  <2>3. <<>> \in Seq(MessagesOf(NoSession))
    BY EmptySeq
  <2>. QED
    BY <2>1, <2>2, <2>3 DEF ShownInv, Shows, ViewOK, Fits, AwayOK, CallsOK
<1>3. CASE s = cap /\ picked # NoSession /\ tab = "chat"
  <2>1. picked' = NoSession /\ view' = Opened(v, NoSession) /\ calls' = C
    BY <1>3 DEF Dropped
  <2>2. Fits(view)'
    BY <2>1, OpenedShows, EmptySeq DEF Fits, ViewFields
  <2>. QED
    BY <1>3, <2>1, <2>2 DEF ShownInv, ViewOK, AwayOK, CallsOK
<1>. QED
  BY <1>1, <1>2, <1>3

-----------------------------------------------------------------------------
(* The actions: those of the list and of the page *)

\* A step that leaves the gateway alone, and counts at most.
Counted ==
  /\ UNCHANGED gw
  /\ DOMAIN spent' = DOMAIN spent /\ spent'.turns \in Nat

LEMMA CountedOK == ASSUME ShownInv, Counted PROVE GwOK' /\ SpentOK'
BY DEF ShownInv, GwOK, SpentOK, Counted

LEMMA ActCounts == ASSUME ShownInv, UNCHANGED gw, Act \/ Trouble PROVE Counted
BY DEF ShownInv, SpentOK, Act, Trouble, Counted

LEMMA OrderCounts == ASSUME ShownInv, UNCHANGED gw, NEW c, InOrder(c) PROVE Counted
BY DEF ShownInv, SpentOK, InOrder, Counted

LEMMA ListShown ==
  ASSUME ShownInv, PickSession \/ CreateSession \/ DeleteSession
  PROVE  ShownInv'
<1>1. GwOK' /\ SpentOK'
  BY ActCounts, CountedOK DEF PickSession, CreateSession, DeleteSession
<1>2. CASE PickSession
  <2>1. PICK s : Opens(s, calls) /\ UNCHANGED tab
    BY <1>2 DEF PickSession
  <2>. QED
    BY <1>1, <2>1, OpensShown DEF ShownInv
<1>3. CASE CreateSession
  <2>1. PICK k : k = Call("create", NoSession)
    OBVIOUS
  <2>2. CallOK(k)
    BY <2>1, OtherOK
  <2>3. calls' = calls \cup {k} /\ UNCHANGED <<tab, picked, view>> /\ tab = "chat"
    BY <1>3, <2>1 DEF CreateSession
  <2>. QED
    BY <1>1, <2>2, <2>3, ViewShows, ShowsStep DEF ShownInv
<1>4. CASE DeleteSession
  <2>1. PICK s : calls' = calls \cup {[Call("delete", s) EXCEPT !.cap = picked]}
    BY <1>4 DEF DeleteSession
  <2>2. PICK k : k = [Call("delete", s) EXCEPT !.cap = picked]
    OBVIOUS
  <2>3. CallOK(k)
    BY <2>2, OtherOK
  <2>4. calls' = calls \cup {k} /\ UNCHANGED <<tab, picked, view>> /\ tab = "chat"
    BY <1>4, <2>1, <2>2 DEF DeleteSession
  <2>. QED
    BY <1>1, <2>3, <2>4, ViewShows, ShowsStep DEF ShownInv
<1>. QED
  BY <1>2, <1>3, <1>4

LEMMA ListedShown ==
  ASSUME ShownInv, Created \/ Removed
  PROVE  ShownInv'
<1>1. CASE Created
  <2>1. PICK c \in calls : /\ InOrder(c) /\ UNCHANGED <<tab, gw>>
                           /\ \/ Opens(c.s, calls \ {c})
                              \/ calls' = calls \ {c} /\ UNCHANGED <<picked, view>>
    BY <1>1 DEF Created, Answered
  <2>2. GwOK' /\ SpentOK'
    BY <2>1, OrderCounts, CountedOK
  <2>3. CASE Opens(c.s, calls \ {c})
    BY <2>1, <2>2, <2>3, OpensShown DEF ShownInv
  <2>4. CASE calls' = calls \ {c} /\ UNCHANGED <<picked, view>>
    BY <2>1, <2>2, <2>4, ViewShows, ShowsStep DEF ShownInv
  <2>. QED
    BY <2>1, <2>3, <2>4
<1>2. CASE Removed
  <2>1. PICK c \in calls : /\ UNCHANGED <<tab, gw>>
                           /\ InOrder(c)
                           /\ \/ Dropped(c.s, c.cap, calls \ {c}, view)
                              \/ calls' = calls \ {c} /\ UNCHANGED <<picked, view>>
    BY <1>2 DEF Removed, Answered
  <2>2. GwOK' /\ SpentOK'
    BY <2>1, OrderCounts, CountedOK
  <2>3. CASE Dropped(c.s, c.cap, calls \ {c}, view)
    BY <2>1, <2>2, <2>3, ViewShows, DroppedShown DEF ShownInv
  <2>4. CASE calls' = calls \ {c} /\ UNCHANGED <<picked, view>>
    BY <2>1, <2>2, <2>4, ViewShows, ShowsStep DEF ShownInv
  <2>. QED
    BY <2>1, <2>3, <2>4
<1>. QED
  BY <1>1, <1>2

LEMMA LoadShown ==
  ASSUME ShownInv, LoadArrives
  PROVE  ShownInv'
<1>1. PICK c \in calls :
        /\ c.op = "load" /\ InOrder(c) /\ UNCHANGED <<tab, gw>>
        /\ IF StillCurrent(c) /\ c.st = "gone" THEN Gone(c, Ends([view EXCEPT !.err = "fail"], c))
           ELSE /\ view' = Page(c, Ends(IF ~StillCurrent(c) THEN view
                                        ELSE IF c.st # "ok" THEN [view EXCEPT !.err = "fail"]
                                        ELSE [view EXCEPT !.msgs = c.got.rows, !.agent = c.got.agent, !.err = "none"], c))
                /\ calls' = calls \ {c} /\ UNCHANGED picked
  BY DEF LoadArrives, Answered
<1>2. GwOK' /\ SpentOK'
  BY <1>1, OrderCounts, CountedOK
<1>3. Fits(view) /\ Fits([view EXCEPT !.err = "fail"])
  BY FieldsFit DEF ShownInv, ViewOK
<1>4. CASE StillCurrent(c) /\ c.st = "gone"
  <2>1. PICK v : v = Page(c, Ends([view EXCEPT !.err = "fail"], c))
    OBVIOUS
  <2>2. Shows(v)
    BY <1>3, <2>1, EndsFits, PageShows
  <2>3. Dropped(c.s, c.s, calls \ {c}, v)
    BY <1>1, <1>4, <2>1 DEF Gone, Page
  <2>. QED
    BY <1>1, <1>2, <2>2, <2>3, DroppedShown DEF ShownInv
<1>5. CASE ~(StillCurrent(c) /\ c.st = "gone")
  <2>1. PICK w : w = IF ~StillCurrent(c) THEN view
                     ELSE IF c.st # "ok" THEN [view EXCEPT !.err = "fail"]
                     ELSE [view EXCEPT !.msgs = c.got.rows, !.agent = c.got.agent, !.err = "none"]
    OBVIOUS
  <2>2. ASSUME ~c.orphan PROVE Fits(w)
    <3>1. CASE ~StillCurrent(c) \/ c.st # "ok"
      BY <1>3, <2>1, <3>1
    <3>2. CASE StillCurrent(c) /\ c.st = "ok"
      <4>1. c.got.rows \in Seq(MessagesOf(picked))
        BY <1>1, <2>2, <3>2 DEF StillCurrent, ShownInv, CallsOK, CallOK
      <4>. QED
        BY <1>3, <2>1, <3>2, <4>1, MsgsFit
    <3>. QED
      BY <3>1, <3>2
  <2>3. view' = Page(c, Ends(w, c))
    BY <1>1, <1>5, <2>1
  <2>4. Shows(view')
    BY <2>2, <2>3, EndsFits, PageShows
  <2>. QED
    BY <1>1, <1>2, <1>5, <2>4, ShowsStep DEF ShownInv
<1>. QED
  BY <1>4, <1>5

\* A request of this page that is put in the place of another one.
LEMMA BecomeShown ==
  ASSUME ShownInv, NEW c \in calls, NEW d, Become(c, d), CallOK(d), d.orphan = c.orphan,
         Shows(view'), UNCHANGED <<tab, picked>>
  PROVE  ViewOK' /\ AwayOK' /\ CallsOK'
<1>1. \A e \in calls' : e \in calls \/ e = d
  BY DEF Become
<1>2. tab = "away" => d.orphan
  BY DEF ShownInv, AwayOK
<1>. QED
  BY <1>1, <1>2, ShowsStep

\* Another state of a request.
LEMMA StateOK ==
  ASSUME ShownInv, NEW c \in calls, NEW st
  PROVE  /\ CallOK([c EXCEPT !.st = st]) /\ [c EXCEPT !.st = st].orphan = c.orphan
         /\ CallOK([c EXCEPT !.json = st]) /\ [c EXCEPT !.json = st].orphan = c.orphan
         /\ CallOK([c EXCEPT !.op = "wait", !.st = st])
         /\ [c EXCEPT !.op = "wait", !.st = st].orphan = c.orphan
         /\ CallOK([c EXCEPT !.op = "probe"]) /\ [c EXCEPT !.op = "probe"].orphan = c.orphan
BY DEF ShownInv, CallsOK, CallOK, Fields

LEMMA SendShown ==
  ASSUME ShownInv, Send
  PROVE  ShownInv'
<1>1. NextTurn \in Nat /\ GwOK' /\ SpentOK'
  BY DEF ShownInv, GwOK, SpentOK, Send, NextTurn
<1>2. PICK u, r : u = Message(picked, NextTurn, "user", "all") /\ r = Message(picked, NextTurn, "ai", "none")
  OBVIOUS
<1>3. u \in MessagesOf(picked) /\ r \in MessagesOf(picked)
  BY <1>1, <1>2, MessageIsOf DEF Whose, Texts
<1>4. <<u, r>> \in Seq(MessagesOf(picked))
  BY <1>3
<1>5. PICK q : q = view.msgs \o <<u, r>>
  OBVIOUS
<1>6. q \in Seq(MessagesOf(picked))
  BY <1>4, <1>5 DEF ShownInv, ViewOK, Fits
<1>7. view' = [view EXCEPT !.sending = TRUE, !.stream = "connecting", !.err = "none", !.ctrl = NextTurn, !.msgs = q]
  BY <1>2, <1>5 DEF Send
<1>8. Shows(view')
  BY <1>6, <1>7 DEF Send, Shows, ShownInv, ViewOK, Fits, ViewFields
<1>9. PICK k : k = [Call("send", picked) EXCEPT !.turn = NextTurn]
  OBVIOUS
<1>10. CallOK(k)
  BY <1>1, <1>9, OtherOK
<1>11. calls' = calls \cup {k} /\ UNCHANGED <<tab, picked>> /\ tab = "chat"
  BY <1>9 DEF Send
<1>. QED
  BY <1>1, <1>8, <1>10, <1>11, ShowsStep DEF ShownInv

LEMMA StreamShown ==
  ASSUME ShownInv, Delta \/ Stop
  PROVE  ShownInv'
<1>1. CASE Delta
  <2>1. PICK c \in calls : view' = [Heard(view, c) EXCEPT !.stream = "streaming"] /\ ~c.orphan
    BY <1>1 DEF Delta
  <2>2. Fits(Heard(view, c))
    BY HeardIsOf DEF ShownInv, ViewOK, Fits, ViewFields
  <2>3. Fits(view') /\ tab # "away"
    BY <2>1, <2>2, FieldsFit DEF ShownInv, AwayOK
  <2>. QED
    BY <1>1, <2>3, ShowsStep DEF Delta, Shows, ShownInv, GwOK, SpentOK
<1>2. CASE Stop
  <2>1. PICK c \in calls : Become(c, [c EXCEPT !.st = "abort"])
    BY <1>2 DEF Stop
  <2>2. UNCHANGED <<tab, picked, view, gw>> /\ spent' = [spent EXCEPT !.calm = FALSE]
    BY <1>2 DEF Stop
  <2>3. ViewOK' /\ AwayOK' /\ CallsOK'
    BY <2>1, <2>2, StateOK, ViewShows, BecomeShown
  <2>. QED
    BY <2>2, <2>3 DEF ShownInv, GwOK, SpentOK
<1>. QED
  BY <1>1, <1>2

\* A turn that is over leaves the reply, takes it out, or puts an error in its place.
LEMMA TurnViews ==
  ASSUME ShownInv, NEW c \in calls, ~c.orphan => c.s = picked
  PROVE  /\ ~c.orphan => Fits([IF c.json THEN Heard(view, c) ELSE view EXCEPT !.stream = "idle"])
         /\ ~c.orphan => Fits(AbortedView(view, c))
         /\ ~c.orphan => Fits(FailedView(view, c))
<1>. SUFFICES ASSUME ~c.orphan
              PROVE  /\ Fits([IF c.json THEN Heard(view, c) ELSE view EXCEPT !.stream = "idle"])
                     /\ Fits(AbortedView(view, c))
                     /\ Fits(FailedView(view, c))
  OBVIOUS
<1>1. Fits(view) /\ view.msgs \in Seq(MessagesOf(picked)) /\ c.s = picked /\ c.turn \in Nat
  BY DEF ShownInv, ViewOK, Fits, CallsOK, CallOK
<1>2. Fits(Heard(view, c))
  BY <1>1, HeardIsOf DEF Fits, ViewFields
<1>3. Fits([IF c.json THEN Heard(view, c) ELSE view EXCEPT !.stream = "idle"])
  BY <1>1, <1>2, FieldsFit
<1>4. Without(view.msgs, c) \in Seq(MessagesOf(picked))
  BY <1>1, WithoutIsOf
<1>5. Fits(AbortedView(view, c))
  <2>1. PICK q : q = IF NothingHeard(view.msgs, c) THEN Without(view.msgs, c) ELSE view.msgs
    OBVIOUS
  <2>2. q \in Seq(MessagesOf(picked))
    BY <1>1, <1>4, <2>1
  <2>3. AbortedView(view, c) = [view EXCEPT !.msgs = q, !.stream = "idle", !.err = "none", !.sending = FALSE]
    BY <2>1 DEF AbortedView
  <2>. QED
    BY <1>1, <2>2, <2>3 DEF Fits, ViewFields
<1>6. Fits(FailedView(view, c))
  <2>1. PICK q : q = Append(Without(view.msgs, c), Message(c.s, c.turn, "err", "all"))
    OBVIOUS
  <2>2. q \in Seq(MessagesOf(picked))
    BY <1>1, <1>4, <2>1, MessageIsOf, AppendIsOf DEF Whose, Texts
  <2>3. FailedView(view, c) = [view EXCEPT !.msgs = q, !.err = "fail", !.stream = "reconnect"]
    BY <2>1 DEF FailedView
  <2>. QED
    BY <1>1, <2>2, <2>3 DEF Fits, ViewFields
<1>. QED
  BY <1>3, <1>5, <1>6

LEMMA TurnShown ==
  ASSUME ShownInv, SendArrives
  PROVE  ShownInv'
<1>1. PICK c \in calls : SendAnswered(c) /\ InOrder(c) /\ UNCHANGED <<tab, picked, gw>>
  BY DEF SendArrives, Answered
<1>2. GwOK' /\ SpentOK'
  BY <1>1, OrderCounts, CountedOK
<1>3. StillCurrent(c) => (~c.orphan => c.s = picked)
  BY DEF StillCurrent
<1>4. CASE StillCurrent(c) /\ c.st = "ok"
  <2>1. PICK l : l = LoadOfTurn(c, "send") /\ l = FollowOf(c, c.gen, "send")
    BY DEF LoadOfTurn, FollowOf
  <2>2. CallOK(l) /\ l.orphan = c.orphan
    BY <2>1, FollowOK
  <2>3. PICK v : v = [IF c.json THEN Heard(view, c) ELSE view EXCEPT !.stream = "idle"]
    OBVIOUS
  <2>4. view' = Page(c, v) /\ calls' = (calls \ {c}) \cup {l}
    BY <1>1, <1>4, <2>1, <2>3 DEF SendAnswered
  <2>5. Shows(view')
    BY <1>3, <1>4, <2>3, <2>4, TurnViews, PageShows
  <2>6. Become(c, l)
    BY <2>4 DEF Become
  <2>. QED
    BY <1>1, <1>2, <2>2, <2>5, <2>6, BecomeShown DEF ShownInv
<1>5. CASE StillCurrent(c) /\ c.st = "abort"
  <2>1. view' = Page(c, AbortedView(view, c)) /\ calls' = calls \ {c}
    BY <1>1, <1>5 DEF SendAnswered
  <2>2. Shows(view')
    BY <1>3, <1>5, <2>1, TurnViews, PageShows
  <2>. QED
    BY <1>1, <1>2, <2>1, <2>2, ShowsStep DEF ShownInv
<1>6. CASE StillCurrent(c) /\ c.st \in {"fail", "gone"}
  <2>1. view' = Page(c, FailedView(view, c)) /\ Become(c, [c EXCEPT !.op = "wait", !.st = "sent"])
    BY <1>1, <1>6 DEF SendAnswered
  <2>2. Shows(view')
    BY <1>3, <1>6, <2>1, TurnViews, PageShows
  <2>. QED
    BY <1>1, <1>2, <2>1, <2>2, StateOK, BecomeShown DEF ShownInv
<1>7. CASE calls' = calls \ {c} /\ UNCHANGED view
  BY <1>1, <1>2, <1>7, ViewShows, ShowsStep DEF ShownInv
<1>. QED
  BY <1>1, <1>4, <1>5, <1>6, <1>7 DEF SendAnswered

LEMMA ProbeShown ==
  ASSUME ShownInv, WaitOver \/ ProbeArrives
  PROVE  ShownInv'
<1>1. CASE WaitOver
  <2>1. PICK c \in calls : Become(c, [c EXCEPT !.op = "probe"]) \/ calls' = calls \ {c}
    BY <1>1 DEF WaitOver, Retried
  <2>2. UNCHANGED <<tab, picked, view, gw, spent>>
    BY <1>1 DEF WaitOver
  <2>3. CASE Become(c, [c EXCEPT !.op = "probe"])
    BY <2>2, <2>3, StateOK, ViewShows, BecomeShown DEF ShownInv, GwOK, SpentOK
  <2>4. CASE calls' = calls \ {c}
    BY <2>2, <2>4, ViewShows, ShowsStep DEF ShownInv, GwOK, SpentOK
  <2>. QED
    BY <2>1, <2>3, <2>4
<1>2. CASE ProbeArrives
  <2>1. PICK v : v = [view EXCEPT !.err = "fail", !.stream = "error", !.sending = FALSE]
    OBVIOUS
  <2>2. Fits(v)
    BY <2>1 DEF ShownInv, ViewOK, Fits, ViewFields
  <2>3. PICK c \in calls :
          /\ InOrder(c) /\ UNCHANGED <<tab, gw>>
          /\ IF StillCurrent(c) /\ c.st = "gone" THEN Gone(c, v)
             ELSE /\ view' = IF StillCurrent(c) THEN Page(c, v) ELSE view
                  /\ calls' = calls \ {c} /\ UNCHANGED picked
    BY <1>2, <2>1 DEF ProbeArrives, Answered
  <2>4. GwOK' /\ SpentOK'
    BY <2>3, OrderCounts, CountedOK
  <2>5. Shows(Page(c, v))
    BY <2>2, PageShows
  <2>6. CASE StillCurrent(c) /\ c.st = "gone"
    <3>1. PICK w : w = Page(c, v)
      OBVIOUS
    <3>2. Dropped(c.s, c.s, calls \ {c}, w)
      BY <2>3, <2>6, <3>1 DEF Gone
    <3>. QED
      BY <2>3, <2>4, <2>5, <3>1, <3>2, DroppedShown DEF ShownInv
  <2>7. CASE ~(StillCurrent(c) /\ c.st = "gone")
    BY <2>3, <2>4, <2>5, <2>7, ViewShows, ShowsStep DEF ShownInv
  <2>. QED
    BY <2>6, <2>7
<1>. QED
  BY <1>1, <1>2

LEMMA SaveShown ==
  ASSUME ShownInv, SaveAgent \/ SaveModel
  PROVE  ShownInv'
<1>1. GwOK' /\ SpentOK'
  BY ActCounts, CountedOK DEF SaveAgent, SaveModel
<1>2. tab = "chat" /\ UNCHANGED <<tab, picked>>
  BY DEF SaveAgent, SaveModel
<1>3. Shows(view')
  BY <1>2 DEF SaveAgent, SaveModel, Shows, Fits, ViewFields, ShownInv, ViewOK
<1>4. PICK k, l : /\ k = [Call("save", picked) EXCEPT !.by = "agent", !.prev = view.agent]
                  /\ l = [Call("save", picked) EXCEPT !.by = "model"]
  OBVIOUS
<1>5. CallOK(k) /\ CallOK(l)
  BY <1>4, OtherOK
<1>6. calls' = calls \cup {k} \/ calls' = calls \cup {l}
  BY <1>4 DEF SaveAgent, SaveModel
<1>. QED
  BY <1>1, <1>2, <1>3, <1>5, <1>6, ShowsStep DEF ShownInv

LEMMA SavedShown ==
  ASSUME ShownInv, SaveArrives
  PROVE  ShownInv'
<1>1. PICK c, l0 :
        /\ c \in calls
        /\ InOrder(c) /\ UNCHANGED <<tab, picked, gw>>
        /\ l0 = FollowOf(c, view.gen, "save")
        /\ IF c.st # "ok" THEN view' = Page(c, Restored(c)) /\ calls' = calls \ {c}
           ELSE IF c.by = "agent"
           THEN view' = Page(c, [view EXCEPT !.err = "none"]) /\ Become(c, l0)
           ELSE view' = Page(c, [view EXCEPT !.err = "none", !.saving = FALSE]) /\ calls' = calls \ {c}
  BY DEF SaveArrives, Saved, Answered, FollowOf
<1>2. GwOK' /\ SpentOK'
  BY <1>1, OrderCounts, CountedOK
<1>3. CallOK(l0) /\ l0.orphan = c.orphan
  BY <1>1, FollowOK
<1>4. Fits(Restored(c)) /\ Fits([view EXCEPT !.err = "none"]) /\ Fits([view EXCEPT !.err = "none", !.saving = FALSE])
  BY DEF Restored, ShownInv, ViewOK, Fits, ViewFields
<1>5. Shows(view')
  BY <1>1, <1>4, PageShows
<1>6. CASE Become(c, l0)
  BY <1>1, <1>2, <1>3, <1>5, <1>6, BecomeShown DEF ShownInv
<1>7. CASE calls' = calls \ {c}
  BY <1>1, <1>2, <1>5, <1>7, ShowsStep DEF ShownInv
<1>. QED
  BY <1>1, <1>6, <1>7

\* A page that is left has a blank view, and its continuations are orphans.
LEMMA LeaveShown ==
  ASSUME ShownInv, LeaveChat
  PROVE  ShownInv'
<1>1. GwOK' /\ SpentOK'
  BY ActCounts, CountedOK DEF LeaveChat
<1>2. tab' = "away" /\ view' = Blank(0) /\ picked' = picked
  BY DEF LeaveChat
<1>3. Fits(view)' /\ view'.msgs = <<>>
  BY <1>2, EmptySeq DEF Fits, ViewFields, Blank
<1>4. ASSUME NEW d \in calls' PROVE CallOK(d) /\ d.orphan
  <2>1. PICK c, u : c \in calls /\ d = [c EXCEPT !.orphan = TRUE, !.cur = u]
    BY <1>4 DEF LeaveChat
  <2>. QED
    BY <2>1 DEF ShownInv, CallsOK, CallOK, Fields
<1>. QED
  BY <1>1, <1>2, <1>3, <1>4 DEF ShownInv, ViewOK, AwayOK, CallsOK

LEMMA OpenShown ==
  ASSUME ShownInv, OpenChat
  PROVE  ShownInv'
<1>1. GwOK' /\ SpentOK'
  BY DEF OpenChat, ShownInv, GwOK, SpentOK
<1>2. PICK s : /\ picked' = s
               /\ view' = [Blank(1) EXCEPT !.loading = s # NoSession]
               /\ calls' = calls \cup IF s = NoSession THEN {} ELSE {[Call("load", s) EXCEPT !.gen = 1, !.by = "effect"]}
  BY DEF OpenChat
<1>3. tab' = "chat"
  BY DEF OpenChat
<1>4. <<>> \in Seq(MessagesOf(s))
  BY EmptySeq
<1>5. Fits(view)'
  BY <1>2, <1>4 DEF Fits, ViewFields, Blank
<1>6. PICK g, by, l : l = [Call("load", s) EXCEPT !.gen = g, !.by = by] /\ g = 1 /\ by = "effect"
  OBVIOUS
<1>7. CallOK(l)
  BY <1>6, LoadOK
<1>8. calls' \subseteq calls \cup {l}
  BY <1>2, <1>6
<1>. QED
  BY <1>1, <1>3, <1>5, <1>7, <1>8 DEF ShownInv, ViewOK, AwayOK, CallsOK

-----------------------------------------------------------------------------
(* The actions: those of the gateway *)

\* The turns that run have numbers.
TurnsOK == \A t \in turns : t[2] \in Nat

LEMMA ServedCounts ==
  ASSUME ShownInv, NEW c, ServedInOrder(c)
  PROVE  SpentOK'
BY DEF ShownInv, SpentOK, ServedInOrder

LEMMA AppendedOK ==
  ASSUME ShownInv, NEW s \in DOMAIN gw, NEW m \in MessagesOf(s),
         gw' = [gw EXCEPT ![s].rows = Append(@, m)]
  PROVE  GwOK'
<1>1. ASSUME NEW r \in DOMAIN gw'
      PROVE  DOMAIN gw'[r] = {"rows", "agent"} /\ gw'[r].rows \in Seq(MessagesOf(r))
  <2>1. r \in DOMAIN gw /\ DOMAIN gw[r] = {"rows", "agent"} /\ gw[r].rows \in Seq(MessagesOf(r))
    BY <1>1 DEF ShownInv, GwOK
  <2>2. CASE r = s
    <3>1. gw'[r] = [gw[r] EXCEPT !.rows = Append(gw[r].rows, m)]
      BY <2>1, <2>2
    <3>2. Append(gw[r].rows, m) \in Seq(MessagesOf(r))
      BY <2>1, <2>2
    <3>. QED
      BY <2>1, <3>1, <3>2
  <2>3. CASE r # s
    BY <2>1, <2>3
  <2>. QED
    BY <2>2, <2>3
<1>. QED
  BY <1>1 DEF GwOK

\* The rows of a gateway at which an agent is changed.
LEMMA AgentRows ==
  ASSUME ShownInv, NEW s \in DOMAIN gw, NEW a, gw' = WithAgent(gw, s, a)
  PROVE  /\ DOMAIN gw' = DOMAIN gw
         /\ \A r \in DOMAIN gw : r # s => gw'[r] = gw[r]
         /\ DOMAIN gw'[s] = {"rows", "agent"}
         /\ \/ gw'[s].rows = gw[s].rows
            \/ \E m \in MessagesOf(s) : m.turn = 0 /\ m.who = "event" /\ gw'[s].rows = Append(gw[s].rows, m)
<1>1. PICK m : m = Message(s, 0, "event", "all")
  OBVIOUS
<1>2. m \in MessagesOf(s) /\ m.turn = 0 /\ m.who = "event"
  BY <1>1, MessageIsOf DEF Message, Whose, Texts
<1>3. DOMAIN gw[s] = {"rows", "agent"}
  BY DEF ShownInv, GwOK
<1>4. CASE gw[s].agent = a
  BY <1>3, <1>4 DEF WithAgent
<1>5. CASE gw[s].agent # a
  <2>1. PICK q : q = Append(gw[s].rows, m)
    OBVIOUS
  <2>2. gw' = [gw EXCEPT ![s] = [rows |-> q, agent |-> a]]
    BY <1>1, <1>5, <2>1 DEF WithAgent
  <2>3. gw'[s] = [rows |-> q, agent |-> a]
    BY <2>2
  <2>. QED
    BY <1>2, <2>1, <2>2, <2>3
<1>. QED
  BY <1>4, <1>5

LEMMA AgentOK ==
  ASSUME ShownInv, NEW s \in DOMAIN gw, NEW a, gw' = WithAgent(gw, s, a)
  PROVE  GwOK'
<1>1. gw[s].rows \in Seq(MessagesOf(s))
  BY DEF ShownInv, GwOK
<1>2. gw'[s].rows \in Seq(MessagesOf(s)) /\ DOMAIN gw'[s] = {"rows", "agent"}
  BY <1>1, AgentRows, AppendIsOf
<1>3. ASSUME NEW r \in DOMAIN gw', r # s
      PROVE  DOMAIN gw'[r] = {"rows", "agent"} /\ gw'[r].rows \in Seq(MessagesOf(r))
  BY <1>3, AgentRows DEF ShownInv, GwOK
<1>. QED
  BY <1>2, <1>3 DEF GwOK

LEMMA ReadShown ==
  ASSUME ShownInv, ServeRead
  PROVE  ShownInv'
<1>1. PICK c \in calls :
        /\ c.op \in {"load", "probe"} /\ UNCHANGED <<tab, picked, view, gw>> /\ ServedInOrder(c)
        /\ \/ c.s \notin DOMAIN gw /\ Become(c, [c EXCEPT !.st = "gone"])
           \/ c.s \in DOMAIN gw /\ Become(c, [c EXCEPT !.st = "ok", !.got = gw[c.s]])
  BY DEF ServeRead
<1>2. GwOK' /\ SpentOK'
  BY <1>1, ServedCounts DEF ShownInv, GwOK
<1>3. CASE Become(c, [c EXCEPT !.st = "gone"])
  BY <1>1, <1>2, <1>3, StateOK, ViewShows, BecomeShown DEF ShownInv
<1>4. CASE c.s \in DOMAIN gw /\ Become(c, [c EXCEPT !.st = "ok", !.got = gw[c.s]])
  <2>1. PICK g, d : g = gw[c.s] /\ d = [c EXCEPT !.st = "ok", !.got = g]
    OBVIOUS
  <2>2. g.rows \in Seq(MessagesOf(c.s)) /\ CallOK(c)
    BY <1>4, <2>1 DEF ShownInv, GwOK, CallsOK
  <2>3. DOMAIN d = Fields /\ d.got = g /\ d.s = c.s /\ d.turn = c.turn /\ d.orphan = c.orphan
    BY <2>1, <2>2 DEF CallOK, Fields
  <2>4. CallOK(d)
    BY <2>2, <2>3 DEF CallOK
  <2>. QED
    BY <1>1, <1>2, <1>4, <2>1, <2>3, <2>4, ViewShows, BecomeShown DEF ShownInv
<1>. QED
  BY <1>1, <1>3, <1>4

LEMMA WriteShown ==
  ASSUME ShownInv, ServeWrite
  PROVE  ShownInv'
<1>1. PICK c \in calls :
       /\ ServedInOrder(c) /\ UNCHANGED <<tab, picked, view>>
       /\ \/ /\ c.op = "create"
             /\ \E s \in Sessions \ (DOMAIN gw \cup spent.used) :
                  gw' = WithSession(s) /\ Become(c, [c EXCEPT !.st = "ok", !.s = s])
          \/ Become(c, [c EXCEPT !.st = "fail"]) /\ UNCHANGED gw
          \/ Become(c, [c EXCEPT !.st = "gone"]) /\ UNCHANGED gw
          \/ /\ gw' = [s \in DOMAIN gw \ {c.s} |-> gw[s]] /\ Become(c, [c EXCEPT !.st = "ok"])
          \/ /\ c.s \in DOMAIN gw
             /\ gw' = IF c.by = "agent" THEN WithAgent(gw, c.s, 3 - c.prev) ELSE gw
             /\ Become(c, [c EXCEPT !.st = "ok"])
  BY DEF ServeWrite
<1>2. SpentOK'
  BY <1>1, ServedCounts
<1>3. ASSUME NEW s, c.op = "create", gw' = WithSession(s), Become(c, [c EXCEPT !.st = "ok", !.s = s])
      PROVE  ShownInv'
  <2>1. CallOK([c EXCEPT !.st = "ok", !.s = s]) /\ [c EXCEPT !.st = "ok", !.s = s].orphan = c.orphan
    BY <1>3 DEF ShownInv, CallsOK, CallOK, Fields
  <2>2. ViewOK' /\ AwayOK' /\ CallsOK'
    BY <1>1, <1>3, <2>1, ViewShows, BecomeShown
  <2>3. <<>> \in Seq(MessagesOf(s))
    BY EmptySeq
  <2>4. GwOK'
    BY <1>3, <2>3 DEF ShownInv, GwOK, NewSession, WithSession
  <2>. QED
    BY <1>2, <2>2, <2>4 DEF ShownInv
<1>4. ASSUME NEW st, Become(c, [c EXCEPT !.st = st]), GwOK'
      PROVE  ShownInv'
  BY <1>1, <1>2, <1>4, StateOK, ViewShows, BecomeShown DEF ShownInv
<1>5. UNCHANGED gw \/ gw' = [s \in DOMAIN gw \ {c.s} |-> gw[s]] => GwOK'
  BY DEF ShownInv, GwOK
<1>6. c.s \in DOMAIN gw /\ gw' = WithAgent(gw, c.s, 3 - c.prev) => GwOK'
  BY AgentOK
<1>. QED
  BY <1>1, <1>3, <1>4, <1>5, <1>6

LEMMA AcceptShown ==
  ASSUME ShownInv, Accept
  PROVE  ShownInv'
<1>1. PICK c \in calls :
        /\ ServedInOrder(c) /\ UNCHANGED <<tab, picked, view>>
        /\ \/ /\ c.s \in DOMAIN gw
              /\ gw' = [gw EXCEPT ![c.s].rows = Append(@, Message(c.s, c.turn, "user", "all"))]
              /\ Become(c, [c EXCEPT !.st = "run"])
           \/ Become(c, [c EXCEPT !.st = "gone"]) /\ UNCHANGED gw
           \/ Become(c, [c EXCEPT !.json = TRUE]) /\ UNCHANGED gw
  BY DEF Accept
<1>2. SpentOK'
  BY <1>1, ServedCounts
<1>3. ViewOK' /\ AwayOK' /\ CallsOK'
  BY <1>1, StateOK, ViewShows, BecomeShown
<1>4. c.turn \in Nat
  BY DEF ShownInv, CallsOK, CallOK
<1>5. PICK m : m = Message(c.s, c.turn, "user", "all")
  OBVIOUS
<1>6. m \in MessagesOf(c.s)
  BY <1>4, <1>5, MessageIsOf DEF Whose, Texts
<1>7. GwOK'
  <2>1. UNCHANGED gw => GwOK'
    BY DEF ShownInv, GwOK
  <2>2. c.s \in DOMAIN gw /\ gw' = [gw EXCEPT ![c.s].rows = Append(@, m)] => GwOK'
    BY <1>6, AppendedOK
  <2>. QED
    BY <1>1, <1>5, <2>1, <2>2
<1>. QED
  BY <1>2, <1>3, <1>7 DEF ShownInv

LEMMA FinishShown ==
  ASSUME ShownInv, TurnsOK, Finish
  PROVE  ShownInv'
<1>1. PICK t \in turns :
        /\ gw' = IF t[1] \in DOMAIN gw THEN [gw EXCEPT ![t[1]].rows = Append(@, Message(t[1], t[2], "ai", "all"))] ELSE gw
        /\ calls' = {IF c.op = "send" /\ c.st = "run" /\ c.turn = t[2] THEN [c EXCEPT !.st = "ok"] ELSE c : c \in calls}
        /\ spent' = [spent EXCEPT !.calm = @ /\ \A c \in calls : c.turn = t[2] => Oldest(c, calls)]
        /\ UNCHANGED <<tab, picked, list, view>>
  BY DEF Finish
<1>2. SpentOK'
  BY <1>1 DEF ShownInv, SpentOK
<1>3. ASSUME NEW d \in calls' PROVE CallOK(d) /\ (tab = "away" => d.orphan)
  <2>1. PICK c \in calls : d = c \/ d = [c EXCEPT !.st = "ok"]
    BY <1>1, <1>3
  <2>2. CallOK(c) /\ CallOK([c EXCEPT !.st = "ok"]) /\ [c EXCEPT !.st = "ok"].orphan = c.orphan
    BY StateOK DEF ShownInv, CallsOK
  <2>. QED
    BY <2>1, <2>2 DEF ShownInv, AwayOK
<1>4. ViewOK' /\ AwayOK' /\ CallsOK'
  BY <1>1, <1>3, ViewShows, ShowsStep
<1>5. PICK s, m : s = t[1] /\ m = Message(s, t[2], "ai", "all")
  OBVIOUS
<1>6. m \in MessagesOf(s)
  BY <1>5, MessageIsOf DEF TurnsOK, Whose, Texts
<1>7. GwOK'
  <2>1. UNCHANGED gw => GwOK'
    BY DEF ShownInv, GwOK
  <2>2. s \in DOMAIN gw /\ gw' = [gw EXCEPT ![s].rows = Append(@, m)] => GwOK'
    BY <1>6, AppendedOK
  <2>. QED
    BY <1>1, <1>5, <2>1, <2>2
<1>. QED
  BY <1>2, <1>4, <1>7 DEF ShownInv

LEMMA TroubleShown ==
  ASSUME ShownInv, Cancel \/ Refused \/ Elsewhere
  PROVE  ShownInv'
<1>1. CASE Cancel
  <2>1. calls' \subseteq calls /\ UNCHANGED <<tab, picked, view, gw>> /\ spent' = [spent EXCEPT !.calm = FALSE]
    BY <1>1 DEF Cancel
  <2>2. ViewOK' /\ AwayOK' /\ CallsOK'
    BY <2>1, ViewShows, ShowsStep
  <2>. QED
    BY <2>1, <2>2 DEF ShownInv, GwOK, SpentOK
<1>2. CASE Refused
  <2>1. PICK c \in calls : Become(c, [c EXCEPT !.st = "fail"])
    BY <1>2 DEF Refused
  <2>2. UNCHANGED <<tab, picked, view, gw>> /\ Trouble
    BY <1>2 DEF Refused
  <2>3. ViewOK' /\ AwayOK' /\ CallsOK'
    BY <2>1, <2>2, StateOK, ViewShows, BecomeShown
  <2>. QED
    BY <2>2, <2>3, ActCounts, CountedOK DEF ShownInv
<1>3. CASE Elsewhere
  <2>1. PICK s : gw' = [r \in DOMAIN gw \ {s} |-> gw[r]]
    BY <1>3 DEF Elsewhere
  <2>2. UNCHANGED <<tab, picked, view, calls>> /\ Trouble
    BY <1>3 DEF Elsewhere
  <2>. QED
    BY <2>1, <2>2 DEF ShownInv, ViewOK, Fits, AwayOK, CallsOK, GwOK, SpentOK, Trouble
<1>. QED
  BY <1>1, <1>2, <1>3

LEMMA TurnsStep ==
  ASSUME ShownInv, TurnsOK, [Next]_vars
  PROVE  TurnsOK'
<1>1. CASE Accept
  <2>1. PICK c \in calls : turns' = turns \cup {<<c.s, c.turn>>} \/ turns' = turns
    BY <1>1 DEF Accept
  <2>2. c.turn \in Nat
    BY DEF ShownInv, CallsOK, CallOK
  <2>3. <<c.s, c.turn>>[2] = c.turn
    OBVIOUS
  <2>. QED
    BY <2>1, <2>2, <2>3 DEF TurnsOK
<1>2. CASE ~Accept
  <2>1. turns' \subseteq turns
    BY <1>2 DEF Next, vars, Control, Continuation, Gateway, PickSession, CreateSession, DeleteSession, Send, Stop,
         SaveAgent, SaveModel, LeaveChat, OpenChat, Created, Removed, LoadArrives, Delta, SendArrives, WaitOver,
         ProbeArrives, SaveArrives, ServeRead, ServeWrite, Finish, Cancel, Refused, Elsewhere
  <2>. QED
    BY <2>1 DEF TurnsOK
<1>. QED
  BY <1>1, <1>2

LEMMA NextShown ==
  ASSUME ShownInv, TurnsOK, [Next]_vars
  PROVE  ShownInv' /\ TurnsOK'
<1>1. Control => ShownInv'
  BY ListShown, SendShown, StreamShown, SaveShown, LeaveShown, OpenShown DEF Control
<1>2. Continuation => ShownInv'
  BY ListedShown, LoadShown, StreamShown, TurnShown, ProbeShown, SavedShown DEF Continuation
<1>3. Gateway => ShownInv'
  BY ReadShown, WriteShown, AcceptShown, FinishShown, TroubleShown DEF Gateway
<1>4. UNCHANGED vars => ShownInv'
  BY DEF vars, ShownInv, ViewOK, Fits, AwayOK, CallsOK, GwOK, SpentOK
<1>. QED
  BY <1>1, <1>2, <1>3, <1>4, TroubleShown, TurnsStep DEF Next

LEMMA SpecShown == Spec => [](ShownInv /\ TurnsOK)
<1>1. Init => ShownInv /\ TurnsOK
  BY InitShown DEF Init, TurnsOK
<1>2. ShownInv /\ TurnsOK /\ [Next]_vars => (ShownInv /\ TurnsOK)'
  BY NextShown
<1>. QED
  BY <1>1, <1>2, PTL DEF Spec

\* What is shown is of the session that is open, whatever answers arrive, in whatever order,
\* and whatever was opened, deleted or left meanwhile (ChatPage.tsx, stillCurrent).
THEOREM OwnTranscriptAlways == Spec => []OwnTranscript
<1>1. ShownInv => OwnTranscript
  <2>. SUFFICES ASSUME ShownInv, NEW j \in DOMAIN view.msgs PROVE view.msgs[j].s = picked
    BY DEF OwnTranscript
  <2>1. view.msgs \in Seq(MessagesOf(picked))
    BY DEF ShownInv, ViewOK, Fits
  <2>2. view.msgs[j] \in MessagesOf(picked)
    BY <2>1
  <2>. QED
    BY <2>2 DEF MessagesOf
<1>. QED
  BY <1>1, SpecShown, PTL

-----------------------------------------------------------------------------
(* Messages are posted once *)

SendsNumbered == \A c \in calls : c.op = "send" => c.turn # 0 /\ c.turn <= spent.turns

OneSend == \A c, d \in calls : c.op = "send" /\ d.op = "send" /\ c.turn = d.turn => c = d

TurnsNumbered == \A t \in turns : t[2] <= spent.turns

OneTurn == \A t, u \in turns : t[2] = u[2] => t = u

RowsNumbered == \A s \in DOMAIN gw : \A j \in DOMAIN gw[s].rows : gw[s].rows[j].turn <= spent.turns

\* A message whose post is under way is in no session yet, and its turn does not run.
NotPosted ==
  \A c \in calls : c.op = "send" /\ c.st = "sent" =>
    /\ \A t \in turns : t[2] # c.turn
    /\ \A s \in DOMAIN gw : \A j \in DOMAIN gw[s].rows : gw[s].rows[j].turn # c.turn

\* A turn that runs has no reply yet.
NotReplied ==
  \A t \in turns : \A s \in DOMAIN gw : \A j \in DOMAIN gw[s].rows :
    gw[s].rows[j].turn = t[2] => gw[s].rows[j].who # "ai"

PostInv ==
  /\ SendsNumbered /\ OneSend /\ TurnsNumbered /\ OneTurn /\ RowsNumbered
  /\ NotPosted /\ NotReplied /\ PostedOnce

\* The post d that is under way after a step is the post c that was before.
From(d, c) == c.op = "send" /\ c.turn = d.turn /\ (d.st = "sent" => c.st = "sent")

SendsKept == \A d \in calls' : d.op = "send" => \E c \in calls : From(d, c)

\* No row is new, or it is one about the agent, of no turn.
RowsKept ==
  \A s \in DOMAIN gw' : \A j \in DOMAIN gw'[s].rows :
    \/ s \in DOMAIN gw /\ j \in DOMAIN gw[s].rows /\ gw'[s].rows[j] = gw[s].rows[j]
    \/ gw'[s].rows[j].turn = 0 /\ gw'[s].rows[j].who = "event"

LEMMA QuietPosts ==
  ASSUME ShownInv, PostInv, SendsKept, OneSend', turns' \subseteq turns, spent'.turns = spent.turns, RowsKept
  PROVE  PostInv'
<1>1. SendsNumbered' /\ TurnsNumbered' /\ OneTurn'
  BY DEF PostInv, SendsNumbered, TurnsNumbered, OneTurn, SendsKept, From
<1>2. spent.turns \in Nat
  BY DEF ShownInv, SpentOK
<1>3. RowsNumbered' /\ NotReplied' /\ PostedOnce'
  BY <1>2 DEF PostInv, RowsKept, RowsNumbered, NotReplied, PostedOnce
<1>4. NotPosted'
  BY <1>1 DEF PostInv, RowsKept, NotPosted, SendsKept, SendsNumbered, From
<1>. QED
  BY <1>1, <1>3, <1>4 DEF PostInv

\* Requests that are no posts come and go.
LEMMA OtherSends ==
  ASSUME PostInv, \A d \in calls' : d \in calls \/ d.op # "send"
  PROVE  SendsKept /\ OneSend'
BY DEF PostInv, OneSend, SendsKept, From

\* One request takes the place of another.
LEMMA BecomeSends ==
  ASSUME PostInv, NEW c \in calls, NEW d, Become(c, d), d.op = "send" => From(d, c)
  PROVE  SendsKept /\ OneSend'
BY DEF PostInv, OneSend, SendsKept, From, Become

LEMMA StateFrom ==
  ASSUME ShownInv, NEW c \in calls, NEW st
  PROVE  /\ st # "sent" /\ c.op = "send" => From([c EXCEPT !.st = st], c)
         /\ c.op = "send" => From([c EXCEPT !.json = st], c)
         /\ [c EXCEPT !.json = st].op = c.op
         /\ [c EXCEPT !.op = "wait", !.st = st].op # "send"
         /\ [c EXCEPT !.op = "probe"].op # "send"
         /\ [c EXCEPT !.st = st].op = c.op
BY DEF ShownInv, CallsOK, CallOK, Fields, From

\* Requests other than posts, as they are sent.
LEMMA SentOther ==
  ASSUME NEW op, NEW s, NEW a, NEW b
  PROVE  /\ Call(op, s).op = op
         /\ [Call(op, s) EXCEPT !.cap = a].op = op
         /\ [Call(op, s) EXCEPT !.by = a].op = op
         /\ [Call(op, s) EXCEPT !.gen = a, !.by = b].op = op
         /\ [Call(op, s) EXCEPT !.by = a, !.prev = b].op = op
<1>1. PICK k : k = Call(op, s)
  OBVIOUS
<1>2. DOMAIN k = Fields /\ k.op = op
  BY <1>1, CallFields
<1>. QED
  BY <1>1, <1>2 DEF Fields

LEMMA FollowOther ==
  ASSUME NEW c, NEW g, NEW by
  PROVE  FollowOf(c, g, by).op = "load"
<1>1. PICK k, s, o, u : k = Call("load", s) /\ s = c.s /\ o = c.orphan /\ u = c.cur
  OBVIOUS
<1>2. DOMAIN k = Fields /\ k.op = "load"
  BY <1>1 DEF Call, Request, Fields, NewSession
<1>. QED
  BY <1>1, <1>2 DEF Fields, FollowOf

LEMMA OpensSends ==
  ASSUME PostInv, NEW s, NEW C, C \subseteq calls, Opens(s, C)
  PROVE  SendsKept /\ OneSend'
<1>1. PICK g, by, l : l = [Call("load", s) EXCEPT !.gen = g, !.by = by] /\ g = view'.gen /\ by = "effect"
  OBVIOUS
<1>2. PICK op : op = "load"
  OBVIOUS
<1>3. l.op = op
  BY <1>1, <1>2, SentOther
<1>4. calls' \subseteq C \cup {l}
  BY <1>1 DEF Opens
<1>. QED
  BY <1>2, <1>3, <1>4, OtherSends

LEMMA DroppedSends ==
  ASSUME PostInv, NEW s, NEW cap, NEW C, C \subseteq calls, NEW v, Dropped(s, cap, C, v)
  PROVE  SendsKept /\ OneSend'
BY OtherSends DEF Dropped

LEMMA ControlSends ==
  ASSUME ShownInv, PostInv,
         \/ PickSession \/ CreateSession \/ DeleteSession \/ Stop \/ SaveAgent \/ SaveModel
         \/ LeaveChat \/ OpenChat
  PROVE  SendsKept /\ OneSend'
<1>1. CASE PickSession
  BY <1>1, OpensSends DEF PickSession
<1>2. CASE CreateSession \/ DeleteSession \/ SaveAgent \/ SaveModel
  <2>1. PICK s, op, p, a, b, k :
          /\ calls' = calls \cup {k} /\ op \in {"create", "delete", "save"}
          /\ \/ k = Call(op, s) \/ k = [Call(op, s) EXCEPT !.cap = p] \/ k = [Call(op, s) EXCEPT !.by = a]
             \/ k = [Call(op, s) EXCEPT !.by = a, !.prev = b]
    <3>1. CASE CreateSession
      BY <3>1 DEF CreateSession
    <3>2. CASE DeleteSession
      <4>1. PICK s : calls' = calls \cup {[Call("delete", s) EXCEPT !.cap = picked]}
        BY <3>2 DEF DeleteSession
      <4>. QED
        BY <4>1
    <3>3. CASE SaveAgent
      BY <3>3 DEF SaveAgent
    <3>4. CASE SaveModel
      BY <3>4 DEF SaveModel
    <3>. QED
      BY <1>2, <3>1, <3>2, <3>3, <3>4
  <2>2. PICK q : q = Call(op, s)
    OBVIOUS
  <2>3. DOMAIN q = Fields /\ q.op = op
    BY <2>2, CallFields
  <2>4. k.op = op
    BY <2>1, <2>2, <2>3 DEF Fields
  <2>. QED
    BY <2>1, <2>4, OtherSends
<1>3. CASE Stop
  <2>1. PICK c \in calls : c.op = "send" /\ Become(c, [c EXCEPT !.st = "abort"])
    BY <1>3 DEF Stop
  <2>2. From([c EXCEPT !.st = "abort"], c)
    BY <2>1, StateFrom
  <2>. QED
    BY <2>1, <2>2, BecomeSends
<1>4. CASE LeaveChat
  <2>1. PICK cur : cur = [c \in calls |-> IF c.orphan THEN c.cur
                                         ELSE c.s = picked /\ (c.gen = view.gen \/ c.op = "save")]
    OBVIOUS
  <2>2. ASSUME NEW d \in calls' PROVE \E c \in calls : d = [c EXCEPT !.orphan = TRUE, !.cur = cur[c]]
    BY <1>4, <2>1, <2>2 DEF LeaveChat
  <2>3. SendsKept
    <3>1. ASSUME NEW d \in calls', d.op = "send" PROVE \E c \in calls : From(d, c)
      <4>1. PICK c \in calls : d = [c EXCEPT !.orphan = TRUE, !.cur = cur[c]]
        BY <2>2
      <4>2. From(d, c)
        BY <3>1, <4>1 DEF ShownInv, CallsOK, CallOK, Fields, From
      <4>. QED
        BY <4>2
    <3>. QED
      BY <3>1 DEF SendsKept
  <2>4. ASSUME NEW d \in calls', NEW e \in calls', d.op = "send", e.op = "send", d.turn = e.turn
        PROVE  d = e
    <3>1. PICK c \in calls : d = [c EXCEPT !.orphan = TRUE, !.cur = cur[c]]
      BY <2>2
    <3>2. PICK b \in calls : e = [b EXCEPT !.orphan = TRUE, !.cur = cur[b]]
      BY <2>2
    <3>3. c.op = "send" /\ b.op = "send" /\ c.turn = b.turn
      BY <2>4, <3>1, <3>2 DEF ShownInv, CallsOK, CallOK, Fields
    <3>4. b = c
      BY <3>3 DEF PostInv, OneSend
    <3>. QED
      BY <3>1, <3>2, <3>4
  <2>. QED
    BY <2>3, <2>4 DEF OneSend
<1>5. CASE OpenChat
  <2>1. PICK s : calls' = calls \cup IF s = NoSession THEN {} ELSE {[Call("load", s) EXCEPT !.gen = 1, !.by = "effect"]}
    BY <1>5 DEF OpenChat
  <2>2. PICK op, l, g, by : op = "load" /\ g = 1 /\ by = "effect" /\ l = [Call(op, s) EXCEPT !.gen = g, !.by = by]
    OBVIOUS
  <2>3. l.op = op /\ calls' \subseteq calls \cup {l}
    BY <2>1, <2>2, SentOther
  <2>. QED
    BY <2>2, <2>3, OtherSends
<1>. QED
  BY <1>1, <1>2, <1>3, <1>4, <1>5

LEMMA ContinuationSends ==
  ASSUME ShownInv, PostInv, Continuation
  PROVE  SendsKept /\ OneSend'
<1>1. CASE Created
  <2>1. PICK c \in calls : Opens(c.s, calls \ {c}) \/ calls' = calls \ {c}
    BY <1>1 DEF Created, Answered
  <2>. QED
    BY <2>1, OpensSends, OtherSends
<1>2. CASE Removed
  <2>1. PICK c \in calls : Dropped(c.s, c.cap, calls \ {c}, view) \/ calls' = calls \ {c}
    BY <1>2 DEF Removed, Answered
  <2>. QED
    BY <2>1, DroppedSends, OtherSends
<1>3. CASE LoadArrives
  <2>1. PICK c \in calls : \/ \E v : Dropped(c.s, c.s, calls \ {c}, v)
                           \/ calls' = calls \ {c}
    BY <1>3 DEF LoadArrives, Answered, Gone
  <2>. QED
    BY <2>1, DroppedSends, OtherSends
<1>4. CASE Delta
  BY <1>4, OtherSends DEF Delta
<1>5. CASE SendArrives
  <2>1. PICK c \in calls : /\ c.op = "send"
                           /\ \/ Become(c, FollowOf(c, c.gen, "send"))
                              \/ Become(c, [c EXCEPT !.op = "wait", !.st = "sent"])
                              \/ calls' = calls \ {c}
    BY <1>5 DEF SendArrives, SendAnswered, Answered, LoadOfTurn, FollowOf, Become
  <2>2. PICK l : l = FollowOf(c, c.gen, "send")
    OBVIOUS
  <2>3. l.op # "send" /\ [c EXCEPT !.op = "wait", !.st = "sent"].op # "send"
    BY <2>2, FollowOther, StateFrom
  <2>. QED
    BY <2>1, <2>2, <2>3, BecomeSends, OtherSends
<1>6. CASE WaitOver
  <2>1. PICK c \in calls : Become(c, [c EXCEPT !.op = "probe"]) \/ calls' = calls \ {c}
    BY <1>6 DEF WaitOver, Retried
  <2>2. [c EXCEPT !.op = "probe"].op # "send"
    BY StateFrom
  <2>. QED
    BY <2>1, <2>2, BecomeSends, OtherSends
<1>7. CASE ProbeArrives
  <2>1. PICK c \in calls : \/ \E v : Dropped(c.s, c.s, calls \ {c}, v)
                           \/ calls' = calls \ {c}
    BY <1>7 DEF ProbeArrives, Answered, Gone
  <2>. QED
    BY <2>1, DroppedSends, OtherSends
<1>8. CASE SaveArrives
  <2>1. PICK c \in calls : \/ Become(c, FollowOf(c, view.gen, "save"))
                           \/ calls' = calls \ {c}
    BY <1>8 DEF SaveArrives, Saved, Answered, FollowOf
  <2>2. PICK l : l = FollowOf(c, view.gen, "save")
    OBVIOUS
  <2>3. l.op # "send"
    BY <2>2, FollowOther
  <2>. QED
    BY <2>1, <2>2, <2>3, BecomeSends, OtherSends
<1>. QED
  BY <1>1, <1>2, <1>3, <1>4, <1>5, <1>6, <1>7, <1>8 DEF Continuation

\* A step that adds no row, starts no turn and posts nothing.
LEMMA ControlPosts ==
  ASSUME ShownInv, PostInv,
         \/ PickSession \/ CreateSession \/ DeleteSession \/ Stop \/ SaveAgent \/ SaveModel
         \/ LeaveChat \/ OpenChat \/ Continuation
  PROVE  PostInv'
<1>1. SendsKept /\ OneSend'
  BY ControlSends, ContinuationSends
<1>2. UNCHANGED <<gw, turns>>
  BY DEF PickSession, CreateSession, DeleteSession, Stop, SaveAgent, SaveModel, LeaveChat, OpenChat, Continuation,
         Created, Removed, LoadArrives, Delta, SendArrives, WaitOver, ProbeArrives, SaveArrives
<1>3. spent'.turns = spent.turns
  BY DEF PickSession, CreateSession, DeleteSession, Stop, SaveAgent, SaveModel, LeaveChat, OpenChat, Continuation,
         Created, Removed, LoadArrives, Delta, SendArrives, WaitOver, ProbeArrives, SaveArrives,
         Act, InOrder, ShownInv, SpentOK
<1>. QED
  BY <1>1, <1>2, <1>3, QuietPosts DEF RowsKept

LEMMA SendPosts ==
  ASSUME ShownInv, TurnsOK, PostInv, Send
  PROVE  PostInv'
<1>1. PICK n \in Nat : n = spent.turns + 1 /\ spent.turns \in Nat
  BY DEF ShownInv, SpentOK
<1>2. PICK k : k = [Call("send", picked) EXCEPT !.turn = n]
  OBVIOUS
<1>3. k.op = "send" /\ k.turn = n
  <2>1. PICK q, op : q = Call(op, picked) /\ op = "send"
    OBVIOUS
  <2>2. DOMAIN q = Fields /\ q.op = op
    BY <2>1, CallFields
  <2>. QED
    BY <1>2, <2>1, <2>2 DEF Fields
<1>4. calls' = calls \cup {k} /\ spent'.turns = n /\ UNCHANGED <<gw, turns>>
  BY <1>1, <1>2 DEF Send, NextTurn, ShownInv, SpentOK
<1>5. \A c \in calls : c.op = "send" => c.turn \in Nat /\ c.turn <= spent.turns
  BY DEF PostInv, SendsNumbered, ShownInv, CallsOK, CallOK
<1>6. SendsNumbered' /\ OneSend'
  BY <1>1, <1>3, <1>4, <1>5 DEF PostInv, SendsNumbered, OneSend
<1>7. \A t \in turns : t[2] \in Nat /\ t[2] <= spent.turns
  BY DEF PostInv, TurnsNumbered, TurnsOK
<1>8. ASSUME NEW s \in DOMAIN gw, NEW j \in DOMAIN gw[s].rows
      PROVE  gw[s].rows[j].turn \in Nat /\ gw[s].rows[j].turn <= spent.turns
  <2>1. gw[s].rows \in Seq(MessagesOf(s))
    BY DEF ShownInv, GwOK
  <2>2. gw[s].rows[j] \in MessagesOf(s)
    BY <2>1
  <2>. QED
    BY <2>2 DEF MessagesOf, PostInv, RowsNumbered
<1>9. TurnsNumbered' /\ OneTurn' /\ RowsNumbered'
  BY <1>1, <1>4, <1>7, <1>8 DEF PostInv, TurnsNumbered, OneTurn, RowsNumbered
<1>10. NotPosted'
  BY <1>1, <1>3, <1>4, <1>7, <1>8 DEF PostInv, NotPosted
<1>11. NotReplied' /\ PostedOnce'
  BY <1>4 DEF PostInv, NotReplied, PostedOnce
<1>. QED
  BY <1>6, <1>9, <1>10, <1>11 DEF PostInv

\* The rows of a gateway to which a message is added.
LEMMA AppendedRows ==
  ASSUME ShownInv, NEW r \in DOMAIN gw, NEW m \in MessagesOf(r), gw' = [gw EXCEPT ![r].rows = Append(@, m)],
         NEW s \in DOMAIN gw', NEW j \in DOMAIN gw'[s].rows
  PROVE  /\ s \in DOMAIN gw
         /\ \/ j \in DOMAIN gw[s].rows /\ gw'[s].rows[j] = gw[s].rows[j]
            \/ s = r /\ j = Len(gw[s].rows) + 1 /\ gw'[s].rows[j] = m
<1>1. s \in DOMAIN gw /\ DOMAIN gw[s] = {"rows", "agent"} /\ gw[s].rows \in Seq(MessagesOf(s))
  BY DEF ShownInv, GwOK
<1>2. CASE s = r
  <2>1. gw'[s].rows = Append(gw[s].rows, m)
    BY <1>1, <1>2
  <2>2. PICK q : q = gw[s].rows
    OBVIOUS
  <2>3. q \in Seq(MessagesOf(s)) /\ m \in MessagesOf(s)
    BY <1>1, <1>2, <2>2
  <2>4. /\ DOMAIN Append(q, m) = 1 .. Len(q) + 1 /\ Len(q) \in Nat /\ DOMAIN q = 1 .. Len(q)
        /\ Append(q, m)[Len(q) + 1] = m
        /\ \A i \in 1 .. Len(q) : Append(q, m)[i] = q[i]
    BY <2>3, AppendIsOf
  <2>. QED
    BY <1>1, <1>2, <2>1, <2>2, <2>4
<1>3. CASE s # r
  BY <1>1, <1>3
<1>. QED
  BY <1>2, <1>3

LEMMA ReadPosts ==
  ASSUME ShownInv, PostInv, ServeRead \/ ServeWrite \/ Cancel \/ Refused \/ Elsewhere
  PROVE  PostInv'
<1>1. spent'.turns = spent.turns /\ turns' \subseteq turns
  BY DEF ServeRead, ServeWrite, Cancel, Refused, Elsewhere, ServedInOrder, Trouble, ShownInv, SpentOK
<1>2. SendsKept /\ OneSend'
  <2>1. CASE ServeRead
    <3>1. PICK c \in calls :
            /\ c.op \in {"load", "probe"}
            /\ Become(c, [c EXCEPT !.st = "gone"]) \/ Become(c, [c EXCEPT !.st = "ok", !.got = gw[c.s]])
      BY <2>1 DEF ServeRead
    <3>2. PICK g : g = gw[c.s]
      OBVIOUS
    <3>3. [c EXCEPT !.st = "gone"].op # "send" /\ [c EXCEPT !.st = "ok", !.got = g].op # "send"
      BY <3>1 DEF ShownInv, CallsOK, CallOK, Fields
    <3>. QED
      BY <3>1, <3>2, <3>3, BecomeSends
  <2>2. CASE ServeWrite
    <3>1. PICK c \in calls :
            /\ c.op \in {"create", "delete", "save"}
            /\ \/ \E st \in {"ok", "gone", "fail"} : Become(c, [c EXCEPT !.st = st])
               \/ \E s : Become(c, [c EXCEPT !.st = "ok", !.s = s])
      BY <2>2 DEF ServeWrite
    <3>2. ASSUME NEW st PROVE [c EXCEPT !.st = st].op # "send"
      BY <3>1 DEF ShownInv, CallsOK, CallOK, Fields
    <3>3. ASSUME NEW s PROVE [c EXCEPT !.st = "ok", !.s = s].op # "send"
      BY <3>1 DEF ShownInv, CallsOK, CallOK, Fields
    <3>. QED
      BY <3>1, <3>2, <3>3, BecomeSends
  <2>3. CASE Cancel \/ Elsewhere
    BY <2>3, OtherSends DEF Cancel, Elsewhere
  <2>4. CASE Refused
    <3>1. PICK c \in calls : Become(c, [c EXCEPT !.st = "fail"])
      BY <2>4 DEF Refused
    <3>2. c.op = "send" => From([c EXCEPT !.st = "fail"], c)
      BY StateFrom
    <3>3. [c EXCEPT !.st = "fail"].op = c.op
      BY StateFrom
    <3>. QED
      BY <3>1, <3>2, <3>3, BecomeSends
  <2>. QED
    BY <2>1, <2>2, <2>3, <2>4
<1>3. RowsKept
  <2>1. CASE UNCHANGED gw
    BY <2>1 DEF RowsKept
  <2>2. CASE \E S : gw' = [s \in DOMAIN gw \ S |-> gw[s]]
    BY <2>2 DEF RowsKept
  <2>3. CASE \E s : s \notin DOMAIN gw /\ gw' = WithSession(s)
    BY <2>3 DEF RowsKept, WithSession, NewSession
  <2>4. CASE \E s \in DOMAIN gw : \E a : gw' = WithAgent(gw, s, a)
    <3>. PICK s \in DOMAIN gw : \E a : gw' = WithAgent(gw, s, a)
      BY <2>4
    <3>1. PICK a : gw' = WithAgent(gw, s, a)
      OBVIOUS
    <3>2. CASE \A r \in DOMAIN gw' : r \in DOMAIN gw /\ gw'[r].rows = gw[r].rows
      BY <3>2 DEF RowsKept
    <3>3. CASE \E m \in MessagesOf(s) : m.turn = 0 /\ m.who = "event" /\ gw'[s].rows = Append(gw[s].rows, m)
      <4>1. PICK m \in MessagesOf(s) : m.turn = 0 /\ m.who = "event" /\ gw'[s].rows = Append(gw[s].rows, m)
        BY <3>3
      <4>2. PICK q : q = gw[s].rows /\ q \in Seq(MessagesOf(s))
        BY DEF ShownInv, GwOK
      <4>3. \A j \in DOMAIN Append(q, m) : (j \in DOMAIN q /\ Append(q, m)[j] = q[j]) \/ Append(q, m)[j] = m
        BY <4>2, AppendIsOf
      <4>4. \A r \in DOMAIN gw' : r \in DOMAIN gw /\ (r # s => gw'[r] = gw[r])
        BY <3>1, AgentRows
      <4>. QED
        BY <4>1, <4>2, <4>3, <4>4 DEF RowsKept
    <3>. QED
      BY <3>1, <3>2, <3>3, AgentRows
  <2>. QED
    BY <2>1, <2>2, <2>3, <2>4 DEF ServeRead, ServeWrite, Cancel, Refused, Elsewhere
<1>. QED
  BY <1>1, <1>2, <1>3, QuietPosts

LEMMA AcceptPosts ==
  ASSUME ShownInv, TurnsOK, PostInv, Accept
  PROVE  PostInv'
<1>1. PICK c \in calls :
        /\ c.op = "send" /\ c.st = "sent" /\ ServedInOrder(c)
        /\ \/ /\ c.s \in DOMAIN gw
              /\ gw' = [gw EXCEPT ![c.s].rows = Append(@, Message(c.s, c.turn, "user", "all"))]
              /\ turns' = turns \cup {<<c.s, c.turn>>}
              /\ Become(c, [c EXCEPT !.st = "run"])
           \/ Become(c, [c EXCEPT !.st = "gone"]) /\ UNCHANGED <<gw, turns>>
           \/ Become(c, [c EXCEPT !.json = TRUE]) /\ UNCHANGED <<gw, turns>>
  BY DEF Accept
<1>2. spent'.turns = spent.turns
  BY <1>1 DEF ServedInOrder, ShownInv, SpentOK
<1>3. SendsKept /\ OneSend'
  BY <1>1, StateFrom, BecomeSends
<1>4. CASE UNCHANGED <<gw, turns>>
  BY <1>2, <1>3, <1>4, QuietPosts DEF RowsKept
<1>5. CASE ~UNCHANGED <<gw, turns>>
  <2>1. PICK d, m, t : d = [c EXCEPT !.st = "run"] /\ m = Message(c.s, c.turn, "user", "all") /\ t = <<c.s, c.turn>>
    OBVIOUS
  <2>2. /\ c.s \in DOMAIN gw /\ gw' = [gw EXCEPT ![c.s].rows = Append(@, m)]
        /\ turns' = turns \cup {t} /\ Become(c, d)
    BY <1>1, <1>5, <2>1
  <2>3. c.turn \in Nat
    BY DEF ShownInv, CallsOK, CallOK
  <2>4. m \in MessagesOf(c.s) /\ m.turn = c.turn /\ m.who = "user" /\ t[2] = c.turn
    BY <2>1, <2>3, MessageIsOf DEF Message, Whose, Texts
  <2>5. ASSUME NEW s \in DOMAIN gw', NEW j \in DOMAIN gw'[s].rows
        PROVE  /\ s \in DOMAIN gw
               /\ \/ j \in DOMAIN gw[s].rows /\ gw'[s].rows[j] = gw[s].rows[j]
                  \/ s = c.s /\ j = Len(gw[s].rows) + 1 /\ gw'[s].rows[j] = m
    BY <2>2, <2>4, AppendedRows
  <2>6. /\ \A u \in turns : u[2] # c.turn
        /\ \A s \in DOMAIN gw : \A j \in DOMAIN gw[s].rows : gw[s].rows[j].turn # c.turn
        /\ c.turn <= spent.turns
    BY <1>1 DEF PostInv, NotPosted, SendsNumbered
  <2>7. SendsNumbered' /\ TurnsNumbered' /\ OneTurn'
    BY <1>2, <1>3, <2>2, <2>4, <2>6 DEF PostInv, SendsNumbered, TurnsNumbered, OneTurn, SendsKept, From
  <2>8. RowsNumbered'
    BY <1>2, <2>4, <2>5, <2>6 DEF PostInv, RowsNumbered
  <2>9. NotReplied'
    BY <2>2, <2>4, <2>5, <2>6 DEF PostInv, NotReplied
  <2>10. PostedOnce'
    BY <2>4, <2>5, <2>6 DEF PostInv, PostedOnce
  <2>11. ASSUME NEW e \in calls', e.op = "send", e.st = "sent"
         PROVE  e \in calls /\ e.turn # c.turn
    <3>1. d.st = "run"
      BY <2>1 DEF ShownInv, CallsOK, CallOK, Fields
    <3>2. e \in calls /\ e # c
      BY <2>2, <2>11, <3>1 DEF Become
    <3>. QED
      BY <1>1, <2>11, <3>2 DEF PostInv, OneSend
  <2>12. NotPosted'
    BY <2>2, <2>4, <2>5, <2>11 DEF PostInv, NotPosted
  <2>. QED
    BY <1>3, <2>7, <2>8, <2>9, <2>10, <2>12 DEF PostInv
<1>. QED
  BY <1>4, <1>5

LEMMA FinishPosts ==
  ASSUME ShownInv, TurnsOK, PostInv, Finish
  PROVE  PostInv'
<1>1. PICK t \in turns :
        /\ turns' = turns \ {t}
        /\ gw' = IF t[1] \in DOMAIN gw THEN [gw EXCEPT ![t[1]].rows = Append(@, Message(t[1], t[2], "ai", "all"))] ELSE gw
        /\ calls' = {IF c.op = "send" /\ c.st = "run" /\ c.turn = t[2] THEN [c EXCEPT !.st = "ok"] ELSE c : c \in calls}
        /\ spent' = [spent EXCEPT !.calm = @ /\ \A c \in calls : c.turn = t[2] => Oldest(c, calls)]
  BY DEF Finish
<1>2. spent'.turns = spent.turns
  BY <1>1 DEF ShownInv, SpentOK
<1>3. SendsKept
  <2>1. ASSUME NEW d \in calls', d.op = "send" PROVE \E c \in calls : From(d, c)
    <3>1. PICK c \in calls : d = c \/ (c.op = "send" /\ d = [c EXCEPT !.st = "ok"])
      BY <1>1, <2>1
    <3>2. From(c, c) \/ c.op # "send"
      BY DEF From
    <3>3. c.op = "send" => From([c EXCEPT !.st = "ok"], c)
      BY StateFrom
    <3>. QED
      BY <2>1, <3>1, <3>2, <3>3
  <2>. QED
    BY <2>1 DEF SendsKept
<1>4. OneSend'
  <2>1. ASSUME NEW d \in calls', NEW e \in calls', d.op = "send", e.op = "send", d.turn = e.turn
        PROVE  d = e
    <3>1. PICK c \in calls : d = IF c.op = "send" /\ c.st = "run" /\ c.turn = t[2] THEN [c EXCEPT !.st = "ok"] ELSE c
      BY <1>1
    <3>2. PICK b \in calls : e = IF b.op = "send" /\ b.st = "run" /\ b.turn = t[2] THEN [b EXCEPT !.st = "ok"] ELSE b
      BY <1>1
    <3>3. c.op = "send" /\ c.turn = d.turn
      BY <2>1, <3>1 DEF ShownInv, CallsOK, CallOK, Fields
    <3>4. b.op = "send" /\ b.turn = e.turn
      BY <2>1, <3>2 DEF ShownInv, CallsOK, CallOK, Fields
    <3>5. b = c
      BY <2>1, <3>3, <3>4 DEF PostInv, OneSend
    <3>. QED
      BY <3>1, <3>2, <3>5
  <2>. QED
    BY <2>1 DEF OneSend
<1>5. CASE t[1] \notin DOMAIN gw
  BY <1>1, <1>2, <1>3, <1>4, <1>5, QuietPosts DEF RowsKept
<1>6. CASE t[1] \in DOMAIN gw
  <2>1. PICK r, m : r = t[1] /\ m = Message(r, t[2], "ai", "all")
    OBVIOUS
  <2>2. r \in DOMAIN gw /\ gw' = [gw EXCEPT ![r].rows = Append(@, m)]
    BY <1>1, <1>6, <2>1
  <2>3. t[2] \in Nat
    BY DEF TurnsOK
  <2>4. m \in MessagesOf(r) /\ m.turn = t[2] /\ m.who = "ai"
    BY <2>1, <2>3, MessageIsOf DEF Message, Whose, Texts
  <2>5. ASSUME NEW s \in DOMAIN gw', NEW j \in DOMAIN gw'[s].rows
        PROVE  /\ s \in DOMAIN gw
               /\ \/ j \in DOMAIN gw[s].rows /\ gw'[s].rows[j] = gw[s].rows[j]
                  \/ s = r /\ j = Len(gw[s].rows) + 1 /\ gw'[s].rows[j] = m
    BY <2>2, <2>4, AppendedRows
  <2>6. /\ \A s \in DOMAIN gw : \A j \in DOMAIN gw[s].rows : gw[s].rows[j].turn = t[2] => gw[s].rows[j].who # "ai"
        /\ \A u \in turns' : u[2] # t[2]
        /\ t[2] <= spent.turns
    BY <1>1 DEF PostInv, NotReplied, OneTurn, TurnsNumbered
  <2>7. SendsNumbered' /\ TurnsNumbered' /\ OneTurn'
    BY <1>1, <1>2, <1>3 DEF PostInv, SendsNumbered, TurnsNumbered, OneTurn, SendsKept, From
  <2>8. RowsNumbered'
    BY <1>2, <2>4, <2>5, <2>6 DEF PostInv, RowsNumbered
  <2>9. NotReplied'
    BY <1>1, <2>4, <2>5, <2>6 DEF PostInv, NotReplied
  <2>10. PostedOnce'
    BY <2>4, <2>5, <2>6 DEF PostInv, PostedOnce
  <2>11. NotPosted'
    BY <1>1, <1>3, <2>4, <2>5 DEF PostInv, NotPosted, SendsKept, From
  <2>. QED
    BY <1>4, <2>7, <2>8, <2>9, <2>10, <2>11 DEF PostInv
<1>. QED
  BY <1>5, <1>6

LEMMA NextPosts ==
  ASSUME ShownInv, TurnsOK, PostInv, [Next]_vars
  PROVE  PostInv'
<1>1. UNCHANGED vars => PostInv'
  BY DEF vars, PostInv, SendsNumbered, OneSend, TurnsNumbered, OneTurn, RowsNumbered, NotPosted, NotReplied, PostedOnce
<1>. QED
  BY <1>1, ControlPosts, SendPosts, AcceptPosts, FinishPosts, ReadPosts DEF Next, Control, Gateway

LEMMA SpecPost == Spec => []PostInv
<1>1. Init => PostInv
  BY DEF Init, PostInv, SendsNumbered, OneSend, TurnsNumbered, OneTurn, RowsNumbered, NotPosted, NotReplied, PostedOnce,
         NewSession
<1>2. (ShownInv /\ TurnsOK) /\ PostInv /\ [Next]_vars => PostInv'
  BY NextPosts
<1>. QED
  BY <1>1, <1>2, SpecShown, PTL DEF Spec

\* A message is posted once, and answered once, whatever becomes of its stream: a stream that
\* is refused, cut, stopped or left is never posted a second time by the page
\* (ChatPage.tsx, send; client.ts, the fallback to one JSON answer).
THEOREM PostedOnceAlways == Spec => []PostedOnce
<1>1. PostInv => PostedOnce
  BY DEF PostInv
<1>. QED
  BY <1>1, SpecPost, PTL

-----------------------------------------------------------------------------
(* The composer is free when nothing is under way *)

Streams == {"idle", "connecting", "streaming", "reconnect", "error"}

\* The page v waits for a turn.
Waiting(v) == v.sending \/ v.stream \notin {"idle", "error"}

\* The requests of the page whose ends put its flags back: a load of the session that is
\* open, a turn of it (from its post to the load that follows), a save of any session.
IsOwnOf(v, c) == ~c.orphan /\ c.gen = v.gen /\ c.s = picked
Loader(v, c) == IsOwnOf(v, c) /\ c.op = "load"
Sender(v, c) == IsOwnOf(v, c) /\ (c.op \in {"send", "wait", "probe"} \/ (c.op = "load" /\ c.by = "send"))
Saver(c) == ~c.orphan /\ (c.op = "save" \/ (c.op = "load" /\ c.by = "save"))

\* Every flag of the page v is held by one of the requests C.
Held(v, C) ==
  /\ v.stream \in Streams
  /\ tab = "away" => ~v.loading /\ ~Waiting(v) /\ ~v.saving
  /\ v.loading => \E c \in C : Loader(v, c)
  /\ Waiting(v) => \E c \in C : Sender(v, c)
  /\ v.saving => \E c \in C : Saver(c)

FreeInv == Held(view, calls)

\* A step that leaves the page open at its session.
LEMMA HeldStep ==
  ASSUME NEW v, NEW C, Held(v, C), view' = v, calls' = C, UNCHANGED <<tab, picked>>
  PROVE  FreeInv'
<1>1. /\ v.stream \in Streams
      /\ tab = "away" => ~v.loading /\ ~Waiting(v) /\ ~v.saving
      /\ v.loading => \E c \in C : Loader(v, c)
      /\ Waiting(v) => \E c \in C : Sender(v, c)
      /\ v.saving => \E c \in C : Saver(c)
  BY DEF Held
<1>2. v.loading => \E c \in C : ~c.orphan /\ c.gen = v.gen /\ c.s = picked' /\ c.op = "load"
  BY <1>1 DEF Loader, IsOwnOf
<1>3. Waiting(v) => \E c \in C : /\ ~c.orphan /\ c.gen = v.gen /\ c.s = picked'
                                 /\ c.op \in {"send", "wait", "probe"} \/ (c.op = "load" /\ c.by = "send")
  BY <1>1 DEF Sender, IsOwnOf
<1>. QED
  BY <1>1, <1>2, <1>3 DEF FreeInv, Held, Loader, Sender, IsOwnOf, Waiting, Saver

\* The page v after a step, of the same opening as before, with the requests C: of those there
\* were c alone may have ended, and a flag it held is put back or held by another one.
LEMMA Released ==
  ASSUME FreeInv, NEW c, NEW C, calls \ {c} \subseteq C,
         NEW v, v.gen = view.gen, v.stream \in Streams,
         v.loading => (view.loading /\ ~Loader(view, c)) \/ \E d \in C : Loader(view, d),
         Waiting(v) => (Waiting(view) /\ ~Sender(view, c)) \/ \E d \in C : Sender(view, d),
         v.saving => (view.saving /\ ~Saver(c)) \/ \E d \in C : Saver(d),
         tab = "away" => ~v.loading /\ ~Waiting(v) /\ ~v.saving
  PROVE  Held(v, C)
<1>1. /\ view.loading => \E d \in calls : Loader(view, d)
      /\ Waiting(view) => \E d \in calls : Sender(view, d)
      /\ view.saving => \E d \in calls : Saver(d)
  BY DEF FreeInv, Held
<1>2. v.loading => \E d \in C : Loader(view, d)
  BY <1>1
<1>3. Waiting(v) => \E d \in C : Sender(view, d)
  BY <1>1
<1>4. v.saving => \E d \in C : Saver(d)
  BY <1>1
<1>5. \A d : (Loader(view, d) => Loader(v, d)) /\ (Sender(view, d) => Sender(v, d))
  BY DEF Loader, Sender, IsOwnOf
<1>. QED
  BY <1>2, <1>3, <1>4, <1>5 DEF Held

\* A request that holds no flag.
Idle(c) == ~Loader(view, c) /\ ~Sender(view, c) /\ ~Saver(c)

LEMMA IdleEnds ==
  ASSUME FreeInv, NEW c, Idle(c)
  PROVE  Held(view, calls \ {c})
<1>1. /\ view.stream \in Streams
      /\ tab = "away" => ~view.loading /\ ~Waiting(view) /\ ~view.saving
  BY DEF FreeInv, Held
<1>2. ~Loader(view, c) /\ ~Sender(view, c) /\ ~Saver(c)
  BY DEF Idle
<1>. QED
  BY <1>1, <1>2, Released

LEMMA OrphanIdle == ASSUME NEW c, c.orphan PROVE Idle(c)
BY DEF Idle, Loader, Sender, Saver, IsOwnOf

\* More requests, or other states of them: all that held a flag are there.
Alike(c, d) == d.op = c.op /\ d.s = c.s /\ d.gen = c.gen /\ d.by = c.by /\ d.orphan = c.orphan

LEMMA StatesFree ==
  ASSUME FreeInv, UNCHANGED <<tab, picked, view>>,
         \A c \in calls : Idle(c) \/ \E d \in calls' : Alike(c, d)
  PROVE  FreeInv'
<1>1. \A c, d : Alike(c, d) => /\ Loader(view, c) => Loader(view, d)
                               /\ Sender(view, c) => Sender(view, d)
                               /\ Saver(c) => Saver(d)
  BY DEF Alike, Loader, Sender, Saver, IsOwnOf
<1>2. \A c \in calls : ~Idle(c) => \E d \in calls' : Alike(c, d)
  OBVIOUS
<1>3. PICK C : C = calls'
  OBVIOUS
<1>4. \A c \in calls : /\ Loader(view, c) => \E d \in C : Loader(view, d)
                       /\ Sender(view, c) => \E d \in C : Sender(view, d)
                       /\ Saver(c) => \E d \in C : Saver(d)
  BY <1>1, <1>2, <1>3 DEF Idle
<1>5. Held(view, C)
  BY <1>4 DEF FreeInv, Held
<1>. QED
  BY <1>3, <1>5, HeldStep

LEMMA BecomeFree ==
  ASSUME FreeInv, NEW c \in calls, NEW d, Become(c, d), Idle(c) \/ Alike(c, d), UNCHANGED <<tab, picked, view>>
  PROVE  FreeInv'
<1>1. ASSUME NEW e \in calls PROVE Idle(e) \/ \E f \in calls' : Alike(e, f)
  <2>1. calls' = (calls \ {c}) \cup {d}
    BY DEF Become
  <2>2. CASE e = c
    BY <2>1, <2>2
  <2>3. CASE e # c
    <3>1. Alike(e, e)
      BY DEF Alike
    <3>. QED
      BY <2>1, <2>3, <3>1
  <2>. QED
    BY <2>2, <2>3
<1>. QED
  BY <1>1, StatesFree

-----------------------------------------------------------------------------
(* Sessions that are opened, left or dropped *)

\* The load that opens a session, and the one that follows another request.
OpeningLoad(s, g) == [Call("load", s) EXCEPT !.gen = g, !.by = "effect"]

LEMMA LoadFields ==
  ASSUME NEW s, NEW g
  PROVE  \E l : l = OpeningLoad(s, g) /\ l.op = "load" /\ l.s = s /\ l.gen = g /\ ~l.orphan
<1>1. PICK k, l, by : k = Call("load", s) /\ l = [k EXCEPT !.gen = g, !.by = by] /\ by = "effect"
  OBVIOUS
<1>2. DOMAIN k = Fields /\ k.op = "load" /\ k.s = s /\ ~k.orphan
  BY <1>1 DEF Call, Request, Fields
<1>3. l = OpeningLoad(s, g)
  BY <1>1 DEF OpeningLoad
<1>4. l.op = "load" /\ l.s = s /\ l.gen = g /\ ~l.orphan
  BY <1>1, <1>2 DEF Fields
<1>. QED
  BY <1>3, <1>4

LEMMA FollowFields ==
  ASSUME NEW c, NEW g, NEW by
  PROVE  /\ FollowOf(c, g, by).op = "load" /\ FollowOf(c, g, by).s = c.s /\ FollowOf(c, g, by).gen = g
         /\ FollowOf(c, g, by).by = by /\ FollowOf(c, g, by).orphan = c.orphan
<1>1. PICK k, s, o, u : k = Call("load", s) /\ s = c.s /\ o = c.orphan /\ u = c.cur
  OBVIOUS
<1>2. DOMAIN k = Fields /\ k.op = "load" /\ k.s = s
  BY <1>1 DEF Call, Request, Fields
<1>3. PICK l : l = FollowOf(c, g, by)
  OBVIOUS
<1>4. l = [k EXCEPT !.gen = g, !.by = by, !.orphan = o, !.cur = u]
  BY <1>1, <1>3 DEF FollowOf
<1>5. l.op = "load" /\ l.s = s /\ l.gen = g /\ l.by = by /\ l.orphan = o
  BY <1>2, <1>4 DEF Fields
<1>. QED
  BY <1>1, <1>3, <1>5

\* A page that was left waits for nothing, whatever requests there are.
LEMMA AwayFree ==
  ASSUME NEW v, NEW C, Held(v, C), tab = "away", view' = v, UNCHANGED tab
  PROVE  FreeInv'
BY DEF Held, FreeInv, Waiting

LEMMA OpenedFields ==
  ASSUME NEW v, NEW s
  PROVE  /\ Opened(v, s).loading = (s # NoSession) /\ Opened(v, s).saving = v.saving
         /\ Opened(v, s).sending = FALSE /\ Opened(v, s).stream = "idle"
BY DEF Opened, Blank

LEMMA OpensFree ==
  ASSUME ShownInv, FreeInv, NEW s, NEW C, C \subseteq calls, \A c \in calls : Idle(c) \/ c \in C,
         Opens(s, C), UNCHANGED tab
  PROVE  FreeInv'
<1>1. Held(view, C)
  BY DEF FreeInv, Held, Idle
<1>2. CASE s = picked
  BY <1>1, <1>2, HeldStep DEF Opens
<1>3. CASE s # picked /\ tab # "chat"
  <2>1. view' = view /\ tab = "away"
    BY <1>3 DEF Opens, ShownInv, AwayOK
  <2>. QED
    BY <1>1, <2>1, AwayFree
<1>4. CASE s # picked /\ tab = "chat"
  <2>1. PICK v, g : v = Opened(view, s) /\ g = v.gen
    OBVIOUS
  <2>2. PICK l : l = OpeningLoad(s, g) /\ l.op = "load" /\ l.s = s /\ l.gen = g /\ ~l.orphan
    BY LoadFields
  <2>3. /\ view' = v /\ picked' = s /\ tab' = "chat"
        /\ calls' = C \cup IF s = NoSession THEN {} ELSE {l}
    BY <1>4, <2>1, <2>2 DEF Opens, OpeningLoad
  <2>4. v.loading = (s # NoSession) /\ v.saving = view.saving /\ v.sending = FALSE /\ v.stream = "idle"
    BY <2>1, OpenedFields
  <2>5. view'.stream \in Streams /\ ~Waiting(view)'
    BY <2>3, <2>4 DEF Streams, Waiting
  <2>6. ASSUME view'.loading PROVE \E c \in calls' : Loader(view, c)'
    <3>1. l \in calls'
      BY <2>3, <2>4, <2>6
    <3>. QED
      BY <2>1, <2>2, <2>3, <3>1 DEF Loader, IsOwnOf
  <2>7. ASSUME view'.saving PROVE \E c \in calls' : Saver(c)
    BY <1>1, <2>3, <2>4, <2>7 DEF Held
  <2>. QED
    BY <2>3, <2>5, <2>6, <2>7 DEF FreeInv, Held, Saver
<1>. QED
  BY <1>2, <1>3, <1>4

LEMMA DroppedFree ==
  ASSUME ShownInv, NEW s, NEW cap, NEW C, NEW v, Held(v, C), Dropped(s, cap, C, v), UNCHANGED tab
  PROVE  FreeInv'
<1>1. CASE s # cap \/ picked = NoSession
  <2>1. view' = v /\ calls' = C /\ UNCHANGED picked
    BY <1>1 DEF Dropped
  <2>. QED
    BY <2>1, HeldStep
<1>2. CASE s = cap /\ picked # NoSession /\ tab # "chat"
  <2>1. view' = v /\ tab = "away"
    BY <1>2 DEF Dropped, ShownInv, AwayOK
  <2>. QED
    BY <2>1, AwayFree
<1>3. CASE s = cap /\ picked # NoSession /\ tab = "chat"
  <2>1. view' = Opened(v, NoSession) /\ calls' = C
    BY <1>3 DEF Dropped
  <2>2. view'.loading = FALSE /\ view'.saving = v.saving /\ view'.sending = FALSE /\ view'.stream = "idle"
    BY <2>1, OpenedFields
  <2>3. view'.saving => \E c \in calls' : Saver(c)
    BY <2>1, <2>2 DEF Held
  <2>. QED
    BY <1>3, <2>2, <2>3 DEF FreeInv, Held, Waiting, Streams, Saver
<1>. QED
  BY <1>1, <1>2, <1>3

LEMMA ListFree ==
  ASSUME ShownInv, FreeInv, PickSession \/ CreateSession \/ DeleteSession
  PROVE  FreeInv'
<1>1. CASE PickSession
  <2>1. PICK s : Opens(s, calls) /\ UNCHANGED tab
    BY <1>1 DEF PickSession
  <2>. QED
    BY <2>1, OpensFree
<1>2. CASE CreateSession \/ DeleteSession
  <2>1. calls \subseteq calls' /\ UNCHANGED <<tab, picked, view>>
    BY <1>2 DEF CreateSession, DeleteSession
  <2>2. \A c : Alike(c, c)
    BY DEF Alike
  <2>. QED
    BY <2>1, <2>2, StatesFree
<1>. QED
  BY <1>1, <1>2

LEMMA ListedFree ==
  ASSUME ShownInv, FreeInv, Created \/ Removed
  PROVE  FreeInv'
<1>1. PICK c \in calls : /\ c.op \in {"create", "delete"} /\ UNCHANGED tab
                         /\ \/ Opens(c.s, calls \ {c})
                            \/ Dropped(c.s, c.cap, calls \ {c}, view)
                            \/ calls' = calls \ {c} /\ UNCHANGED <<picked, view>>
  BY DEF Created, Removed, Answered
<1>2. Idle(c)
  BY <1>1 DEF Idle, Loader, Sender, Saver
<1>3. Held(view, calls \ {c})
  BY <1>2, IdleEnds
<1>4. CASE Opens(c.s, calls \ {c})
  <2>1. \A d \in calls : Idle(d) \/ d \in calls \ {c}
    BY <1>2
  <2>. QED
    BY <1>1, <1>4, <2>1, OpensFree
<1>5. CASE Dropped(c.s, c.cap, calls \ {c}, view)
  BY <1>1, <1>3, <1>5, DroppedFree
<1>6. CASE calls' = calls \ {c} /\ UNCHANGED <<picked, view>>
  BY <1>1, <1>3, <1>6, HeldStep
<1>. QED
  BY <1>1, <1>4, <1>5, <1>6

\* A page that is left waits for nothing; one that is opened waits for a load.
LEMMA TabFree ==
  ASSUME ShownInv, FreeInv, LeaveChat \/ OpenChat
  PROVE  FreeInv'
<1>1. CASE LeaveChat
  <2>1. view' = Blank(0)
    BY <1>1 DEF LeaveChat
  <2>. QED
    BY <2>1 DEF FreeInv, Held, Waiting, Blank, Streams
<1>2. CASE OpenChat
  <2>1. PICK s : /\ picked' = s /\ tab' = "chat"
                 /\ view' = [Blank(1) EXCEPT !.loading = s # NoSession]
                 /\ calls' = calls \cup IF s = NoSession THEN {} ELSE {[Call("load", s) EXCEPT !.gen = 1, !.by = "effect"]}
    BY <1>2 DEF OpenChat
  <2>2. PICK g : g = 1
    OBVIOUS
  <2>3. PICK l : l = OpeningLoad(s, g) /\ l.op = "load" /\ l.s = s /\ l.gen = g /\ ~l.orphan
    BY LoadFields
  <2>4. /\ view'.loading = (s # NoSession) /\ view'.saving = FALSE /\ view'.sending = FALSE
        /\ view'.stream = "idle" /\ view'.gen = 1
    BY <2>1 DEF Blank
  <2>5. ASSUME view'.loading PROVE \E c \in calls' : Loader(view, c)'
    <3>1. l \in calls'
      BY <2>1, <2>3, <2>2, <2>4, <2>5 DEF OpeningLoad
    <3>. QED
      BY <2>1, <2>2, <2>3, <2>4, <3>1 DEF Loader, IsOwnOf
  <2>. QED
    BY <2>1, <2>4, <2>5 DEF FreeInv, Held, Waiting, Streams
<1>. QED
  BY <1>1, <1>2

-----------------------------------------------------------------------------
(* The ends of the requests of the page *)

\* The end of a load puts back the flags it held.
LEMMA EndsHeld ==
  ASSUME FreeInv, NEW c, c.op = "load", ~c.orphan, tab # "away",
         NEW w, DOMAIN w = ViewFields, w.gen = view.gen, w.loading = view.loading, w.sending = view.sending,
         w.stream = view.stream, w.saving = view.saving
  PROVE  Held(Ends(w, c), calls \ {c})
<1>1. PICK x : x = IF c.by = "save" THEN [w EXCEPT !.saving = FALSE] ELSE w
  OBVIOUS
<1>2. /\ DOMAIN x = ViewFields /\ x.gen = view.gen /\ x.loading = view.loading /\ x.sending = view.sending
      /\ x.stream = view.stream /\ x.saving = (IF c.by = "save" THEN FALSE ELSE view.saving)
  BY <1>1 DEF ViewFields
<1>3. PICK v : v = Ends(w, c)
  OBVIOUS
<1>4. v = IF ~StillCurrent(c) THEN x
          ELSE IF c.by = "send"
          THEN [x EXCEPT !.sending = FALSE, !.loading = FALSE,
                         !.stream = IF @ \in {"connecting", "streaming", "reconnect"} THEN "idle" ELSE @]
          ELSE [x EXCEPT !.loading = FALSE]
  BY <1>1, <1>3, Zenon DEF Ends
<1>5. StillCurrent(c) = (c.gen = view.gen /\ c.s = picked)
  BY DEF StillCurrent
<1>6. view.stream \in Streams
  BY DEF FreeInv, Held
<1>7. CASE ~StillCurrent(c)
  <2>1. v = x /\ ~Loader(view, c) /\ ~Sender(view, c)
    BY <1>4, <1>5, <1>7 DEF Loader, Sender, IsOwnOf
  <2>2. v.saving => view.saving /\ ~Saver(c)
    BY <1>2, <2>1 DEF Saver
  <2>3. Waiting(v) => Waiting(view)
    BY <1>2, <2>1 DEF Waiting
  <2>. QED
    BY <1>2, <1>3, <1>6, <2>1, <2>2, <2>3, Released
<1>8. CASE StillCurrent(c) /\ c.by = "send"
  <2>1. v = [x EXCEPT !.sending = FALSE, !.loading = FALSE,
                      !.stream = IF @ \in {"connecting", "streaming", "reconnect"} THEN "idle" ELSE @]
    BY <1>4, <1>8
  <2>2. /\ v.gen = view.gen /\ v.loading = FALSE /\ v.sending = FALSE /\ v.saving = view.saving
        /\ v.stream \in {"idle", "error"}
    BY <1>2, <1>6, <1>8, <2>1 DEF ViewFields, Streams
  <2>3. ~Saver(c) /\ ~Waiting(v) /\ v.stream \in Streams
    BY <1>8, <2>2 DEF Saver, Waiting, Streams
  <2>. QED
    BY <1>3, <2>2, <2>3, Released
<1>9. CASE StillCurrent(c) /\ c.by # "send"
  <2>1. v = [x EXCEPT !.loading = FALSE]
    BY <1>4, <1>9
  <2>2. /\ v.gen = view.gen /\ v.loading = FALSE /\ v.sending = view.sending /\ v.stream = view.stream
        /\ v.saving = x.saving
    BY <1>2, <2>1 DEF ViewFields
  <2>3. v.saving => view.saving /\ ~Saver(c)
    BY <1>2, <2>2 DEF Saver
  <2>4. ~Sender(view, c) /\ (Waiting(v) => Waiting(view))
    BY <1>9, <2>2 DEF Sender, Waiting
  <2>. QED
    BY <1>3, <1>6, <2>2, <2>3, <2>4, Released
<1>. QED
  BY <1>7, <1>8, <1>9

LEMMA OwnIsHere == ASSUME ShownInv, NEW c \in calls, ~c.orphan PROVE tab # "away"
BY DEF ShownInv, AwayOK

LEMMA LoadFree ==
  ASSUME ShownInv, FreeInv, LoadArrives
  PROVE  FreeInv'
<1>1. PICK c \in calls :
        /\ c.op = "load" /\ UNCHANGED tab
        /\ IF StillCurrent(c) /\ c.st = "gone" THEN Gone(c, Ends([view EXCEPT !.err = "fail"], c))
           ELSE /\ view' = Page(c, Ends(IF ~StillCurrent(c) THEN view
                                        ELSE IF c.st # "ok" THEN [view EXCEPT !.err = "fail"]
                                        ELSE [view EXCEPT !.msgs = c.got.rows, !.agent = c.got.agent, !.err = "none"], c))
                /\ calls' = calls \ {c} /\ UNCHANGED picked
  BY DEF LoadArrives, Answered
<1>2. PICK w : w = IF ~StillCurrent(c) THEN view
                   ELSE IF c.st # "ok" THEN [view EXCEPT !.err = "fail"]
                   ELSE [view EXCEPT !.msgs = c.got.rows, !.agent = c.got.agent, !.err = "none"]
  OBVIOUS
<1>3. /\ DOMAIN w = ViewFields /\ w.gen = view.gen /\ w.loading = view.loading /\ w.sending = view.sending
      /\ w.stream = view.stream /\ w.saving = view.saving
  BY <1>2 DEF ShownInv, ViewOK, Fits, ViewFields
<1>4. PICK v : v = Page(c, Ends(w, c))
  OBVIOUS
<1>5. Held(v, calls \ {c})
  <2>1. CASE c.orphan
    <3>1. v = view
      BY <1>4, <2>1 DEF Page
    <3>. QED
      BY <2>1, <3>1, OrphanIdle, IdleEnds
  <2>2. CASE ~c.orphan
    <3>1. v = Ends(w, c)
      BY <1>4, <2>2 DEF Page
    <3>2. Held(Ends(w, c), calls \ {c})
      BY <1>1, <1>3, <2>2, EndsHeld, OwnIsHere
    <3>. QED
      BY <3>1, <3>2
  <2>. QED
    BY <2>1, <2>2
<1>6. CASE StillCurrent(c) /\ c.st = "gone"
  <2>1. w = [view EXCEPT !.err = "fail"]
    BY <1>2, <1>6
  <2>2. Dropped(c.s, c.s, calls \ {c}, v)
    BY <1>1, <1>4, <1>6, <2>1 DEF Gone
  <2>. QED
    BY <1>1, <1>5, <2>2, DroppedFree
<1>7. CASE ~(StillCurrent(c) /\ c.st = "gone")
  <2>1. view' = v /\ calls' = calls \ {c} /\ UNCHANGED <<tab, picked>>
    BY <1>1, <1>2, <1>4, <1>7
  <2>. QED
    BY <1>5, <2>1, HeldStep
<1>. QED
  BY <1>6, <1>7

LEMMA SendFree ==
  ASSUME ShownInv, FreeInv, Send
  PROVE  FreeInv'
<1>1. PICK k, o, n : k = [o EXCEPT !.turn = n] /\ o = Call("send", picked) /\ n = NextTurn
  OBVIOUS
<1>2. /\ DOMAIN o = Fields /\ o.op = "send" /\ o.s = picked /\ ~o.orphan /\ o.gen = view.gen
  BY <1>1 DEF Call, Request, Fields
<1>3. k.op = "send" /\ k.s = picked /\ ~k.orphan /\ k.gen = view.gen
  BY <1>1, <1>2 DEF Fields
<1>4. PICK v, C : v = view' /\ C = calls'
  OBVIOUS
<1>5. C = calls \cup {k} /\ UNCHANGED <<tab, picked>> /\ tab # "away"
  BY <1>1, <1>4 DEF Send
<1>6. PICK q : v = [view EXCEPT !.sending = TRUE, !.stream = "connecting", !.err = "none", !.ctrl = n, !.msgs = q]
  BY <1>1, <1>4 DEF Send
<1>7. v.gen = view.gen /\ v.loading = view.loading /\ v.saving = view.saving /\ v.stream \in Streams
  BY <1>6 DEF ShownInv, ViewOK, Fits, ViewFields, Streams
<1>8. Sender(view, k) /\ k \in C /\ ~Loader(view, k) /\ ~Saver(k)
  BY <1>3, <1>5 DEF Sender, IsOwnOf, Loader, Saver
<1>9. Held(v, C)
  BY <1>5, <1>7, <1>8, Released
<1>. QED
  BY <1>4, <1>5, <1>9, HeldStep

LEMMA StreamFree ==
  ASSUME ShownInv, FreeInv, Delta \/ Stop
  PROVE  FreeInv'
<1>1. CASE Delta
  <2>1. PICK c \in calls : /\ c.op = "send" /\ StillCurrent(c) /\ ~c.orphan
                           /\ view' = [Heard(view, c) EXCEPT !.stream = "streaming"]
                           /\ UNCHANGED <<tab, picked, calls>>
    BY <1>1 DEF Delta
  <2>2. Sender(view, c) /\ tab # "away"
    BY <2>1, OwnIsHere DEF Sender, IsOwnOf, StillCurrent
  <2>3. PICK q : Heard(view, c) = [view EXCEPT !.msgs = q]
    BY DEF Heard
  <2>4. PICK v : v = view'
    OBVIOUS
  <2>5. /\ v.gen = view.gen /\ v.loading = view.loading /\ v.saving = view.saving /\ v.stream \in Streams
    BY <2>1, <2>3, <2>4 DEF ShownInv, ViewOK, Fits, ViewFields, Streams
  <2>7. /\ view.loading => \E d \in calls : Loader(view, d)
        /\ view.saving => \E d \in calls : Saver(d)
    BY DEF FreeInv, Held
  <2>8. Held(v, calls)
    BY <2>1, <2>2, <2>5, <2>7, Released
  <2>. QED
    BY <2>1, <2>4, <2>8, HeldStep
<1>2. CASE Stop
  <2>1. PICK c \in calls : Become(c, [c EXCEPT !.st = "abort"])
    BY <1>2 DEF Stop
  <2>2. PICK d : d = [c EXCEPT !.st = "abort"]
    OBVIOUS
  <2>3. Alike(c, d)
    BY <2>2 DEF Alike, ShownInv, CallsOK, CallOK, Fields
  <2>4. Become(c, d) /\ UNCHANGED <<tab, picked, view>>
    BY <1>2, <2>1, <2>2 DEF Stop
  <2>. QED
    BY <2>3, <2>4, BecomeFree
<1>. QED
  BY <1>1, <1>2

\* What follows the stream of a turn.
LEMMA TurnFree ==
  ASSUME ShownInv, FreeInv, SendArrives
  PROVE  FreeInv'
<1>1. PICK c \in calls : c.op = "send" /\ SendAnswered(c) /\ UNCHANGED <<tab, picked>>
  BY DEF SendArrives, Answered
<1>2. ~Loader(view, c) /\ ~Saver(c)
  BY <1>1 DEF Loader, Saver
<1>3. PICK v, C : v = view' /\ C = calls'
  OBVIOUS
<1>4. DOMAIN view = ViewFields /\ DOMAIN c = Fields
  BY DEF ShownInv, ViewOK, Fits, CallsOK, CallOK
<1>5. view.stream \in Streams
  BY DEF FreeInv, Held
<1>6. CASE ~StillCurrent(c)
  <2>1. v = view /\ C = calls \ {c}
    BY <1>1, <1>3, <1>6 DEF SendAnswered
  <2>2. Idle(c)
    BY <1>2, <1>6 DEF Idle, Sender, IsOwnOf, StillCurrent
  <2>. QED
    BY <1>1, <1>3, <2>1, <2>2, IdleEnds, HeldStep
<1>7. CASE StillCurrent(c) /\ c.orphan
  <2>1. v = view /\ calls \ {c} \subseteq C
    BY <1>1, <1>3, <1>7 DEF SendAnswered, Page, Become
  <2>2. Idle(c)
    BY <1>7, OrphanIdle
  <2>3. tab = "away" => ~view.loading /\ ~Waiting(view) /\ ~view.saving
    BY DEF FreeInv, Held
  <2>4. ~Loader(view, c) /\ ~Sender(view, c) /\ ~Saver(c)
    BY <2>2 DEF Idle
  <2>5. Held(v, C)
    BY <1>5, <2>1, <2>3, <2>4, Released
  <2>. QED
    BY <1>1, <1>3, <2>5, HeldStep
<1>8. CASE StillCurrent(c) /\ ~c.orphan
  <2>1. c.gen = view.gen /\ c.s = picked /\ tab # "away"
    BY <1>8, OwnIsHere DEF StillCurrent
  <2>2. CASE c.st = "ok"
    <3>1. PICK l : l = FollowOf(c, c.gen, "send")
      OBVIOUS
    <3>2. C = (calls \ {c}) \cup {l}
      BY <1>1, <1>3, <1>8, <2>2, <3>1 DEF SendAnswered, LoadOfTurn, FollowOf
    <3>3. Sender(view, l) /\ l \in C
      BY <1>8, <2>1, <3>1, <3>2, FollowFields DEF Sender, IsOwnOf
    <3>4. PICK w : w = IF c.json THEN Heard(view, c) ELSE view
      OBVIOUS
    <3>5. v = [w EXCEPT !.stream = "idle"]
      BY <1>1, <1>3, <1>8, <2>2, <3>4 DEF SendAnswered, Page
    <3>6. DOMAIN w = ViewFields /\ w.gen = view.gen /\ w.loading = view.loading /\ w.saving = view.saving
      BY <1>4, <3>4 DEF Heard, ViewFields
    <3>7. v.gen = view.gen /\ v.loading = view.loading /\ v.saving = view.saving /\ v.stream \in Streams
      BY <3>5, <3>6 DEF ViewFields, Streams
    <3>8. Held(v, C)
      BY <1>2, <2>1, <3>2, <3>3, <3>7, Released
    <3>. QED
      BY <1>1, <1>3, <3>8, HeldStep
  <2>3. CASE c.st = "abort"
    <3>1. v = AbortedView(view, c) /\ C = calls \ {c}
      BY <1>1, <1>3, <1>8, <2>3 DEF SendAnswered, Page
    <3>2. /\ v.gen = view.gen /\ v.loading = view.loading /\ v.saving = view.saving
          /\ v.stream = "idle" /\ v.sending = FALSE
      BY <1>4, <3>1 DEF AbortedView, ViewFields
    <3>3. ~Waiting(v) /\ v.stream \in Streams
      BY <3>2 DEF Waiting, Streams
    <3>4. Held(v, C)
      BY <1>2, <2>1, <3>1, <3>2, <3>3, Released
    <3>. QED
      BY <1>1, <1>3, <3>4, HeldStep
  <2>4. CASE c.st \in {"fail", "gone"}
    <3>1. PICK d : d = [c EXCEPT !.op = "wait", !.st = "sent"]
      OBVIOUS
    <3>2. v = FailedView(view, c) /\ C = (calls \ {c}) \cup {d}
      BY <1>1, <1>3, <1>8, <2>4, <3>1 DEF SendAnswered, Page, Become
    <3>3. d.op = "wait" /\ d.s = c.s /\ d.gen = c.gen /\ d.orphan = c.orphan
      BY <1>4, <3>1 DEF Fields
    <3>4. Sender(view, d) /\ d \in C
      BY <1>8, <2>1, <3>2, <3>3 DEF Sender, IsOwnOf
    <3>5. v.gen = view.gen /\ v.loading = view.loading /\ v.saving = view.saving /\ v.stream \in Streams
      BY <1>4, <3>2 DEF FailedView, ViewFields, Streams
    <3>6. Held(v, C)
      BY <1>2, <2>1, <3>2, <3>4, <3>5, Released
    <3>. QED
      BY <1>1, <1>3, <3>6, HeldStep
  <2>. QED
    BY <1>1, <1>8, <2>2, <2>3, <2>4 DEF SendAnswered
<1>. QED
  BY <1>6, <1>7, <1>8

LEMMA ProbeFree ==
  ASSUME ShownInv, FreeInv, WaitOver \/ ProbeArrives
  PROVE  FreeInv'
<1>1. CASE WaitOver
  <2>1. PICK c \in calls : /\ c.op = "wait" /\ UNCHANGED <<tab, picked, view>>
                           /\ IF StillCurrent(c) THEN Become(c, [c EXCEPT !.op = "probe"]) ELSE calls' = calls \ {c}
    BY <1>1 DEF WaitOver, Retried
  <2>2. ~Loader(view, c) /\ ~Saver(c) /\ DOMAIN c = Fields
    BY <2>1 DEF Loader, Saver, ShownInv, CallsOK, CallOK
  <2>3. CASE StillCurrent(c)
    <3>1. PICK d, C : d = [c EXCEPT !.op = "probe"] /\ C = calls'
      OBVIOUS
    <3>2. C = (calls \ {c}) \cup {d}
      BY <2>1, <2>3, <3>1 DEF Become
    <3>3. d.op = "probe" /\ d.s = c.s /\ d.gen = c.gen /\ d.orphan = c.orphan
      BY <2>2, <3>1 DEF Fields
    <3>4. Sender(view, c) => Sender(view, d)
      BY <3>3 DEF Sender, IsOwnOf
    <3>5. /\ view.stream \in Streams
          /\ tab = "away" => ~view.loading /\ ~Waiting(view) /\ ~view.saving
      BY DEF FreeInv, Held
    <3>6. Waiting(view) => (Waiting(view) /\ ~Sender(view, c)) \/ \E e \in C : Sender(view, e)
      BY <3>2, <3>4
    <3>7. Held(view, C)
      BY <2>2, <3>2, <3>5, <3>6, Released
    <3>. QED
      BY <2>1, <3>1, <3>7, HeldStep
  <2>4. CASE ~StillCurrent(c)
    <3>1. Idle(c)
      BY <2>2, <2>4 DEF Idle, Sender, IsOwnOf, StillCurrent
    <3>. QED
      BY <2>1, <2>4, <3>1, IdleEnds, HeldStep
  <2>. QED
    BY <2>3, <2>4
<1>2. CASE ProbeArrives
  <2>1. PICK w : w = [view EXCEPT !.err = "fail", !.stream = "error", !.sending = FALSE]
    OBVIOUS
  <2>2. PICK c \in calls :
          /\ c.op = "probe" /\ UNCHANGED tab
          /\ IF StillCurrent(c) /\ c.st = "gone" THEN Gone(c, w)
             ELSE /\ view' = IF StillCurrent(c) THEN Page(c, w) ELSE view
                  /\ calls' = calls \ {c} /\ UNCHANGED picked
    BY <1>2, <2>1 DEF ProbeArrives, Answered
  <2>3. PICK v : v = IF StillCurrent(c) THEN Page(c, w) ELSE view
    OBVIOUS
  <2>4. ~Loader(view, c) /\ ~Saver(c)
    BY <2>2 DEF Loader, Saver
  <2>5. Held(v, calls \ {c})
    <3>1. CASE ~StillCurrent(c) \/ c.orphan
      <4>1. v = view
        BY <2>3, <3>1 DEF Page
      <4>2. Idle(c)
        BY <2>4, <3>1, OrphanIdle DEF Idle, Sender, IsOwnOf, StillCurrent
      <4>. QED
        BY <4>1, <4>2, IdleEnds
    <3>2. CASE StillCurrent(c) /\ ~c.orphan
      <4>1. v = w
        BY <2>3, <3>2 DEF Page
      <4>2. /\ v.gen = view.gen /\ v.loading = view.loading /\ v.saving = view.saving
            /\ v.stream = "error" /\ v.sending = FALSE
        BY <2>1, <4>1 DEF ShownInv, ViewOK, Fits, ViewFields
      <4>3. ~Waiting(v) /\ v.stream \in Streams
        BY <4>2 DEF Waiting, Streams
      <4>. QED
        BY <2>4, <3>2, <4>2, <4>3, OwnIsHere, Released
    <3>. QED
      BY <3>1, <3>2
  <2>6. CASE StillCurrent(c) /\ c.st = "gone"
    <3>1. Dropped(c.s, c.s, calls \ {c}, v)
      BY <2>2, <2>3, <2>6 DEF Gone
    <3>. QED
      BY <2>2, <2>5, <3>1, DroppedFree
  <2>7. CASE ~(StillCurrent(c) /\ c.st = "gone")
    <3>1. view' = v /\ calls' = calls \ {c} /\ UNCHANGED <<tab, picked>>
      BY <2>2, <2>3, <2>7
    <3>. QED
      BY <2>5, <3>1, HeldStep
  <2>. QED
    BY <2>6, <2>7
<1>. QED
  BY <1>1, <1>2

LEMMA SaveFree ==
  ASSUME ShownInv, FreeInv, SaveAgent \/ SaveModel
  PROVE  FreeInv'
<1>1. PICK o, p, k, l : /\ o = Call("save", picked) /\ p = view.agent
                        /\ k = [o EXCEPT !.by = "agent", !.prev = p] /\ l = [o EXCEPT !.by = "model"]
  OBVIOUS
<1>2. DOMAIN o = Fields /\ o.op = "save" /\ ~o.orphan
  BY <1>1 DEF Call, Request, Fields
<1>3. k.op = "save" /\ ~k.orphan /\ l.op = "save" /\ ~l.orphan
  BY <1>1, <1>2 DEF Fields
<1>4. PICK v, C : v = view' /\ C = calls'
  OBVIOUS
<1>5. (C = calls \cup {k} \/ C = calls \cup {l}) /\ UNCHANGED <<tab, picked>> /\ tab # "away"
  BY <1>1, <1>4 DEF SaveAgent, SaveModel
<1>6. v = [view EXCEPT !.agent = 3 - @, !.saving = TRUE] \/ v = [view EXCEPT !.saving = TRUE]
  BY <1>4 DEF SaveAgent, SaveModel
<1>7. v.gen = view.gen /\ v.loading = view.loading /\ v.sending = view.sending /\ v.stream = view.stream
  BY <1>6 DEF ShownInv, ViewOK, Fits, ViewFields
<1>8. PICK d \in {k, l} : d \in C /\ Saver(d) /\ ~Loader(view, d) /\ ~Sender(view, d)
  BY <1>3, <1>5 DEF Sender, Loader, Saver
<1>9. view.stream \in Streams /\ (Waiting(v) => Waiting(view))
  BY <1>7 DEF FreeInv, Held, Waiting
<1>10. Held(v, C)
  BY <1>5, <1>7, <1>8, <1>9, Released
<1>. QED
  BY <1>4, <1>5, <1>10, HeldStep

LEMMA SavedFree ==
  ASSUME ShownInv, FreeInv, SaveArrives
  PROVE  FreeInv'
<1>1. PICK c, l :
        /\ c \in calls /\ c.op = "save" /\ UNCHANGED <<tab, picked>>
        /\ l = FollowOf(c, view.gen, "save")
        /\ IF c.st # "ok" THEN view' = Page(c, Restored(c)) /\ calls' = calls \ {c}
           ELSE IF c.by = "agent"
           THEN view' = Page(c, [view EXCEPT !.err = "none"]) /\ Become(c, l)
           ELSE view' = Page(c, [view EXCEPT !.err = "none", !.saving = FALSE]) /\ calls' = calls \ {c}
  BY DEF SaveArrives, Saved, Answered, FollowOf
<1>2. PICK v, C : v = view' /\ C = calls'
  OBVIOUS
<1>3. calls \ {c} \subseteq C
  BY <1>1, <1>2 DEF Become
<1>4. ~Loader(view, c) /\ ~Sender(view, c)
  BY <1>1 DEF Loader, Sender
<1>5. /\ view.stream \in Streams /\ DOMAIN view = ViewFields
      /\ tab = "away" => ~view.loading /\ ~Waiting(view) /\ ~view.saving
  BY DEF FreeInv, Held, ShownInv, ViewOK, Fits
<1>6. CASE c.orphan
  <2>1. v = view
    BY <1>1, <1>2, <1>6 DEF Page
  <2>2. ~Saver(c)
    BY <1>6 DEF Saver
  <2>3. Held(v, C)
    BY <1>3, <1>4, <1>5, <2>1, <2>2, Released
  <2>. QED
    BY <1>1, <1>2, <2>3, HeldStep
<1>7. CASE ~c.orphan /\ c.st = "ok" /\ c.by = "agent"
  <2>1. v = [view EXCEPT !.err = "none"] /\ l \in C
    BY <1>1, <1>2, <1>7 DEF Page, Become
  <2>2. Saver(l)
    BY <1>1, <1>7, FollowFields DEF Saver
  <2>3. /\ v.gen = view.gen /\ v.loading = view.loading /\ v.sending = view.sending /\ v.stream = view.stream
    BY <1>5, <2>1 DEF ViewFields
  <2>4. Waiting(v) => Waiting(view)
    BY <2>3 DEF Waiting
  <2>5. tab # "away"
    BY <1>1, <1>7, OwnIsHere
  <2>6. Held(v, C)
    BY <1>3, <1>4, <1>5, <2>1, <2>2, <2>3, <2>4, <2>5, Released
  <2>. QED
    BY <1>1, <1>2, <2>6, HeldStep
<1>8. CASE ~c.orphan /\ ~(c.st = "ok" /\ c.by = "agent")
  <2>1. v = Restored(c) \/ v = [view EXCEPT !.err = "none", !.saving = FALSE]
    BY <1>1, <1>2, <1>8 DEF Page
  <2>2. /\ v.gen = view.gen /\ v.loading = view.loading /\ v.sending = view.sending /\ v.stream = view.stream
        /\ v.saving = FALSE
    BY <1>5, <2>1 DEF Restored, ViewFields
  <2>3. Waiting(v) => Waiting(view)
    BY <2>2 DEF Waiting
  <2>4. tab # "away"
    BY <1>1, <1>8, OwnIsHere
  <2>5. Held(v, C)
    BY <1>3, <1>4, <1>5, <2>2, <2>3, <2>4, Released
  <2>. QED
    BY <1>1, <1>2, <2>5, HeldStep
<1>. QED
  BY <1>6, <1>7, <1>8

\* The gateway changes the states of requests, and ends those of streams that nobody reads.
LEMMA GatewayFree ==
  ASSUME ShownInv, FreeInv, Gateway \/ Refused \/ Elsewhere
  PROVE  FreeInv'
<1>1. UNCHANGED <<tab, picked, view>>
  BY DEF Gateway, ServeRead, ServeWrite, Accept, Finish, Cancel, Refused, Elsewhere
<1>2. ASSUME NEW c \in calls, NEW st, NEW g, NEW b
      PROVE  Alike(c, [c EXCEPT !.st = st]) /\ Alike(c, [c EXCEPT !.st = st, !.got = g]) /\ Alike(c, [c EXCEPT !.json = b])
  BY DEF Alike, ShownInv, CallsOK, CallOK, Fields
<1>3. CASE ServeRead
  <2>1. PICK c \in calls : \/ Become(c, [c EXCEPT !.st = "gone"])
                           \/ Become(c, [c EXCEPT !.st = "ok", !.got = gw[c.s]])
    BY <1>3 DEF ServeRead
  <2>2. PICK d : Become(c, d) /\ (d = [c EXCEPT !.st = "gone"] \/ d = [c EXCEPT !.st = "ok", !.got = gw[c.s]])
    BY <2>1
  <2>. QED
    BY <1>1, <1>2, <2>2, BecomeFree
<1>4. CASE ServeWrite
  <2>1. PICK c, d : /\ c \in calls /\ Become(c, d)
                    /\ c.op = "create" \/ \E st : d = [c EXCEPT !.st = st]
    BY <1>4 DEF ServeWrite
  <2>2. c.op = "create" => Idle(c)
    BY DEF Idle, Loader, Sender, Saver
  <2>. QED
    BY <1>1, <1>2, <2>1, <2>2, BecomeFree
<1>5. CASE Accept
  <2>1. PICK c, d : /\ c \in calls /\ Become(c, d)
                    /\ \E x : d = [c EXCEPT !.st = x] \/ d = [c EXCEPT !.json = x]
    BY <1>5 DEF Accept
  <2>. QED
    BY <1>1, <1>2, <2>1, BecomeFree
<1>6. CASE Finish
  <2>1. PICK t : calls' = {IF c.op = "send" /\ c.st = "run" /\ c.turn = t[2] THEN [c EXCEPT !.st = "ok"] ELSE c : c \in calls}
    BY <1>6 DEF Finish
  <2>2. ASSUME NEW c \in calls PROVE \E d \in calls' : Alike(c, d)
    <3>1. PICK d : d = IF c.op = "send" /\ c.st = "run" /\ c.turn = t[2] THEN [c EXCEPT !.st = "ok"] ELSE c
      OBVIOUS
    <3>2. d \in calls'
      BY <2>1, <3>1
    <3>3. Alike(c, c)
      BY DEF Alike
    <3>. QED
      BY <1>2, <3>1, <3>2, <3>3
  <2>. QED
    BY <1>1, <2>2, StatesFree
<1>7. CASE Cancel
  <2>1. PICK t : /\ \A c \in calls : c.op = "send" /\ c.st = "run" /\ c.turn = t[2] => ~c.orphan /\ ~StillCurrent(c)
                 /\ calls' = {c \in calls : ~(c.op = "send" /\ c.st = "run" /\ c.turn = t[2])}
    BY <1>7 DEF Cancel
  <2>2. ASSUME NEW c \in calls PROVE Idle(c) \/ \E d \in calls' : Alike(c, d)
    <3>1. CASE c.op = "send" /\ c.st = "run" /\ c.turn = t[2]
      <4>1. ~StillCurrent(c) /\ ~c.orphan
        BY <2>1, <3>1
      <4>. QED
        BY <3>1, <4>1 DEF Idle, Loader, Sender, Saver, IsOwnOf, StillCurrent
    <3>2. CASE ~(c.op = "send" /\ c.st = "run" /\ c.turn = t[2])
      <4>1. c \in calls' /\ Alike(c, c)
        BY <2>1, <3>2 DEF Alike
      <4>. QED
        BY <4>1
    <3>. QED
      BY <3>1, <3>2
  <2>. QED
    BY <1>1, <2>2, StatesFree
<1>8. CASE Refused
  <2>1. PICK c \in calls : Become(c, [c EXCEPT !.st = "fail"])
    BY <1>8 DEF Refused
  <2>2. PICK d : d = [c EXCEPT !.st = "fail"]
    OBVIOUS
  <2>. QED
    BY <1>1, <1>2, <2>1, <2>2, BecomeFree
<1>9. CASE Elsewhere
  <2>1. calls' = calls /\ \A c : Alike(c, c)
    BY <1>9 DEF Elsewhere, Alike
  <2>. QED
    BY <1>1, <2>1, StatesFree
<1>. QED
  BY <1>3, <1>4, <1>5, <1>6, <1>7, <1>8, <1>9 DEF Gateway

LEMMA NextFree ==
  ASSUME ShownInv, FreeInv, [Next]_vars
  PROVE  FreeInv'
<1>1. Control => FreeInv'
  BY ListFree, SendFree, StreamFree, SaveFree, TabFree DEF Control
<1>2. Continuation => FreeInv'
  BY ListedFree, LoadFree, StreamFree, TurnFree, ProbeFree, SavedFree DEF Continuation
<1>3. UNCHANGED vars => FreeInv'
  BY DEF vars, FreeInv, Held, Waiting, Loader, Sender, Saver, IsOwnOf
<1>. QED
  BY <1>1, <1>2, <1>3, GatewayFree DEF Next

\* When nothing of the page is under way its flags are put back: no session that was opened,
\* deleted or left while a request ran, and no stream that was cut, refused or stopped, leaves
\* the composer disabled (ChatPage.tsx, the finally blocks behind stillCurrent).
THEOREM FreeWhenQuietAlways == Spec => []FreeWhenQuiet
<1>1. Init => FreeInv
  BY DEF Init, FreeInv, Held, Waiting, Blank, Streams
<1>2. (ShownInv /\ TurnsOK) /\ FreeInv /\ [Next]_vars => FreeInv'
  BY NextFree
<1>3. FreeInv => FreeWhenQuiet
  <2>. SUFFICES ASSUME FreeInv, Own = {}
                PROVE  ~view.loading /\ ~view.sending /\ ~view.saving /\ view.stream \in {"idle", "error"}
    BY DEF FreeWhenQuiet
  <2>1. \A c \in calls : c.orphan
    BY DEF Own
  <2>2. \A c \in calls : ~Loader(view, c) /\ ~Sender(view, c) /\ ~Saver(c)
    BY <2>1 DEF Loader, Sender, Saver, IsOwnOf
  <2>. QED
    BY <2>2 DEF FreeInv, Held, Waiting
<1>. QED
  BY <1>1, <1>2, <1>3, SpecShown, PTL DEF Spec

-----------------------------------------------------------------------------
(* A page at rest *)

Pending(c) == c.st \in {"sent", "run"}

\* The requests have different numbers, below some bound.
Numbered ==
  /\ \A c \in calls : c.n \in Nat
  /\ \A c, d \in calls : c.n = d.n => c = d
  /\ \E top \in Nat : \A c \in calls : c.n <= top

\* A session is not created twice.
UsedOK ==
  /\ NoSession \notin spent.used /\ DOMAIN gw \subseteq spent.used
  /\ DOMAIN list = {"rows", "busy"} /\ list.rows \subseteq spent.used
  /\ picked # NoSession => picked \in spent.used
  /\ \A c \in calls : c.op # "create" \/ c.st = "ok" => c.s \in spent.used

\* The gateway answers the requests in the order in which they were sent, and runs a turn
\* as long as its request waits; the states that a request comes to; and what an answer
\* says of its session.
InTurn(c, d) == ~Pending(c) /\ Pending(d) /\ d.op \notin {"wait", "probe"} => c.n < d.n
HasPost(t) == \E c \in calls : c.op = "send" /\ c.st = "run" /\ c.s = t[1] /\ c.turn = t[2]
Course(c) ==
  \/ c.st = "sent"
  \/ c.st = "ok" /\ c.op \notin {"wait", "probe"}
  \/ c.st = "gone" /\ c.op \notin {"create", "wait"}
  \/ c.st = "run" /\ c.op = "send"
  \/ c.st = "fail" /\ c.op = "create"
SaysGone(c) == c.st = "gone" \/ c.op \in {"wait", "probe"} \/ (c.op = "delete" /\ c.st = "ok")
Served ==
  /\ \A c, d \in calls : InTurn(c, d)
  /\ \A t \in turns : HasPost(t)
  /\ \A c \in calls : Course(c)
  /\ \A c \in calls : SaysGone(c) => c.s \notin DOMAIN gw

Shown == view.msgs = gw[picked].rows /\ view.agent = gw[picked].agent

\* The requests after which the page is read again: a load that has got what the gateway
\* has, or will; a turn, and another agent.
Fresh(c) == Loader(view, c) /\ (c.st = "sent" \/ (c.st = "ok" /\ c.got = gw[picked]))
SavesAgent(c) == c.op = "save" /\ c.by = "agent"
Covers(c) ==
  \/ Fresh(c)
  \/ IsOwnOf(view, c) /\ c.op = "send"
  \/ ~c.orphan /\ c.s = picked /\ SavesAgent(c)

\* The requests after which a session that is gone is closed.
Closes(c) ==
  \/ Loader(view, c) /\ c.st \in {"sent", "gone"}
  \/ IsOwnOf(view, c) /\ c.op \in {"send", "wait", "probe"}
  \/ ~c.orphan /\ c.op = "delete" /\ c.st = "ok" /\ c.s = picked /\ c.cap = picked

\* What would put on the page what the gateway does not have: an old load, and the failed
\* save of another session.
Spoils(c) ==
  \/ Loader(view, c) /\ c.st = "ok" /\ c.got # gw[picked]
  \/ ~c.orphan /\ SavesAgent(c) /\ c.s # picked

\* What is about to change the open session at the gateway.
Writes(c) == Pending(c) /\ c.s = picked /\ (c.op \in {"send", "delete"} \/ SavesAgent(c))
Drops(c) == ~c.orphan /\ c.op = "delete" /\ c.cap = picked
LoadAfter(c) == \E d \in calls : Loader(view, d) /\ d.st = "sent" /\ d.n > c.n

PageInv ==
  /\ picked \notin DOMAIN gw => \E c \in calls : Closes(c)
  /\ picked \in DOMAIN gw => /\ Shown \/ \E c \in calls : Covers(c)
                             /\ \A d \in calls : Spoils(d) => \E c \in calls : Covers(c) /\ c.n > d.n
  /\ \A c \in calls : Writes(c) => \/ Covers(c)
                                   \/ Drops(c)
                                   \/ LoadAfter(c)

\* What holds of the requests whatever is shown; and, while all goes in order, the page that
\* is open will be true.
Base == Numbered /\ UsedOK /\ (spent.calm => Served)
PageTrue == spent.calm /\ tab = "chat" /\ picked # NoSession => PageInv

RestInv == Base /\ PageTrue

\* The number of a new request is the greatest.
LEMMA FreshNumber ==
  ASSUME Numbered
  PROVE  FreshN \in Nat /\ \A c \in calls : c.n \in Nat /\ c.n < FreshN
<1>1. PICK top \in Nat : \A c \in calls : c.n <= top
  BY DEF Numbered
<1>2. 1 \in Later /\ \A m \in Later : m \in Nat /\ m <= top + 1
  BY <1>1 DEF Later, Numbered
<1>. DEFINE T == {(top + 1) - m : m \in Later}
<1>3. T \subseteq Nat /\ T # {}
  BY <1>2
<1>4. PICK d \in T : \A e \in T : ~(<<e, d>> \in OpToRel(<, Nat))
  BY <1>3, WFMin, NatLessThanWellFounded, Zenon
<1>5. PICK n \in Later : d = (top + 1) - n
  OBVIOUS
<1>6. ASSUME NEW k \in Later PROVE k <= n
  <2>1. (top + 1) - k \in T
    OBVIOUS
  <2>2. ~((top + 1) - k < d)
    BY <1>3, <1>4, <2>1 DEF OpToRel
  <2>. QED
    BY <1>2, <1>5, <2>2
<1>7. \A m \in Later : (\A k \in Later : k <= m) => m = n
  <2>. SUFFICES ASSUME NEW m \in Later, \A k \in Later : k <= m PROVE m = n
    OBVIOUS
  <2>. QED
    BY <1>2, <1>6
<1>8. FreshN \in Later /\ \A m \in Later : (\A k \in Later : k <= m) => m = FreshN
  BY <1>7 DEF FreshN
<1>9. FreshN = n
  BY <1>6, <1>8
<1>10. ASSUME NEW c \in calls PROVE c.n \in Nat /\ c.n < FreshN
  <2>1. c.n \in Nat
    BY DEF Numbered
  <2>2. c.n + 1 \in Later
    BY DEF Later
  <2>3. c.n + 1 <= n
    BY <1>6, <2>2
  <2>. QED
    BY <1>2, <1>9, <2>1, <2>3
<1>. QED
  BY <1>2, <1>9, <1>10

\* A request of the page as it is sent.
Sent(k, op, s) ==
  /\ DOMAIN k = Fields
  /\ k.n = FreshN /\ k.op = op /\ k.s = s /\ k.st = "sent" /\ ~k.orphan /\ k.gen = view.gen

LEMMA CallSent == ASSUME NEW op, NEW s PROVE Sent(Call(op, s), op, s)
BY DEF Sent, Call, Request, Fields

LEMMA FollowSent ==
  ASSUME NEW c, NEW g, NEW by
  PROVE  LET l == FollowOf(c, g, by)
         IN  l.n = FreshN /\ l.op = "load" /\ l.s = c.s /\ l.st = "sent" /\ l.gen = g /\ l.by = by /\ l.orphan = c.orphan
<1>0. PICK l : l = FollowOf(c, g, by)
  OBVIOUS
<1>1. PICK k, s, o, u : k = Call("load", s) /\ s = c.s /\ o = c.orphan /\ u = c.cur
  OBVIOUS
<1>2. DOMAIN k = Fields /\ k.n = FreshN /\ k.op = "load" /\ k.s = s /\ k.st = "sent"
  BY <1>1 DEF Call, Request, Fields
<1>3. l = [k EXCEPT !.gen = g, !.by = by, !.orphan = o, !.cur = u]
  BY <1>0, <1>1 DEF FollowOf
<1>4. l.n = FreshN /\ l.op = "load" /\ l.s = s /\ l.st = "sent" /\ l.gen = g /\ l.by = by /\ l.orphan = o
  BY <1>2, <1>3 DEF Fields
<1>. QED
  BY <1>0, <1>1, <1>4

LEMMA OpeningSent ==
  ASSUME NEW s, NEW g
  PROVE  LET l == OpeningLoad(s, g)
         IN  l.n = FreshN /\ l.op = "load" /\ l.s = s /\ l.st = "sent" /\ ~l.orphan /\ l.gen = g
<1>1. PICK k, l : k = Call("load", s) /\ l = OpeningLoad(s, g)
  OBVIOUS
<1>2. DOMAIN k = Fields /\ k.n = FreshN /\ k.op = "load" /\ k.s = s /\ k.st = "sent" /\ ~k.orphan
  BY <1>1 DEF Call, Request, Fields
<1>3. l = [k EXCEPT !.gen = g, !.by = "effect"]
  BY <1>1 DEF OpeningLoad
<1>4. l.n = FreshN /\ l.op = "load" /\ l.s = s /\ l.st = "sent" /\ ~l.orphan /\ l.gen = g
  BY <1>2, <1>3 DEF Fields
<1>. QED
  BY <1>1, <1>4

\* A request that has just been sent.
New(k) ==
  /\ k.n = FreshN /\ k.st = "sent" /\ k.op \notin {"wait", "probe"}
  /\ k.op # "create" => k.s \in spent.used

\* What a step of the page does to the bounds.
Follows ==
  /\ spent'.used = spent.used
  /\ spent'.calm => spent.calm

\* The list and the session that is open name sessions that there were.
Named ==
  /\ DOMAIN list' = {"rows", "busy"} /\ list'.rows \subseteq spent.used
  /\ picked' # NoSession => picked' \in spent.used

\* A step of the page: c may end, unless it is a turn that runs, and k may be sent.
LEMMA PageBase ==
  ASSUME Base, UNCHANGED <<gw, turns>>, Follows, Named,
         NEW c, NEW k, calls' \subseteq calls \cup {k}, calls \ {c} \subseteq calls',
         k \in calls \/ New(k), ~(c.op = "send" /\ c.st = "run") \/ c \in calls'
  PROVE  Base'
<1>1. FreshN \in Nat /\ \A d \in calls : d.n \in Nat /\ d.n < FreshN
  BY FreshNumber DEF Base
<1>2. Numbered'
  <2>1. \A d \in calls' : d.n \in Nat /\ d.n <= FreshN
    BY <1>1 DEF New
  <2>2. \A d, e \in calls' : d.n = e.n => d = e
    BY <1>1 DEF New, Base, Numbered
  <2>. QED
    BY <1>1, <2>1, <2>2 DEF Numbered
<1>3. UsedOK'
  BY DEF Base, UsedOK, Follows, Named, New
<1>4. ASSUME spent'.calm PROVE Served'
  <2>0. Served
    BY <1>4 DEF Base, Follows
  <2>1. \A d, e \in calls' : InTurn(d, e)
    <3>. SUFFICES ASSUME NEW d \in calls', NEW e \in calls' PROVE InTurn(d, e)
      OBVIOUS
    <3>1. CASE d \in calls /\ e \in calls
      BY <2>0, <3>1 DEF Served
    <3>2. CASE d \notin calls
      BY <3>2 DEF New, InTurn, Pending
    <3>3. CASE d \in calls /\ e \notin calls
      BY <1>1, <3>3 DEF New, InTurn
    <3>. QED
      BY <3>1, <3>2, <3>3
  <2>2. \A t \in turns : HasPost(t)'
    BY <2>0 DEF Served, HasPost
  <2>3. \A d \in calls' : Course(d)
    BY <2>0 DEF Served, Course, New
  <2>4. \A d \in calls' : SaysGone(d) => d.s \notin DOMAIN gw
    BY <2>0 DEF Served, SaysGone, New
  <2>. QED
    BY <2>1, <2>2, <2>3, <2>4 DEF Served
<1>. QED
  BY <1>2, <1>3, <1>4 DEF Base

\* The steps that count, and those that take an answer.
LEMMA ActFollows == ASSUME ShownInv, Act PROVE Follows
BY DEF ShownInv, SpentOK, Act, Follows

LEMMA OrderFollows ==
  ASSUME ShownInv, NEW c, InOrder(c)
  PROVE  Follows /\ (spent'.calm => Oldest(c, calls))
BY DEF ShownInv, SpentOK, InOrder, Follows

LEMMA ServedFollows ==
  ASSUME ShownInv, NEW c, ServedInOrder(c)
  PROVE  /\ spent'.used = spent.used \cup DOMAIN gw'
         /\ spent'.calm => spent.calm /\ ~Running(c.s) /\ \A d \in calls : Pending(d) => c.n <= d.n
BY DEF ShownInv, SpentOK, ServedInOrder, Oldest, Pending

\* The list says what it said.
LEMMA NamedSame == ASSUME Base, UNCHANGED <<list, picked>> PROVE Named
BY DEF Base, UsedOK, Named

LEMMA BusyNamed ==
  ASSUME Base, NEW b, list' = [list EXCEPT !.busy = b]
  PROVE  DOMAIN list' = {"rows", "busy"} /\ list'.rows = list.rows /\ list'.rows \subseteq spent.used
BY DEF Base, UsedOK

\* The page is read again after everything else: whatever it shows, the load puts it right.
LEMMA LoadCovers ==
  ASSUME Numbered', NEW l \in calls', Loader(view, l)', l.st = "sent", \A c \in calls' : c.n <= l.n
  PROVE  PageInv'
<1>1. \A c \in calls' : c # l => c.n < l.n
  BY DEF Numbered
<1>2. Closes(l)'
  BY DEF Closes
<1>3. Covers(l)'
  BY DEF Covers, Fresh
<1>4. ~Spoils(l)'
  BY DEF Spoils, SavesAgent, Loader
<1>5. ~Writes(l)'
  BY DEF Writes, SavesAgent, Loader
<1>6. \A c \in calls' : c # l => LoadAfter(c)'
  BY <1>1 DEF LoadAfter
<1>. QED
  BY <1>1, <1>2, <1>3, <1>4, <1>5, <1>6 DEF PageInv

\* A step after which the same opening shows the same session, which the gateway has kept.
SameOpening ==
  /\ view'.gen = view.gen /\ picked' = picked
  /\ picked \in DOMAIN gw' <=> picked \in DOMAIN gw
  /\ picked \in DOMAIN gw => gw'[picked] = gw[picked]

LEMMA SameKinds ==
  ASSUME SameOpening, NEW c
  PROVE  /\ Loader(view, c)' <=> Loader(view, c)
         /\ Closes(c)' <=> Closes(c)
         /\ Writes(c)' <=> Writes(c)
         /\ Drops(c)' <=> Drops(c)
         /\ picked \in DOMAIN gw => (Covers(c)' <=> Covers(c)) /\ (Spoils(c)' <=> Spoils(c))
BY DEF SameOpening, IsOwnOf, Loader, Closes, Writes, Drops, SavesAgent, Covers, Fresh, Spoils

\* What is left of the page when c ends.
LEMMA QuietStep ==
  ASSUME PageInv, SameOpening, NEW c, calls \ {c} \subseteq calls',
         \A d \in calls' : d \in calls \/ (~Spoils(d) /\ (Writes(d) => Covers(d) \/ Drops(d))),
         picked \notin DOMAIN gw => ~Closes(c) \/ \E d \in calls' : Closes(d),
         picked \in DOMAIN gw => Shown' \/ \E d \in calls' : Covers(d),
         picked \in DOMAIN gw =>
           \A d \in calls' : Spoils(d) => ~Covers(c) \/ \E e \in calls' : Covers(e) /\ e.n > d.n,
         ~(Loader(view, c) /\ c.st = "sent")
  PROVE  PageInv'
<1>1. picked \notin DOMAIN gw => \E d \in calls' : Closes(d)
  BY DEF PageInv
<1>2. picked \in DOMAIN gw => \A d \in calls' : Spoils(d) => \E e \in calls' : Covers(e) /\ e.n > d.n
  BY DEF PageInv
<1>3. ASSUME NEW d \in calls', Writes(d), d \in calls, ~Covers(d), ~Drops(d)
      PROVE  LoadAfter(d)'
  <2>1. PICK e \in calls : Loader(view, e) /\ e.st = "sent" /\ e.n > d.n
    BY <1>3 DEF PageInv, LoadAfter
  <2>. QED
    BY <2>1, SameKinds DEF LoadAfter
<1>4. picked \in DOMAIN gw => /\ Shown' \/ \E d \in calls' : Covers(d)'
                              /\ \A d \in calls' : Spoils(d)' => \E e \in calls' : Covers(e)' /\ e.n > d.n
  BY <1>2, SameKinds
<1>5. picked \notin DOMAIN gw => \E d \in calls' : Closes(d)'
  BY <1>1, SameKinds
<1>6. \A d \in calls' : Writes(d)' => Covers(d)' \/ Drops(d)' \/ LoadAfter(d)'
  <2>. SUFFICES ASSUME NEW d \in calls', Writes(d)' PROVE Covers(d)' \/ Drops(d)' \/ LoadAfter(d)'
    OBVIOUS
  <2>1. Writes(d)
    BY SameKinds
  <2>2. Drops(d) => Drops(d)'
    BY SameKinds
  <2>3. Covers(d) => Covers(d)'
    BY <2>1 DEF Writes, SavesAgent, Covers, Fresh, Loader, IsOwnOf, SameOpening
  <2>. QED
    BY <1>3, <2>1, <2>2, <2>3
<1>. QED
  BY <1>4, <1>5, <1>6 DEF PageInv, SameOpening

\* Requests that come and go without being about what the page shows.
LEMMA PlainStep ==
  ASSUME PageInv, SameOpening, view'.msgs = view.msgs, view'.agent = view.agent,
         NEW c, NEW k, calls' \subseteq calls \cup {k}, calls \ {c} \subseteq calls',
         c \in calls' \/ (~Covers(c) /\ ~Closes(c)),
         k \in calls \/ (~Spoils(k) /\ (Writes(k) => Drops(k)))
  PROVE  PageInv'
<1>1. CASE c \in calls'
  <2>1. calls \subseteq calls'
    BY <1>1
  <2>2. \A d \in calls' : d \in calls \/ (~Spoils(d) /\ (Writes(d) => Drops(d)))
    OBVIOUS
  <2>3. picked \in DOMAIN gw => Shown' \/ \E d \in calls' : Covers(d)
    BY <2>1 DEF PageInv, Shown, SameOpening
  <2>4. \A d \in calls' : Spoils(d) => d \in calls
    BY <2>2
  <2>5. picked \in DOMAIN gw => \A d \in calls' : Spoils(d) => \E e \in calls' : Covers(e) /\ e.n > d.n
    BY <2>1, <2>4 DEF PageInv
  <2>6. PICK none : ~Loader(view, none) /\ ~Covers(none) /\ ~Closes(none)
    <3>1. PICK r : r = [orphan |-> TRUE]
      OBVIOUS
    <3>. QED
      BY <3>1 DEF Loader, IsOwnOf, Covers, Fresh, Closes
  <2>7. calls \ {none} \subseteq calls'
    BY <2>1
  <2>. QED
    BY <2>2, <2>3, <2>6, <2>7, QuietStep
<1>2. CASE ~Covers(c) /\ ~Closes(c)
  <2>1. \A d \in calls' : d \in calls \/ (~Spoils(d) /\ (Writes(d) => Drops(d)))
    OBVIOUS
  <2>2. picked \in DOMAIN gw => Shown' \/ \E d \in calls' : Covers(d)
    BY <1>2 DEF PageInv, Shown, SameOpening
  <2>3. ~(Loader(view, c) /\ c.st = "sent")
    BY <1>2 DEF Covers, Fresh
  <2>. QED
    BY <1>2, <2>1, <2>2, <2>3, QuietStep
<1>. QED
  BY <1>1, <1>2

LEMMA OpensRest ==
  ASSUME RestInv, NEW s, NEW C, NEW c, C \subseteq calls, calls \ {c} \subseteq C,
         c.op = "create", c \in calls \/ New(c), Opens(s, C), UNCHANGED <<tab, gw, turns>>, Follows,
         DOMAIN list' = {"rows", "busy"}, list'.rows \subseteq spent.used, s # NoSession => s \in spent.used
  PROVE  RestInv'
<1>0. picked' = s /\ Named
  BY DEF Opens, Named
<1>1. ~Covers(c) /\ ~Closes(c)
  BY DEF Covers, Fresh, Loader, SavesAgent, Closes
<1>2. CASE s = picked \/ tab # "chat"
  <2>1. view' = view /\ calls' = C
    BY <1>2 DEF Opens
  <2>2. Base'
    BY <1>0, <2>1, PageBase DEF RestInv
  <2>3. CASE tab # "chat"
    BY <2>2, <2>3 DEF RestInv, PageTrue
  <2>4. CASE s = picked
    <3>1. SameOpening
      BY <1>0, <2>1, <2>4 DEF SameOpening
    <3>2. ~Spoils(c) /\ ~Writes(c)
      BY DEF Spoils, Loader, SavesAgent, Writes
    <3>3. PageInv => PageInv'
      BY <1>1, <2>1, <3>1, <3>2, PlainStep
    <3>. QED
      BY <1>0, <2>2, <2>4, <3>3 DEF RestInv, PageTrue, Follows
  <2>. QED
    BY <1>2, <2>3, <2>4
<1>3. CASE s # picked /\ tab = "chat" /\ s = NoSession
  <2>1. calls' = C
    BY <1>3 DEF Opens
  <2>2. Base'
    BY <1>0, <2>1, PageBase DEF RestInv
  <2>. QED
    BY <1>0, <1>3, <2>2 DEF RestInv, PageTrue
<1>4. CASE s # picked /\ tab = "chat" /\ s # NoSession
  <2>1. PICK g, l : g = view'.gen /\ l = OpeningLoad(s, g)
    OBVIOUS
  <2>2. calls' = C \cup {l}
    BY <1>4, <2>1 DEF Opens, OpeningLoad
  <2>3. l.n = FreshN /\ l.op = "load" /\ l.s = s /\ l.st = "sent" /\ ~l.orphan /\ l.gen = g
    BY <2>1, OpeningSent
  <2>4. New(l)
    BY <1>4, <2>3 DEF New
  <2>5. Base'
    BY <1>0, <2>2, <2>4, PageBase DEF RestInv
  <2>6. Loader(view, l)'
    BY <1>0, <2>1, <2>3 DEF Loader, IsOwnOf
  <2>7. \A d \in calls' : d.n <= l.n
    BY <2>2, <2>3, FreshNumber DEF RestInv, Base
  <2>8. PageInv'
    BY <2>2, <2>3, <2>5, <2>6, <2>7, LoadCovers DEF Base
  <2>. QED
    BY <2>5, <2>8 DEF RestInv, PageTrue
<1>. QED
  BY <1>2, <1>3, <1>4

\* The session that was open is closed.
LEMMA DroppedRest ==
  ASSUME RestInv, NEW s, NEW cap, NEW c \in calls, NEW v, Dropped(s, cap, calls \ {c}, v),
         UNCHANGED <<tab, gw, turns>>, Follows, ~(c.op = "send" /\ c.st = "run"),
         DOMAIN list' = {"rows", "busy"}, list'.rows \subseteq spent.used
  PROVE  Base' /\ (s = cap => RestInv')
<1>1. calls' = calls \ {c} /\ (picked' = picked \/ picked' = NoSession) /\ (s = cap => picked' = NoSession)
  BY DEF Dropped
<1>2. Named
  BY <1>1 DEF Named, RestInv, Base, UsedOK
<1>3. Base'
  BY <1>1, <1>2, PageBase DEF RestInv
<1>. QED
  BY <1>1, <1>3 DEF RestInv, PageTrue

\* A request that is not about what the page shows is sent.
LEMMA SendsPlain ==
  ASSUME RestInv, NEW k, New(k), calls' = calls \cup {k}, UNCHANGED <<tab, picked, gw, turns>>,
         view'.gen = view.gen, view'.msgs = view.msgs, view'.agent = view.agent,
         Follows, DOMAIN list' = {"rows", "busy"}, list'.rows \subseteq spent.used,
         ~Spoils(k), Writes(k) => Drops(k)
  PROVE  RestInv'
<1>1. Named
  BY DEF Named, RestInv, Base, UsedOK
<1>2. Base'
  BY <1>1, PageBase DEF RestInv, New
<1>3. SameOpening
  BY DEF SameOpening
<1>4. PageInv => PageInv'
  BY <1>3, PlainStep
<1>. QED
  BY <1>2, <1>4 DEF RestInv, PageTrue, Follows

LEMMA ListRest ==
  ASSUME ShownInv, RestInv, PickSession \/ CreateSession \/ DeleteSession
  PROVE  RestInv'
<1>1. Follows
  BY ActFollows DEF PickSession, CreateSession, DeleteSession
<1>2. PICK k : k = Call("create", NoSession)
  OBVIOUS
<1>3. k.op = "create" /\ New(k)
  BY <1>2, CallSent DEF Sent, New
<1>4. DOMAIN list = {"rows", "busy"} /\ list.rows \subseteq spent.used /\ NoSession \notin spent.used
  BY DEF RestInv, Base, UsedOK
<1>5. CASE PickSession
  <2>1. PICK s \in list.rows : Opens(s, calls) /\ UNCHANGED <<tab, list, gw, turns>>
    BY <1>5 DEF PickSession
  <2>. QED
    BY <1>1, <1>3, <1>4, <2>1, OpensRest
<1>6. CASE CreateSession
  <2>1. calls' = calls \cup {k} /\ UNCHANGED <<tab, picked, view, gw, turns>> /\ list' = [list EXCEPT !.busy = TRUE]
    BY <1>2, <1>6 DEF CreateSession
  <2>2. DOMAIN list' = {"rows", "busy"} /\ list'.rows \subseteq spent.used
    BY <2>1, BusyNamed DEF RestInv
  <2>3. ~Spoils(k) /\ ~Writes(k)
    BY <1>3 DEF Spoils, Loader, SavesAgent, Writes
  <2>. QED
    BY <1>1, <1>3, <2>1, <2>2, <2>3, SendsPlain
<1>7. CASE DeleteSession
  <2>1. PICK s \in list.rows : calls' = calls \cup {[Call("delete", s) EXCEPT !.cap = picked]}
    BY <1>7 DEF DeleteSession
  <2>2. PICK o, p, l : o = Call("delete", s) /\ p = picked /\ l = [o EXCEPT !.cap = p]
    OBVIOUS
  <2>3. Sent(l, "delete", s) /\ l.cap = picked
    <3>1. Sent(o, "delete", s)
      BY <2>2, CallSent
    <3>2. l = [o EXCEPT !.cap = p]
      BY <2>2
    <3>3. Sent(l, "delete", s) /\ l.cap = p
      BY <3>1, <3>2 DEF Sent, Fields
    <3>. QED
      BY <2>2, <3>3
  <2>4. New(l) /\ ~Spoils(l) /\ Drops(l)
    BY <1>4, <2>3 DEF Sent, New, Spoils, Loader, SavesAgent, Drops
  <2>5. calls' = calls \cup {l} /\ UNCHANGED <<tab, picked, view, gw, turns>> /\ list' = [list EXCEPT !.busy = TRUE]
    BY <1>7, <2>1, <2>2 DEF DeleteSession
  <2>6. DOMAIN list' = {"rows", "busy"} /\ list'.rows \subseteq spent.used
    BY <2>5, BusyNamed DEF RestInv
  <2>. QED
    BY <1>1, <2>4, <2>5, <2>6, SendsPlain
<1>. QED
  BY <1>5, <1>6, <1>7

\* A request that is not about what the page shows ends.
LEMMA EndsPlain ==
  ASSUME RestInv, NEW c \in calls, calls' = calls \ {c}, UNCHANGED <<tab, picked, gw, turns>>,
         view'.gen = view.gen, view'.msgs = view.msgs, view'.agent = view.agent,
         Follows, DOMAIN list' = {"rows", "busy"}, list'.rows \subseteq spent.used,
         ~(c.op = "send" /\ c.st = "run"), spent.calm => ~Covers(c) /\ ~Closes(c)
  PROVE  RestInv'
<1>1. Named
  BY DEF Named, RestInv, Base, UsedOK
<1>2. Base'
  BY <1>1, PageBase DEF RestInv
<1>3. SameOpening
  BY DEF SameOpening
<1>4. PageInv /\ spent.calm => PageInv'
  BY <1>3, PlainStep
<1>. QED
  BY <1>2, <1>4 DEF RestInv, PageTrue, Follows

LEMMA ListedRest ==
  ASSUME ShownInv, RestInv, Created \/ Removed
  PROVE  RestInv'
<1>1. CASE Created
  <2>1. PICK c \in calls :
          /\ c.op = "create" /\ InOrder(c) /\ UNCHANGED <<tab, gw, turns>>
          /\ IF c.st = "ok"
             THEN /\ list' = Listed(c, [list EXCEPT !.rows = @ \cup {c.s}, !.busy = FALSE])
                  /\ Opens(c.s, calls \ {c})
             ELSE /\ list' = Listed(c, [list EXCEPT !.busy = FALSE])
                  /\ calls' = calls \ {c} /\ UNCHANGED <<picked, view>>
    BY <1>1 DEF Created, Answered
  <2>2. Follows
    BY <2>1, OrderFollows
  <2>3. c.st = "ok" => c.s \in spent.used
    BY DEF RestInv, Base, UsedOK
  <2>4. DOMAIN list' = {"rows", "busy"} /\ list'.rows \subseteq spent.used
    <3>1. DOMAIN list = {"rows", "busy"} /\ list.rows \subseteq spent.used
      BY DEF RestInv, Base, UsedOK
    <3>2. PICK s : s = c.s
      OBVIOUS
    <3>3. \/ list' = list
          \/ c.st = "ok" /\ list' = [list EXCEPT !.rows = @ \cup {s}, !.busy = FALSE]
          \/ list' = [list EXCEPT !.busy = FALSE]
      BY <2>1, <3>2 DEF Listed
    <3>4. CASE list' = [list EXCEPT !.rows = @ \cup {s}, !.busy = FALSE] /\ s \in spent.used
      BY <3>1, <3>4
    <3>5. CASE list' = list \/ list' = [list EXCEPT !.busy = FALSE]
      BY <3>1, <3>5
    <3>. QED
      BY <2>3, <3>2, <3>3, <3>4, <3>5
  <2>5. CASE c.st = "ok"
    <3>1. PICK s, C : s = c.s /\ C = calls \ {c}
      OBVIOUS
    <3>2. Opens(s, C)
      BY <2>1, <2>5, <3>1
    <3>. QED
      BY <2>1, <2>2, <2>3, <2>4, <2>5, <3>1, <3>2, OpensRest
  <2>6. CASE c.st # "ok"
    <3>1. ~Covers(c) /\ ~Closes(c)
      BY <2>1 DEF Covers, Fresh, Loader, SavesAgent, Closes
    <3>. QED
      BY <2>1, <2>2, <2>4, <2>6, <3>1, EndsPlain
  <2>. QED
    BY <2>5, <2>6
<1>2. CASE Removed
  <2>1. PICK c \in calls :
          /\ c.op = "delete" /\ UNCHANGED <<tab, gw, turns>>
          /\ InOrder(c)
          /\ IF c.st = "ok"
             THEN /\ list' = Listed(c, [list EXCEPT !.rows = @ \ {c.s}, !.busy = FALSE])
                  /\ Dropped(c.s, c.cap, calls \ {c}, view)
             ELSE /\ list' = Listed(c, [list EXCEPT !.busy = FALSE])
                  /\ calls' = calls \ {c} /\ UNCHANGED <<picked, view>>
    BY <1>2 DEF Removed, Answered
  <2>2. Follows
    BY <2>1, OrderFollows
  <2>3. DOMAIN list' = {"rows", "busy"} /\ list'.rows \subseteq spent.used
    <3>1. DOMAIN list = {"rows", "busy"} /\ list.rows \subseteq spent.used
      BY DEF RestInv, Base, UsedOK
    <3>2. PICK s : s = c.s
      OBVIOUS
    <3>3. \/ list' = list
          \/ list' = [list EXCEPT !.rows = @ \ {s}, !.busy = FALSE]
          \/ list' = [list EXCEPT !.busy = FALSE]
      BY <2>1, <3>2 DEF Listed
    <3>. QED
      BY <3>1, <3>3
  <2>4. ~Covers(c) /\ (Closes(c) => c.st = "ok" /\ c.s = c.cap)
    BY <2>1 DEF Covers, Fresh, Loader, SavesAgent, Closes, IsOwnOf
  <2>5. PICK s, cap : s = c.s /\ cap = c.cap
    OBVIOUS
  <2>6. CASE c.st = "ok" /\ s = cap
    <3>1. Dropped(s, cap, calls \ {c}, view)
      BY <2>1, <2>5, <2>6
    <3>. QED
      BY <2>1, <2>2, <2>3, <2>6, <3>1, DroppedRest
  <2>7. CASE ~(c.st = "ok" /\ s = cap)
    <3>1. calls' = calls \ {c} /\ UNCHANGED <<picked, view>>
      BY <2>1, <2>5, <2>7 DEF Dropped
    <3>. QED
      BY <2>1, <2>2, <2>3, <2>4, <2>5, <2>7, <3>1, EndsPlain
  <2>. QED
    BY <2>6, <2>7
<1>. QED
  BY <1>1, <1>2

\* A request after which the page is read again is sent.
LEMMA SendsCover ==
  ASSUME RestInv, NEW k, New(k), Covers(k), k.op \in {"send", "save"}, calls' = calls \cup {k},
         UNCHANGED <<tab, picked, list, gw, turns>>, view'.gen = view.gen, Follows
  PROVE  RestInv'
<1>1. Base'
  BY PageBase, NamedSame DEF RestInv, New
<1>2. SameOpening
  BY DEF SameOpening
<1>3. ~Spoils(k) /\ ~Loader(view, k)
  BY DEF Covers, Fresh, Spoils, Loader, IsOwnOf, SavesAgent
<1>4. \A d \in calls : d.n < k.n
  BY FreshNumber DEF New, RestInv, Base
<1>5. \A d \in calls' : d \in calls \/ (~Spoils(d) /\ (Writes(d) => Covers(d) \/ Drops(d)))
  BY <1>3
<1>6. \A d \in calls' : Spoils(d) => \E e \in calls' : Covers(e) /\ e.n > d.n
  BY <1>3, <1>4
<1>7. ASSUME PageInv PROVE PageInv'
  <2>1. calls \ {k} \subseteq calls' /\ k \in calls'
    OBVIOUS
  <2>. QED
    BY <1>2, <1>3, <1>5, <1>6, <1>7, <2>1, QuietStep
<1>. QED
  BY <1>1, <1>7 DEF RestInv, PageTrue, Follows

LEMMA SendRest ==
  ASSUME ShownInv, RestInv, Send \/ SaveAgent \/ SaveModel
  PROVE  RestInv'
<1>1. Follows
  BY ActFollows DEF Send, SaveAgent, SaveModel, Follows, ShownInv, SpentOK
<1>2. DOMAIN view = ViewFields
  BY DEF ShownInv, ViewOK, Fits
<1>3. picked # NoSession => picked \in spent.used
  BY DEF RestInv, Base, UsedOK
<1>4. CASE Send
  <2>1. PICK o, m, k : o = Call("send", picked) /\ m = NextTurn /\ k = [o EXCEPT !.turn = m]
    OBVIOUS
  <2>2. Sent(o, "send", picked)
    BY <2>1, CallSent
  <2>3. k = [o EXCEPT !.turn = m]
    BY <2>1
  <2>4. Sent(k, "send", picked)
    BY <2>2, <2>3 DEF Sent, Fields
  <2>5. calls' = calls \cup {k} /\ UNCHANGED <<tab, picked, list, gw, turns>> /\ picked # NoSession
    BY <1>4, <2>1 DEF Send
  <2>6. view'.gen = view.gen
    BY <1>2, <1>4 DEF Send, ViewFields
  <2>7. New(k) /\ Covers(k) /\ k.op = "send"
    BY <1>3, <2>4, <2>5 DEF Sent, New, Covers, IsOwnOf
  <2>. QED
    BY <1>1, <2>5, <2>6, <2>7, SendsCover
<1>5. CASE SaveAgent
  <2>1. PICK o, a, k : o = Call("save", picked) /\ a = view.agent /\ k = [o EXCEPT !.by = "agent", !.prev = a]
    OBVIOUS
  <2>2. Sent(o, "save", picked)
    BY <2>1, CallSent
  <2>3. k = [o EXCEPT !.by = "agent", !.prev = a]
    BY <2>1
  <2>4. Sent(k, "save", picked) /\ k.by = "agent"
    BY <2>2, <2>3 DEF Sent, Fields
  <2>5. calls' = calls \cup {k} /\ UNCHANGED <<tab, picked, list, gw, turns>> /\ picked # NoSession
    BY <1>5, <2>1 DEF SaveAgent
  <2>6. view'.gen = view.gen
    BY <1>2, <1>5 DEF SaveAgent, ViewFields
  <2>7. New(k) /\ Covers(k) /\ k.op = "save"
    BY <1>3, <2>4, <2>5 DEF Sent, New, Covers, SavesAgent
  <2>. QED
    BY <1>1, <2>5, <2>6, <2>7, SendsCover
<1>6. CASE SaveModel
  <2>1. PICK o, k : o = Call("save", picked) /\ k = [o EXCEPT !.by = "model"]
    OBVIOUS
  <2>2. Sent(o, "save", picked)
    BY <2>1, CallSent
  <2>3. k = [o EXCEPT !.by = "model"]
    BY <2>1
  <2>4. Sent(k, "save", picked) /\ k.by = "model"
    BY <2>2, <2>3 DEF Sent, Fields
  <2>5. calls' = calls \cup {k} /\ UNCHANGED <<tab, picked, list, gw, turns>> /\ picked # NoSession
    BY <1>6, <2>1 DEF SaveModel
  <2>6. view'.gen = view.gen /\ view'.msgs = view.msgs /\ view'.agent = view.agent
    BY <1>2, <1>6 DEF SaveModel, ViewFields
  <2>7. New(k) /\ ~Spoils(k) /\ ~Writes(k)
    BY <1>3, <2>4, <2>5 DEF Sent, New, Spoils, Loader, Writes, SavesAgent
  <2>8. DOMAIN list' = {"rows", "busy"} /\ list'.rows \subseteq spent.used
    BY <2>5 DEF RestInv, Base, UsedOK
  <2>. QED
    BY <1>1, <2>5, <2>6, <2>7, <2>8, SendsPlain
<1>. QED
  BY <1>4, <1>5, <1>6

\* The same requests, seen otherwise.
AsBefore(c, d) == d.n = c.n /\ d.op = c.op /\ d.st = c.st /\ d.s = c.s /\ d.turn = c.turn

LEMMA SeenBase ==
  ASSUME Base, UNCHANGED <<gw, turns>>, Follows, Named,
         \A d \in calls' : \E c \in calls : AsBefore(c, d),
         \A d, e \in calls' : d.n = e.n => d = e,
         \A c \in calls : c.op = "send" => \E d \in calls' : AsBefore(c, d)
  PROVE  Base'
<1>1. Numbered'
  BY DEF Base, Numbered, AsBefore
<1>2. UsedOK'
  BY DEF Base, UsedOK, Follows, Named, AsBefore
<1>3. ASSUME spent'.calm PROVE Served'
  <2>0. Served
    BY <1>3 DEF Base, Follows
  <2>1. \A d, e \in calls' : InTurn(d, e)
    <3>. SUFFICES ASSUME NEW d \in calls', NEW e \in calls' PROVE InTurn(d, e)
      OBVIOUS
    <3>1. PICK b \in calls, c \in calls : AsBefore(b, d) /\ AsBefore(c, e)
      OBVIOUS
    <3>. QED
      BY <2>0, <3>1 DEF Served, InTurn, Pending, AsBefore
  <2>2. \A t \in turns : HasPost(t)'
    BY <2>0 DEF Served, HasPost, AsBefore
  <2>3. \A d \in calls' : Course(d)
    BY <2>0 DEF Served, Course, AsBefore
  <2>4. \A d \in calls' : SaysGone(d) => d.s \notin DOMAIN gw
    BY <2>0 DEF Served, SaysGone, AsBefore
  <2>. QED
    BY <2>1, <2>2, <2>3, <2>4 DEF Served
<1>. QED
  BY <1>1, <1>2, <1>3 DEF Base

LEMMA TabRest ==
  ASSUME ShownInv, RestInv, LeaveChat \/ OpenChat
  PROVE  RestInv'
<1>1. CASE LeaveChat
  <2>1. Follows
    BY <1>1, ActFollows DEF LeaveChat
  <2>2. /\ tab' = "away" /\ list' = BlankList /\ UNCHANGED <<picked, gw, turns>>
        /\ LET cur(c) == IF c.orphan THEN c.cur ELSE c.s = picked /\ (c.gen = view.gen \/ c.op = "save")
           IN calls' = {[c EXCEPT !.orphan = TRUE, !.cur = cur(c)]
                        : c \in {d \in calls : cur(d) \/ d.op \notin {"load", "probe", "wait"}}}
    BY <1>1 DEF LeaveChat
  <2>. DEFINE cur(c) == IF c.orphan THEN c.cur ELSE c.s = picked /\ (c.gen = view.gen \/ c.op = "save")
              left(c) == [c EXCEPT !.orphan = TRUE, !.cur = cur(c)]
  <2>3. calls' = {left(c) : c \in {d \in calls : cur(d) \/ d.op \notin {"load", "probe", "wait"}}}
    BY <2>2
  <2>4. \A c \in calls : AsBefore(c, left(c))
    <3>. SUFFICES ASSUME NEW c \in calls PROVE AsBefore(c, left(c))
      OBVIOUS
    <3>1. PICK u : u = cur(c)
      OBVIOUS
    <3>2. PICK d : d = [c EXCEPT !.orphan = TRUE, !.cur = u]
      OBVIOUS
    <3>3. AsBefore(c, d)
      BY <3>2 DEF AsBefore, ShownInv, CallsOK, CallOK, Fields
    <3>. QED
      BY <3>1, <3>2, <3>3
  <2>. HIDE DEF left, cur
  <2>5. \A d \in calls' : \E c \in calls : d = left(c) /\ AsBefore(c, d)
    BY <2>3, <2>4
  <2>6. \A d, e \in calls' : d.n = e.n => d = e
    <3>. SUFFICES ASSUME NEW d \in calls', NEW e \in calls', d.n = e.n PROVE d = e
      OBVIOUS
    <3>1. PICK b \in calls, c \in calls : d = left(b) /\ AsBefore(b, d) /\ e = left(c) /\ AsBefore(c, e)
      BY <2>5
    <3>2. b = c
      BY <3>1 DEF AsBefore, RestInv, Base, Numbered
    <3>. QED
      BY <3>1, <3>2
  <2>7. \A c \in calls : c.op = "send" => \E d \in calls' : AsBefore(c, d)
    BY <2>3, <2>4
  <2>8. Named
    BY <2>2 DEF Named, BlankList, RestInv, Base, UsedOK
  <2>9. Base'
    BY <2>1, <2>2, <2>5, <2>6, <2>7, <2>8, SeenBase DEF RestInv
  <2>. QED
    BY <2>2, <2>9 DEF RestInv, PageTrue
<1>2. CASE OpenChat
  <2>1. PICK s \in {picked} \cup DOMAIN gw :
          /\ picked' = s
          /\ view' = [Blank(1) EXCEPT !.loading = s # NoSession]
          /\ calls' = calls \cup IF s = NoSession THEN {} ELSE {[Call("load", s) EXCEPT !.gen = 1, !.by = "effect"]}
    BY <1>2 DEF OpenChat
  <2>2. UNCHANGED <<gw, turns, spent>> /\ list' = [BlankList EXCEPT !.rows = DOMAIN gw] /\ tab' = "chat"
    BY <1>2 DEF OpenChat
  <2>3. s # NoSession => s \in spent.used
    BY <2>1 DEF RestInv, Base, UsedOK
  <2>4. Follows /\ Named
    BY <2>1, <2>2, <2>3 DEF Follows, Named, BlankList, RestInv, Base, UsedOK
  <2>5. PICK l : l = OpeningLoad(s, 1)
    OBVIOUS
  <2>6. l.n = FreshN /\ l.op = "load" /\ l.s = s /\ l.st = "sent" /\ ~l.orphan /\ l.gen = 1
    BY <2>5, OpeningSent
  <2>7. CASE s = NoSession
    <3>1. calls' = calls
      BY <2>1, <2>7
    <3>2. PICK k : New(k)
      <4>1. PICK k : k = Call("create", NoSession)
        OBVIOUS
      <4>. QED
        BY <4>1, CallSent DEF Sent, New
    <3>3. Base'
      BY <2>2, <2>4, <3>1, <3>2, PageBase DEF RestInv, New
    <3>. QED
      BY <2>1, <2>7, <3>3 DEF RestInv, PageTrue
  <2>8. CASE s # NoSession
    <3>1. calls' = calls \cup {l}
      BY <2>1, <2>5, <2>8 DEF OpeningLoad
    <3>2. New(l)
      BY <2>3, <2>6, <2>8 DEF New
    <3>3. Base'
      BY <2>2, <2>4, <3>1, <3>2, PageBase DEF RestInv, New
    <3>4. view'.gen = 1
      BY <2>1 DEF Blank
    <3>5. Loader(view, l)'
      BY <2>1, <2>6, <3>4 DEF Loader, IsOwnOf
    <3>6. \A d \in calls' : d.n <= l.n
      BY <2>6, <3>1, FreshNumber DEF RestInv, Base
    <3>7. PageInv'
      BY <2>6, <3>1, <3>3, <3>5, <3>6, LoadCovers DEF Base
    <3>. QED
      BY <3>3, <3>7 DEF RestInv, PageTrue
  <2>. QED
    BY <2>7, <2>8
<1>. QED
  BY <1>1, <1>2

\* Once something was out of order, only the numbers and the names matter.
LEMMA TroubleRest ==
  ASSUME RestInv, UNCHANGED <<list, picked>>, DOMAIN gw' \subseteq DOMAIN gw,
         spent'.used = spent.used, ~spent'.calm,
         \A d \in calls' : \E c \in calls : d.n = c.n /\ d.op = c.op /\ d.s = c.s /\ (d.st = "ok" => c.st = "ok"),
         \A d, e \in calls' : d.n = e.n => d = e
  PROVE  RestInv'
<1>1. Numbered'
  BY DEF RestInv, Base, Numbered
<1>2. UsedOK'
  BY DEF RestInv, Base, UsedOK
<1>. QED
  BY <1>1, <1>2 DEF RestInv, Base, PageTrue

\* One request goes on, with its number.
LEMMA OneNumber ==
  ASSUME Numbered, NEW c \in calls, NEW d, Become(c, d), d.n = c.n
  PROVE  \A e, f \in calls' : e.n = f.n => e = f
BY DEF Numbered, Become

LEMMA StreamRest ==
  ASSUME ShownInv, RestInv, Delta \/ Stop
  PROVE  RestInv'
<1>1. CASE Delta
  <2>1. PICK c \in calls : /\ c.op = "send" /\ c.st = "run" /\ StillCurrent(c) /\ ~c.orphan
                           /\ view' = [Heard(view, c) EXCEPT !.stream = "streaming"]
    BY <1>1 DEF Delta
  <2>2. UNCHANGED <<tab, picked, list, calls, gw, turns, spent>>
    BY <1>1 DEF Delta
  <2>3. view'.gen = view.gen
    BY <2>1 DEF Heard, ShownInv, ViewOK, Fits, ViewFields
  <2>4. Covers(c) /\ ~Loader(view, c)
    BY <2>1 DEF Covers, IsOwnOf, StillCurrent, Loader
  <2>5. SameOpening
    BY <2>2, <2>3 DEF SameOpening
  <2>6. Base'
    BY <2>2 DEF RestInv, Base, Numbered, UsedOK, Served, HasPost
  <2>7. ASSUME PageInv PROVE PageInv'
    <3>1. picked \in DOMAIN gw => \A d \in calls' : Spoils(d) => \E e \in calls' : Covers(e) /\ e.n > d.n
      BY <2>2, <2>7 DEF PageInv
    <3>. QED
      BY <2>2, <2>4, <2>5, <2>7, <3>1, QuietStep
  <2>. QED
    BY <2>2, <2>6, <2>7 DEF RestInv, PageTrue
<1>2. CASE Stop
  <2>1. PICK c \in calls : Become(c, [c EXCEPT !.st = "abort"])
    BY <1>2 DEF Stop
  <2>2. PICK d : d = [c EXCEPT !.st = "abort"]
    OBVIOUS
  <2>3. d.n = c.n /\ d.op = c.op /\ d.s = c.s /\ d.st = "abort"
    BY <2>2 DEF ShownInv, CallsOK, CallOK, Fields
  <2>4. Become(c, d) /\ UNCHANGED <<list, picked, gw>> /\ spent'.used = spent.used /\ ~spent'.calm
    BY <1>2, <2>1, <2>2 DEF Stop, ShownInv, SpentOK
  <2>5. \A e, f \in calls' : e.n = f.n => e = f
    BY <2>3, <2>4, OneNumber DEF RestInv, Base
  <2>6. \A e \in calls' : \E b \in calls : e.n = b.n /\ e.op = b.op /\ e.s = b.s /\ (e.st = "ok" => b.st = "ok")
    BY <2>3, <2>4 DEF Become
  <2>. QED
    BY <2>4, <2>5, <2>6, TroubleRest
<1>. QED
  BY <1>1, <1>2

\* The end of a load leaves what it shows.
LEMMA EndsKeeps ==
  ASSUME NEW v, DOMAIN v = ViewFields, NEW c
  PROVE  Ends(v, c).gen = v.gen /\ Ends(v, c).msgs = v.msgs /\ Ends(v, c).agent = v.agent
<1>1. PICK w : w = IF c.by = "save" THEN [v EXCEPT !.saving = FALSE] ELSE v
  OBVIOUS
<1>2. DOMAIN w = ViewFields /\ w.gen = v.gen /\ w.msgs = v.msgs /\ w.agent = v.agent
  BY <1>1 DEF ViewFields
<1>3. Ends(v, c) = IF ~StillCurrent(c) THEN w
                   ELSE IF c.by = "send"
                   THEN [w EXCEPT !.sending = FALSE, !.loading = FALSE,
                                  !.stream = IF @ \in {"connecting", "streaming", "reconnect"} THEN "idle" ELSE @]
                   ELSE [w EXCEPT !.loading = FALSE]
  BY <1>1, Zenon DEF Ends
<1>. QED
  BY <1>2, <1>3 DEF ViewFields

LEMMA LoadRest ==
  ASSUME ShownInv, RestInv, LoadArrives
  PROVE  RestInv'
<1>1. PICK c \in calls :
        /\ c.op = "load" /\ c.st \notin {"sent", "run"} /\ InOrder(c) /\ UNCHANGED <<tab, list, gw, turns>>
        /\ IF StillCurrent(c) /\ c.st = "gone" THEN Gone(c, Ends([view EXCEPT !.err = "fail"], c))
           ELSE /\ view' = Page(c, Ends(IF ~StillCurrent(c) THEN view
                                        ELSE IF c.st # "ok" THEN [view EXCEPT !.err = "fail"]
                                        ELSE [view EXCEPT !.msgs = c.got.rows, !.agent = c.got.agent, !.err = "none"], c))
                /\ calls' = calls \ {c} /\ UNCHANGED picked
  BY DEF LoadArrives, Answered
<1>2. Follows /\ (spent'.calm => Oldest(c, calls))
  BY <1>1, OrderFollows
<1>3. DOMAIN view = ViewFields
  BY DEF ShownInv, ViewOK, Fits
<1>4. DOMAIN list' = {"rows", "busy"} /\ list'.rows \subseteq spent.used
  BY <1>1 DEF RestInv, Base, UsedOK
<1>5. CASE StillCurrent(c) /\ c.st = "gone"
  <2>1. PICK s, v : s = c.s /\ Dropped(s, s, calls \ {c}, v)
    BY <1>1, <1>5 DEF Gone
  <2>. QED
    BY <1>1, <1>2, <1>4, <2>1, DroppedRest
<1>6. CASE ~(StillCurrent(c) /\ c.st = "gone")
  <2>0. calls' = calls \ {c} /\ UNCHANGED <<tab, picked, list, gw, turns>>
    BY <1>1, <1>6
  <2>1. CASE c.orphan
    <3>1. view' = view
      BY <1>1, <1>6, <2>1 DEF Page
    <3>2. ~Covers(c) /\ ~Closes(c)
      BY <2>1 DEF Covers, Fresh, Loader, IsOwnOf, Closes
    <3>. QED
      BY <1>1, <1>2, <1>4, <2>0, <3>1, <3>2, EndsPlain
  <2>2. CASE ~c.orphan /\ ~StillCurrent(c)
    <3>1. view' = Ends(view, c)
      BY <1>1, <1>6, <2>2 DEF Page
    <3>2. view'.gen = view.gen /\ view'.msgs = view.msgs /\ view'.agent = view.agent
      BY <1>3, <3>1, EndsKeeps
    <3>3. ~Covers(c) /\ ~Closes(c)
      BY <1>1, <2>2 DEF Covers, Fresh, Loader, IsOwnOf, SavesAgent, Closes, StillCurrent
    <3>. QED
      BY <1>1, <1>2, <1>4, <2>0, <3>2, <3>3, EndsPlain
  <2>3. CASE ~c.orphan /\ StillCurrent(c)
    <3>1. Loader(view, c)
      BY <1>1, <2>3 DEF Loader, IsOwnOf, StillCurrent
    <3>2. Base'
      BY <1>1, <1>2, <2>0, PageBase, NamedSame DEF RestInv
    <3>3. ASSUME spent'.calm, PageInv PROVE PageInv'
      <4>1. c.st = "ok"
        BY <1>1, <1>2, <1>6, <2>3, <3>3 DEF RestInv, Base, Follows, Served, Course
      <4>2. PICK q, a, w : q = c.got.rows /\ a = c.got.agent /\ w = [view EXCEPT !.msgs = q, !.agent = a, !.err = "none"]
        OBVIOUS
      <4>3. view' = Ends(w, c)
        BY <1>1, <2>3, <4>1, <4>2 DEF Page
      <4>4. DOMAIN w = ViewFields /\ w.gen = view.gen /\ w.msgs = q /\ w.agent = a
        BY <1>3, <4>2 DEF ViewFields
      <4>5. view'.gen = view.gen /\ view'.msgs = c.got.rows /\ view'.agent = c.got.agent
        <5>1. Ends(w, c).gen = w.gen /\ Ends(w, c).msgs = w.msgs /\ Ends(w, c).agent = w.agent
          BY <4>4, EndsKeeps
        <5>. QED
          BY <4>2, <4>3, <4>4, <5>1
      <4>6. SameOpening
        BY <2>0, <4>5 DEF SameOpening
      <4>7. ASSUME picked \in DOMAIN gw, NEW d \in calls, Spoils(d)
            PROVE  \E e \in calls \ {c} : Covers(e) /\ e.n > d.n
        <5>1. PICK e \in calls : Covers(e) /\ e.n > d.n
          BY <3>3, <4>7 DEF PageInv
        <5>2. c.n <= d.n /\ c.n \in Nat /\ d.n \in Nat /\ e.n \in Nat
          BY <1>2, <3>3 DEF Oldest, RestInv, Base, Numbered
        <5>. QED
          BY <5>1, <5>2
      <4>8. picked \in DOMAIN gw => Shown' \/ \E d \in calls' : Covers(d)
        <5>1. CASE c.got = gw[picked]
          BY <2>0, <4>5, <5>1 DEF Shown
        <5>2. CASE c.got # gw[picked]
          BY <2>0, <3>1, <4>1, <4>7, <5>2 DEF Spoils
        <5>. QED
          BY <5>1, <5>2
      <4>9. ~Closes(c) /\ ~(Loader(view, c) /\ c.st = "sent")
        BY <1>1, <4>1 DEF Closes
      <4>. QED
        BY <2>0, <3>3, <4>6, <4>7, <4>8, <4>9, QuietStep
    <3>. QED
      BY <1>2, <2>0, <3>2, <3>3 DEF RestInv, PageTrue, Follows
  <2>. QED
    BY <2>1, <2>2, <2>3
<1>. QED
  BY <1>5, <1>6

\* A request that is taken back waits: its session is gone, or something was out of order.
LEMMA WaitBase ==
  ASSUME Base, NEW c \in calls, NEW d, Become(c, d), d.n = c.n, d.s = c.s, c.op # "create",
         d.op \in {"wait", "probe"}, spent.calm => d.st = "sent", ~(c.op = "send" /\ c.st = "run"),
         spent.calm => SaysGone(c),
         UNCHANGED <<picked, list, gw, turns>>, Follows
  PROVE  Base'
<1>1. calls' = (calls \ {c}) \cup {d}
  BY DEF Become
<1>2. Numbered'
  <2>1. \A e, f \in calls' : e.n = f.n => e = f
    BY OneNumber DEF Base
  <2>2. (\A e \in calls' : e.n \in Nat) /\ \E top \in Nat : \A e \in calls' : e.n <= top
    BY <1>1 DEF Base, Numbered
  <2>. QED
    BY <2>1, <2>2 DEF Numbered
<1>3. UsedOK'
  BY <1>1 DEF Base, UsedOK, Follows
<1>4. ASSUME spent'.calm PROVE Served'
  <2>0. Served /\ d.st = "sent"
    BY <1>4 DEF Base, Follows
  <2>1. \A e, f \in calls' : InTurn(e, f)
    BY <1>1, <2>0 DEF Served, InTurn, Pending
  <2>2. \A t \in turns : HasPost(t)'
    BY <1>1, <2>0 DEF Served, HasPost
  <2>3. \A e \in calls' : Course(e)
    BY <1>1, <2>0 DEF Served, Course
  <2>4. \A e \in calls' : SaysGone(e) => e.s \notin DOMAIN gw
    BY <1>1, <1>4, <2>0 DEF Served, SaysGone, Follows
  <2>. QED
    BY <2>1, <2>2, <2>3, <2>4 DEF Served
<1>. QED
  BY <1>2, <1>3, <1>4 DEF Base

LEMMA WaitRest ==
  ASSUME RestInv, NEW c \in calls, NEW d, Become(c, d), d.n = c.n, d.s = c.s, c.op \in {"send", "wait", "probe"},
         d.op \in {"wait", "probe"}, spent.calm => d.st = "sent", d.orphan = c.orphan, d.gen = c.gen,
         ~(c.op = "send" /\ c.st = "run"),
         spent.calm => SaysGone(c), StillCurrent(c),
         view'.gen = view.gen, c.orphan => view' = view,
         UNCHANGED <<tab, picked, list, gw, turns>>, Follows
  PROVE  RestInv'
<1>1. Base'
  BY WaitBase DEF RestInv
<1>2. calls' = (calls \ {c}) \cup {d}
  BY DEF Become
<1>3. SameOpening
  BY DEF SameOpening
<1>4. ~Spoils(d) /\ ~Writes(d)
  BY DEF Spoils, Loader, SavesAgent, Writes
<1>5. ASSUME spent'.calm, PageInv PROVE PageInv'
  <2>1. c.s \notin DOMAIN gw
    BY <1>5 DEF RestInv, Base, Follows, Served
  <2>2. CASE c.orphan
    <3>1. ~Covers(c) /\ ~Closes(c)
      BY <2>2 DEF Covers, Fresh, Loader, IsOwnOf, Closes
    <3>. QED
      BY <1>2, <1>3, <1>4, <1>5, <2>2, <3>1, PlainStep
  <2>3. CASE ~c.orphan
    <3>1. Closes(c) => Closes(d)
      BY DEF Closes, Loader, IsOwnOf
    <3>2. picked \notin DOMAIN gw
      BY <2>1, <2>3 DEF StillCurrent
    <3>3. ~(Loader(view, c) /\ c.st = "sent") /\ d \in calls' /\ calls \ {c} \subseteq calls'
      BY <1>2 DEF Loader
    <3>4. \A e \in calls' : e \in calls \/ (~Spoils(e) /\ (Writes(e) => Covers(e) \/ Drops(e)))
      BY <1>2, <1>4
    <3>. QED
      BY <1>3, <1>5, <3>1, <3>2, <3>3, <3>4, QuietStep
  <2>. QED
    BY <2>2, <2>3
<1>. QED
  BY <1>1, <1>5 DEF RestInv, PageTrue, Follows

\* The answer of a turn.
LEMMA TurnRest ==
  ASSUME ShownInv, RestInv, SendArrives
  PROVE  RestInv'
<1>1. PICK c \in calls :
        /\ c.op = "send" /\ c.st \notin {"sent", "run"} /\ SendAnswered(c) /\ InOrder(c)
        /\ UNCHANGED <<tab, picked, list, gw, turns>>
  BY DEF SendArrives, Answered
<1>2. Follows
  BY <1>1, OrderFollows
<1>3. DOMAIN view = ViewFields /\ DOMAIN c = Fields
  BY DEF ShownInv, ViewOK, Fits, CallsOK, CallOK
<1>4. Named
  BY <1>1, NamedSame DEF RestInv
<1>5. DOMAIN list' = {"rows", "busy"} /\ list'.rows \subseteq spent.used
  BY <1>1 DEF RestInv, Base, UsedOK
<1>6. spent.calm => c.st \in {"ok", "gone"}
  BY <1>1 DEF RestInv, Base, Served, Course
<1>7. CASE ~StillCurrent(c)
  <2>1. view' = view /\ calls' = calls \ {c}
    BY <1>1, <1>7 DEF SendAnswered
  <2>2. ~Covers(c) /\ ~Closes(c)
    BY <1>1, <1>7 DEF Covers, Fresh, Loader, IsOwnOf, SavesAgent, Closes, StillCurrent
  <2>. QED
    BY <1>1, <1>2, <1>5, <2>1, <2>2, EndsPlain
<1>8. CASE StillCurrent(c) /\ c.st = "ok"
  <2>1. PICK l, w : l = FollowOf(c, c.gen, "send") /\ w = IF c.json THEN Heard(view, c) ELSE view
    OBVIOUS
  <2>2. view' = Page(c, [w EXCEPT !.stream = "idle"]) /\ calls' = (calls \ {c}) \cup {l}
    BY <1>1, <1>8, <2>1 DEF SendAnswered, LoadOfTurn, FollowOf
  <2>3. l.n = FreshN /\ l.op = "load" /\ l.s = c.s /\ l.st = "sent" /\ l.gen = c.gen /\ l.orphan = c.orphan
    BY <2>1, FollowSent
  <2>4. New(l)
    BY <1>1, <2>3 DEF New, RestInv, Base, UsedOK
  <2>5. Base'
    BY <1>1, <1>2, <1>4, <1>8, <2>2, <2>4, PageBase DEF RestInv
  <2>6. CASE c.orphan
    <3>1. view' = view
      BY <2>2, <2>6 DEF Page
    <3>2. ~Covers(c) /\ ~Closes(c) /\ ~Spoils(l) /\ ~Writes(l)
      BY <1>1, <2>3, <2>6 DEF Covers, Fresh, Loader, IsOwnOf, SavesAgent, Closes, Spoils, Writes
    <3>3. SameOpening
      BY <1>1, <3>1 DEF SameOpening
    <3>4. PageInv => PageInv'
      BY <2>2, <3>1, <3>2, <3>3, PlainStep
    <3>. QED
      BY <1>1, <1>2, <2>5, <3>4 DEF RestInv, PageTrue, Follows
  <2>7. CASE ~c.orphan
    <3>1. view'.gen = view.gen
      BY <1>3, <2>1, <2>2, <2>7 DEF Page, Heard, ViewFields
    <3>2. Loader(view, l)' /\ l \in calls'
      BY <1>1, <1>8, <2>2, <2>3, <2>7, <3>1 DEF Loader, IsOwnOf, StillCurrent
    <3>3. \A d \in calls' : d.n <= l.n
      BY <2>2, <2>3, FreshNumber DEF RestInv, Base
    <3>4. PageInv'
      BY <2>3, <2>5, <3>2, <3>3, LoadCovers DEF Base
    <3>. QED
      BY <2>5, <3>4 DEF RestInv, PageTrue
  <2>. QED
    BY <2>6, <2>7
<1>9. CASE StillCurrent(c) /\ c.st = "abort"
  <2>1. calls' = calls \ {c}
    BY <1>1, <1>9 DEF SendAnswered
  <2>2. Base'
    BY <1>1, <1>2, <1>4, <1>9, <2>1, PageBase DEF RestInv
  <2>. QED
    BY <1>2, <1>6, <1>9, <2>2 DEF RestInv, PageTrue, Follows
<1>10. CASE StillCurrent(c) /\ c.st \in {"fail", "gone"}
  <2>1. PICK d : d = [c EXCEPT !.op = "wait", !.st = "sent"]
    OBVIOUS
  <2>2. view' = Page(c, FailedView(view, c)) /\ Become(c, d)
    BY <1>1, <1>10, <2>1 DEF SendAnswered
  <2>3. d.n = c.n /\ d.op = "wait" /\ d.s = c.s /\ d.st = "sent" /\ d.gen = c.gen /\ d.orphan = c.orphan
    BY <1>3, <2>1 DEF Fields
  <2>4. view'.gen = view.gen /\ (c.orphan => view' = view)
    BY <1>3, <2>2 DEF Page, FailedView, ViewFields
  <2>5. spent.calm => SaysGone(c)
    BY <1>6, <1>10 DEF SaysGone
  <2>. QED
    BY <1>1, <1>2, <1>10, <2>2, <2>3, <2>4, <2>5, WaitRest
<1>. QED
  BY <1>1, <1>7, <1>8, <1>9, <1>10 DEF SendAnswered

\* The page asks again, and hears that its session is gone.
LEMMA ProbeRest ==
  ASSUME ShownInv, RestInv, WaitOver \/ ProbeArrives
  PROVE  RestInv'
<1>1. DOMAIN list = {"rows", "busy"} /\ list.rows \subseteq spent.used
  BY DEF RestInv, Base, UsedOK
<1>2. CASE WaitOver
  <2>1. PICK c \in calls : /\ c.op = "wait"
                           /\ IF StillCurrent(c) THEN Become(c, [c EXCEPT !.op = "probe"]) ELSE calls' = calls \ {c}
    BY <1>2 DEF WaitOver, Retried
  <2>2. UNCHANGED <<tab, picked, list, view, gw, turns, spent>> /\ Follows
    BY <1>2 DEF WaitOver, Follows
  <2>3. CASE ~StillCurrent(c)
    <3>1. ~Covers(c) /\ ~Closes(c)
      BY <2>1, <2>3 DEF Covers, Fresh, Loader, IsOwnOf, SavesAgent, Closes, StillCurrent
    <3>. QED
      BY <1>1, <2>1, <2>2, <2>3, <3>1, EndsPlain
  <2>4. CASE StillCurrent(c)
    <3>1. PICK d : d = [c EXCEPT !.op = "probe"]
      OBVIOUS
    <3>2. d.n = c.n /\ d.op = "probe" /\ d.s = c.s /\ d.st = c.st /\ d.gen = c.gen /\ d.orphan = c.orphan
      BY <3>1 DEF ShownInv, CallsOK, CallOK, Fields
    <3>3. Become(c, d)
      BY <2>1, <2>4, <3>1
    <3>4. spent.calm => SaysGone(c)
      BY <2>1 DEF SaysGone
    <3>5. spent.calm => d.st = "sent"
      BY <2>1, <3>2 DEF RestInv, Base, Served, Course
    <3>. QED
      BY <2>1, <2>2, <2>4, <3>2, <3>3, <3>4, <3>5, WaitRest
  <2>. QED
    BY <2>3, <2>4
<1>3. CASE ProbeArrives
  <2>1. PICK w : w = [view EXCEPT !.err = "fail", !.stream = "error", !.sending = FALSE]
    OBVIOUS
  <2>2. PICK c \in calls :
          /\ c.op = "probe" /\ c.st \notin {"sent", "run"} /\ InOrder(c) /\ UNCHANGED <<tab, list, gw, turns>>
          /\ IF StillCurrent(c) /\ c.st = "gone" THEN Gone(c, w)
             ELSE /\ view' = IF StillCurrent(c) THEN Page(c, w) ELSE view
                  /\ calls' = calls \ {c} /\ UNCHANGED picked
    BY <1>3, <2>1 DEF ProbeArrives, Answered
  <2>3. Follows
    BY <2>2, OrderFollows
  <2>4. CASE StillCurrent(c) /\ c.st = "gone"
    <3>1. PICK s, v : s = c.s /\ Dropped(s, s, calls \ {c}, v)
      BY <2>2, <2>4 DEF Gone
    <3>. QED
      BY <1>1, <2>2, <2>3, <3>1, DroppedRest
  <2>5. CASE ~(StillCurrent(c) /\ c.st = "gone")
    <3>1. view'.gen = view.gen /\ view'.msgs = view.msgs /\ view'.agent = view.agent
      BY <2>1, <2>2, <2>5 DEF Page, ShownInv, ViewOK, Fits, ViewFields
    <3>2. spent.calm => ~StillCurrent(c)
      BY <2>2, <2>5 DEF RestInv, Base, Served, Course
    <3>3. spent.calm => ~Covers(c) /\ ~Closes(c)
      BY <2>2, <3>2 DEF Covers, Fresh, Loader, IsOwnOf, SavesAgent, Closes, StillCurrent
    <3>. QED
      BY <1>1, <2>2, <2>3, <2>5, <3>1, <3>3, EndsPlain
  <2>. QED
    BY <2>4, <2>5
<1>. QED
  BY <1>2, <1>3

\* The answer of a save.
LEMMA SavedRest ==
  ASSUME ShownInv, RestInv, SaveArrives
  PROVE  RestInv'
<1>1. PICK c, l :
        /\ c \in calls /\ c.op = "save" /\ c.st \notin {"sent", "run"} /\ InOrder(c)
        /\ UNCHANGED <<tab, picked, list, gw, turns>>
        /\ l = FollowOf(c, view.gen, "save")
        /\ IF c.st # "ok" THEN view' = Page(c, Restored(c)) /\ calls' = calls \ {c}
           ELSE IF c.by = "agent"
           THEN view' = Page(c, [view EXCEPT !.err = "none"]) /\ Become(c, l)
           ELSE view' = Page(c, [view EXCEPT !.err = "none", !.saving = FALSE]) /\ calls' = calls \ {c}
  BY DEF SaveArrives, Saved, Answered, FollowOf
<1>2. Follows /\ (spent'.calm => Oldest(c, calls))
  BY <1>1, OrderFollows
<1>3. DOMAIN view = ViewFields
  BY DEF ShownInv, ViewOK, Fits
<1>4. Named
  BY <1>1, NamedSame DEF RestInv
<1>5. DOMAIN list' = {"rows", "busy"} /\ list'.rows \subseteq spent.used
  BY <1>1 DEF RestInv, Base, UsedOK
<1>6. ~Closes(c) /\ ~Loader(view, c)
  BY <1>1 DEF Closes, Loader
<1>7. view'.gen = view.gen /\ view'.msgs = view.msgs
  BY <1>1, <1>3 DEF Page, Restored, ViewFields
<1>8. SameOpening
  BY <1>1, <1>7 DEF SameOpening
<1>9. CASE c.st = "ok" /\ c.by = "agent"
  <2>1. calls' = (calls \ {c}) \cup {l} /\ view'.agent = view.agent
    BY <1>1, <1>3, <1>9 DEF Become, Page, ViewFields
  <2>2. l.n = FreshN /\ l.op = "load" /\ l.s = c.s /\ l.st = "sent" /\ l.gen = view.gen /\ l.orphan = c.orphan
    BY <1>1, FollowSent
  <2>3. New(l)
    BY <1>1, <2>2 DEF New, RestInv, Base, UsedOK
  <2>4. Base'
    BY <1>1, <1>2, <1>4, <2>1, <2>3, PageBase DEF RestInv
  <2>5. CASE ~c.orphan /\ c.s = picked
    <3>1. Loader(view, l)' /\ l \in calls'
      BY <1>1, <1>7, <2>1, <2>2, <2>5 DEF Loader, IsOwnOf
    <3>2. \A d \in calls' : d.n <= l.n
      BY <2>1, <2>2, FreshNumber DEF RestInv, Base
    <3>3. PageInv'
      BY <2>2, <2>4, <3>1, <3>2, LoadCovers DEF Base
    <3>. QED
      BY <2>4, <3>3 DEF RestInv, PageTrue
  <2>6. CASE ~(~c.orphan /\ c.s = picked)
    <3>1. ~Covers(c) /\ ~Spoils(l) /\ ~Writes(l)
      BY <1>1, <1>6, <2>2, <2>6 DEF Covers, Fresh, Loader, IsOwnOf, SavesAgent, Spoils, Writes
    <3>2. PageInv => PageInv'
      BY <1>6, <1>7, <1>8, <2>1, <3>1, PlainStep
    <3>. QED
      BY <1>1, <1>2, <2>4, <3>2 DEF RestInv, PageTrue, Follows
  <2>. QED
    BY <2>5, <2>6
<1>10. CASE c.by # "agent" \/ c.orphan
  <2>1. CASE c.st = "ok" /\ c.by = "agent"
    BY <1>9, <2>1
  <2>2. CASE ~(c.st = "ok" /\ c.by = "agent")
    <3>1. calls' = calls \ {c}
      BY <1>1, <2>2
    <3>2. view'.agent = view.agent
      BY <1>1, <1>3, <1>10 DEF Page, Restored, ViewFields
    <3>3. ~Covers(c)
      BY <1>1, <1>6, <1>10 DEF Covers, Fresh, IsOwnOf, SavesAgent
    <3>. QED
      BY <1>1, <1>2, <1>5, <1>6, <1>7, <3>1, <3>2, <3>3, EndsPlain
  <2>. QED
    BY <2>1, <2>2
<1>11. CASE c.by = "agent" /\ ~c.orphan /\ c.st # "ok"
  <2>1. calls' = calls \ {c}
    BY <1>1, <1>11
  <2>2. Base'
    BY <1>1, <1>2, <1>4, <2>1, PageBase DEF RestInv
  <2>3. ASSUME spent'.calm, PageInv PROVE PageInv'
    <3>1. c.s \notin DOMAIN gw
      BY <1>1, <1>2, <1>11, <2>3 DEF RestInv, Base, Follows, Served, Course, SaysGone
    <3>2. picked \in DOMAIN gw => Spoils(c) /\ ~Covers(c)
      BY <1>1, <1>6, <1>11, <3>1 DEF Spoils, Covers, Fresh, IsOwnOf, SavesAgent
    <3>3. picked \in DOMAIN gw => \E e \in calls' : Covers(e)
      BY <1>1, <2>1, <2>3, <3>2 DEF PageInv
    <3>. QED
      BY <1>6, <1>8, <2>1, <2>3, <3>2, <3>3, QuietStep
  <2>. QED
    BY <1>1, <1>2, <2>2, <2>3 DEF RestInv, PageTrue, Follows
<1>. QED
  BY <1>9, <1>10, <1>11

-----------------------------------------------------------------------------
(* The gateway *)

\* What the gateway leaves of a request that it serves.
Moved(c, d) ==
  /\ d.n = c.n /\ d.op = c.op /\ d.s = c.s /\ d.gen = c.gen /\ d.by = c.by /\ d.orphan = c.orphan
  /\ d.cap = c.cap /\ d.turn = c.turn

\* A request that is served in order keeps the order, whatever state it comes to.
LEMMA ServedInTurn ==
  ASSUME Numbered, NEW c \in calls, Pending(c), NEW d, Become(c, d), d.n = c.n, d.op = c.op,
         \A e, f \in calls : InTurn(e, f), \A e \in calls : Pending(e) => c.n <= e.n
  PROVE  \A e, f \in calls' : InTurn(e, f)
<1>. SUFFICES ASSUME NEW e \in calls', NEW f \in calls' PROVE InTurn(e, f)
  OBVIOUS
<1>1. CASE f = d
  <2>1. CASE e = d
    BY <1>1, <2>1 DEF InTurn
  <2>2. CASE e # d
    BY <1>1, <2>2 DEF InTurn, Become
  <2>. QED
    BY <2>1, <2>2
<1>2. CASE f # d /\ e = d
  <2>1. f \in calls /\ f # c /\ f.n # c.n /\ f.n \in Nat /\ c.n \in Nat
    BY <1>2 DEF Become, Numbered
  <2>. QED
    BY <1>2, <2>1 DEF InTurn
<1>3. CASE f # d /\ e # d
  BY <1>3 DEF Become
<1>. QED
  BY <1>1, <1>2, <1>3

\* What the gateway does to the requests, the names and the answers.
LEMMA ServedBase ==
  ASSUME ShownInv, Base, NEW c \in calls, Pending(c), NEW d, Become(c, d), Moved(c, d),
         UNCHANGED <<picked, list>>, ServedInOrder(c),
         d.st = "ok" => d.op # "create",
         DOMAIN gw' \subseteq DOMAIN gw,
         spent.calm => Course(d) /\ (SaysGone(d) => d.s \notin DOMAIN gw'),
         ~(c.op = "send" /\ c.st = "run"),
         \A t \in turns' : t \in turns \/ (d.op = "send" /\ d.st = "run" /\ d.s = t[1] /\ d.turn = t[2])
  PROVE  Base'
<1>1. calls' = (calls \ {c}) \cup {d}
  BY DEF Become
<1>2. /\ spent'.used = spent.used \cup DOMAIN gw'
      /\ spent'.calm => spent.calm /\ \A e \in calls : Pending(e) => c.n <= e.n
  BY ServedFollows
<1>3. Numbered'
  <2>1. \A e, f \in calls' : e.n = f.n => e = f
    BY OneNumber DEF Base, Moved
  <2>2. (\A e \in calls' : e.n \in Nat) /\ \E top \in Nat : \A e \in calls' : e.n <= top
    BY <1>1 DEF Base, Numbered, Moved
  <2>. QED
    BY <2>1, <2>2 DEF Numbered
<1>4. UsedOK'
  BY <1>1, <1>2 DEF Base, UsedOK, Moved
<1>5. ASSUME spent'.calm PROVE Served'
  <2>0. Served
    BY <1>2, <1>5 DEF Base
  <2>1. \A e, f \in calls' : InTurn(e, f)
    BY <1>2, <1>5, <2>0, ServedInTurn DEF Base, Served, Moved
  <2>2. \A t \in turns' : HasPost(t)'
    BY <1>1, <2>0 DEF Served, HasPost
  <2>3. \A e \in calls' : Course(e)
    BY <1>1, <1>2, <1>5, <2>0 DEF Served
  <2>4. \A e \in calls' : SaysGone(e) => e.s \notin DOMAIN gw'
    BY <1>1, <1>2, <1>5, <2>0 DEF Served
  <2>. QED
    BY <2>1, <2>2, <2>3, <2>4 DEF Served
<1>. QED
  BY <1>3, <1>4, <1>5 DEF Base

\* A session that is created is a new one.
LEMMA CreatedBase ==
  ASSUME ShownInv, Base, NEW c \in calls, c.op = "create", c.st = "sent", NEW d, Become(c, d),
         NEW s, s \notin spent.used, s # NoSession,
         d = [c EXCEPT !.st = "ok", !.s = s], gw' = WithSession(s),
         UNCHANGED <<picked, list, turns>>, ServedInOrder(c)
  PROVE  Base'
<1>1. calls' = (calls \ {c}) \cup {d}
  BY DEF Become
<1>2. /\ spent'.used = spent.used \cup DOMAIN gw'
      /\ spent'.calm => spent.calm /\ \A e \in calls : Pending(e) => c.n <= e.n
  BY ServedFollows
<1>3. d.n = c.n /\ d.op = c.op /\ d.st = "ok" /\ d.s = s
  BY DEF ShownInv, CallsOK, CallOK, Fields
<1>4. DOMAIN gw' = DOMAIN gw \cup {s}
  BY DEF WithSession
<1>5. Numbered'
  <2>1. \A e, f \in calls' : e.n = f.n => e = f
    BY <1>3, OneNumber DEF Base
  <2>2. (\A e \in calls' : e.n \in Nat) /\ \E top \in Nat : \A e \in calls' : e.n <= top
    BY <1>1, <1>3 DEF Base, Numbered
  <2>. QED
    BY <2>1, <2>2 DEF Numbered
<1>6. UsedOK'
  BY <1>1, <1>2, <1>3, <1>4 DEF Base, UsedOK
<1>7. ASSUME spent'.calm PROVE Served'
  <2>0. Served
    BY <1>2, <1>7 DEF Base
  <2>1. \A e, f \in calls' : InTurn(e, f)
    <3>1. Pending(c)
      BY DEF Pending
    <3>. QED
      BY <1>2, <1>3, <1>7, <2>0, <3>1, ServedInTurn DEF Base, Served
  <2>2. \A t \in turns' : HasPost(t)'
    BY <1>1, <2>0 DEF Served, HasPost
  <2>3. \A e \in calls' : Course(e)
    BY <1>1, <1>3, <2>0 DEF Served, Course
  <2>4. \A e \in calls' : SaysGone(e) => e.s \notin DOMAIN gw'
    <3>. SUFFICES ASSUME NEW e \in calls', SaysGone(e) PROVE e.s \notin DOMAIN gw'
      OBVIOUS
    <3>1. e # d
      BY <1>3 DEF SaysGone
    <3>2. e \in calls /\ e.s \notin DOMAIN gw
      BY <1>1, <2>0, <3>1 DEF Served
    <3>3. e.op # "create" \/ e.st = "ok"
      BY <2>0, <3>2 DEF Served, Course, SaysGone
    <3>4. e.s # s
      BY <3>2, <3>3 DEF Base, UsedOK
    <3>. QED
      BY <1>4, <3>2, <3>4
  <2>. QED
    BY <2>1, <2>2, <2>3, <2>4 DEF Served
<1>. QED
  BY <1>5, <1>6, <1>7 DEF Base

\* A request that is served, and changes nothing of the session that is open: what it was
\* about it still is.
LEMMA ServedQuiet ==
  ASSUME PageInv, SameOpening, UNCHANGED view, NEW c \in calls, NEW d, Become(c, d), d.n = c.n,
         Loader(view, c) /\ c.st = "sent" => \A e \in calls : Pending(e) => c.n <= e.n,
         picked \in DOMAIN gw => (Covers(c) => Covers(d)) /\ (Spoils(d) => Spoils(c)),
         picked \notin DOMAIN gw => (Closes(c) => Closes(d)),
         Writes(d) => Writes(c) /\ (Covers(c) => Covers(d)) /\ (Drops(c) => Drops(d)),
         \A e \in calls' : e.n \in Nat
  PROVE  PageInv'
<1>1. calls' = (calls \ {c}) \cup {d}
  BY DEF Become
<1>2. picked \notin DOMAIN gw => \E e \in calls' : Closes(e)'
  <2>1. picked \notin DOMAIN gw => \E e \in calls' : Closes(e)
    BY <1>1 DEF PageInv
  <2>. QED
    BY <2>1, SameKinds
<1>3. picked \in DOMAIN gw => Shown' \/ \E e \in calls' : Covers(e)'
  <2>1. picked \in DOMAIN gw => Shown' \/ \E e \in calls' : Covers(e)
    BY <1>1 DEF PageInv, Shown, SameOpening
  <2>. QED
    BY <2>1, SameKinds
<1>4. picked \in DOMAIN gw => \A e \in calls' : Spoils(e)' => \E f \in calls' : Covers(f)' /\ f.n > e.n
  <2>. SUFFICES ASSUME picked \in DOMAIN gw, NEW e \in calls', Spoils(e)'
                PROVE  \E f \in calls' : Covers(f)' /\ f.n > e.n
    OBVIOUS
  <2>1. PICK b \in calls : Spoils(b) /\ b.n = e.n
    BY <1>1, SameKinds
  <2>2. PICK f \in calls : Covers(f) /\ f.n > e.n
    BY <2>1 DEF PageInv
  <2>3. PICK g \in calls' : Covers(g) /\ g.n = f.n
    BY <1>1, <2>2
  <2>. QED
    BY <2>2, <2>3, SameKinds
<1>5. ASSUME NEW e \in calls', Writes(e)' PROVE Covers(e)' \/ Drops(e)' \/ LoadAfter(e)'
  <2>1. Writes(e)
    BY <1>5, SameKinds
  <2>2. PICK b \in calls : Writes(b) /\ b.n = e.n /\ (Covers(b) => Covers(e)) /\ (Drops(b) => Drops(e))
    BY <1>1, <2>1
  <2>3. CASE Covers(b)
    BY <2>1, <2>2, <2>3 DEF Writes, SavesAgent, Covers, Fresh, Loader, IsOwnOf, SameOpening
  <2>4. CASE Drops(b)
    BY <2>2, <2>4, SameKinds
  <2>5. CASE LoadAfter(b)
    <3>1. PICK f \in calls : Loader(view, f) /\ f.st = "sent" /\ f.n > b.n
      BY <2>5 DEF LoadAfter
    <3>2. f # c
      <4>. SUFFICES ASSUME f = c PROVE FALSE
        OBVIOUS
      <4>1. c.n <= b.n /\ c.n \in Nat /\ b.n \in Nat
        BY <1>1, <2>2, <3>1 DEF Writes
      <4>. QED
        BY <3>1, <4>1
    <3>3. f \in calls' /\ Loader(view, f)'
      BY <1>1, <3>1, <3>2, SameKinds
    <3>. QED
      BY <2>2, <3>1, <3>3 DEF LoadAfter
  <2>. QED
    BY <2>2, <2>3, <2>4, <2>5 DEF PageInv
<1>. QED
  BY <1>2, <1>3, <1>4, <1>5 DEF PageInv, SameOpening

\* What is about to change the session is still followed by what puts the page right.
LEMMA WritesKept ==
  ASSUME PageInv, UNCHANGED <<picked, view>>, NEW c \in calls, c.op # "load", NEW d, Become(c, d), Moved(c, d),
         Writes(d) => Writes(c)
  PROVE  \A e \in calls' : Writes(e)' => Covers(e)' \/ Drops(e)' \/ LoadAfter(e)'
<1>. SUFFICES ASSUME NEW e \in calls', Writes(e)' PROVE Covers(e)' \/ Drops(e)' \/ LoadAfter(e)'
  OBVIOUS
<1>1. Writes(e) /\ e.op # "load"
  BY DEF Writes, SavesAgent
<1>2. PICK b \in calls : Writes(b) /\ Moved(b, e)
  BY <1>1 DEF Become, Moved
<1>3. CASE Covers(b)
  BY <1>1, <1>2, <1>3 DEF Covers, Fresh, Loader, IsOwnOf, SavesAgent, Moved
<1>4. CASE Drops(b)
  BY <1>2, <1>4 DEF Drops, Moved
<1>5. CASE LoadAfter(b)
  <2>1. PICK f \in calls : Loader(view, f) /\ f.st = "sent" /\ f.n > b.n
    BY <1>5 DEF LoadAfter
  <2>2. f \in calls' /\ Loader(view, f)'
    BY <2>1 DEF Become, Loader, IsOwnOf
  <2>. QED
    BY <1>2, <2>1, <2>2 DEF LoadAfter, Moved
<1>. QED
  BY <1>2, <1>3, <1>4, <1>5 DEF PageInv

\* The open session is changed at the gateway: a turn begins or ends, or its agent is saved.
LEMMA WrittenPage ==
  ASSUME PageInv, Numbered, UNCHANGED <<picked, view>>, picked \in DOMAIN gw, picked \in DOMAIN gw',
         NEW c \in calls, Writes(c), c.op \in {"send", "save"}, NEW d, Become(c, d), Moved(c, d),
         \A e \in calls : InTurn(e, c)
  PROVE  PageInv'
<1>1. calls' = (calls \ {c}) \cup {d}
  BY DEF Become
<1>2. \A e \in calls : e.n \in Nat
  BY DEF Numbered
<1>3. Writes(d) => Writes(c)
  OBVIOUS
<1>4. \A e \in calls' : Writes(e)' => Covers(e)' \/ Drops(e)' \/ LoadAfter(e)'
  BY <1>3, WritesKept
<1>5. ASSUME NEW f \in calls, Loader(view, f), f.st = "sent"
      PROVE  f \in calls' /\ Covers(f)'
  BY <1>1, <1>5 DEF Covers, Fresh, Loader, IsOwnOf
<1>6. Covers(c) => Covers(d)'
  BY DEF Covers, Fresh, Loader, IsOwnOf, SavesAgent, Moved
<1>7. PICK x \in calls' : Covers(x)' /\ c.n <= x.n /\ x.n \in Nat
  <2>1. CASE Covers(c)
    BY <1>1, <1>2, <1>6, <2>1 DEF Moved
  <2>2. CASE LoadAfter(c)
    <3>1. PICK f \in calls : Loader(view, f) /\ f.st = "sent" /\ f.n > c.n
      BY <2>2 DEF LoadAfter
    <3>2. f \in calls' /\ Covers(f)'
      BY <1>5, <3>1
    <3>. QED
      BY <1>2, <3>1, <3>2
  <2>3. ~Drops(c)
    BY DEF Drops
  <2>. QED
    BY <2>1, <2>2, <2>3 DEF PageInv
<1>8. ASSUME NEW e \in calls', Spoils(e)' PROVE \E f \in calls' : Covers(f)' /\ f.n > e.n
  <2>1. e # d
    BY <1>8 DEF Spoils, Loader, SavesAgent, Moved, Writes
  <2>2. e \in calls /\ e.n \in Nat
    BY <1>1, <1>2, <2>1
  <2>3. ASSUME NEW f \in calls, f.st = "ok" PROVE f.n < c.n
    BY <2>3 DEF InTurn, Pending, Writes
  <2>4. CASE Loader(view, e)' /\ e.st = "ok"
    <3>1. e.n < c.n
      BY <2>2, <2>3, <2>4
    <3>. QED
      BY <1>2, <1>7, <2>2, <3>1
  <2>5. CASE ~e.orphan /\ SavesAgent(e) /\ e.s # picked
    <3>1. Spoils(e)
      BY <2>5 DEF Spoils
    <3>2. PICK f \in calls : Covers(f) /\ f.n > e.n
      BY <2>2, <3>1 DEF PageInv
    <3>3. CASE f = c
      <4>1. d \in calls' /\ Covers(d)' /\ d.n > e.n
        BY <1>1, <1>6, <3>2, <3>3 DEF Moved
      <4>. QED
        BY <4>1
    <3>4. CASE Fresh(f) /\ f.st = "sent"
      BY <1>5, <3>2, <3>4 DEF Fresh
    <3>5. CASE Fresh(f) /\ f.st = "ok"
      <4>1. f.n < c.n
        BY <2>3, <3>5
      <4>. QED
        BY <1>2, <1>7, <2>2, <3>2, <4>1
    <3>6. CASE f # c /\ ~Fresh(f)
      <4>1. f \in calls' /\ Covers(f)'
        BY <1>1, <3>2, <3>6 DEF Covers, Loader, IsOwnOf, SavesAgent
      <4>. QED
        BY <3>2, <4>1
    <3>. QED
      BY <3>3, <3>4, <3>5, <3>6 DEF Fresh
  <2>. QED
    BY <1>8, <2>4, <2>5 DEF Spoils, SavesAgent
<1>. QED
  BY <1>4, <1>7, <1>8 DEF PageInv

\* The open session is deleted at the gateway.
LEMMA DeletedPage ==
  ASSUME PageInv, UNCHANGED <<picked, view>>, picked \notin DOMAIN gw',
         NEW c \in calls, Writes(c), c.op = "delete", NEW d, Become(c, d), Moved(c, d), d.st = "ok"
  PROVE  PageInv'
<1>1. calls' = (calls \ {c}) \cup {d}
  BY DEF Become
<1>2. \A e \in calls' : Writes(e)' => Covers(e)' \/ Drops(e)' \/ LoadAfter(e)'
  BY WritesKept
<1>3. \E e \in calls' : Closes(e)'
  <2>1. ~Covers(c)
    BY DEF Covers, Fresh, Loader, SavesAgent
  <2>2. CASE Drops(c)
    <3>1. Closes(d)'
      BY <2>2 DEF Drops, Closes, Moved, Writes
    <3>. QED
      BY <1>1, <3>1
  <2>3. CASE LoadAfter(c)
    <3>1. PICK f \in calls : Loader(view, f) /\ f.st = "sent"
      BY <2>3 DEF LoadAfter
    <3>2. f \in calls' /\ Closes(f)'
      BY <1>1, <3>1 DEF Closes, Loader, IsOwnOf
    <3>. QED
      BY <3>2
  <2>. QED
    BY <2>1, <2>2, <2>3 DEF PageInv
<1>. QED
  BY <1>2, <1>3 DEF PageInv

LEMMA ReadRest ==
  ASSUME ShownInv, RestInv, ServeRead
  PROVE  RestInv'
<1>1. PICK c, d :
        /\ c \in calls /\ c.st = "sent" /\ c.op \in {"load", "probe"} /\ Become(c, d) /\ ServedInOrder(c)
        /\ \/ c.s \notin DOMAIN gw /\ d = [c EXCEPT !.st = "gone"]
           \/ c.s \in DOMAIN gw /\ d = [c EXCEPT !.st = "ok", !.got = gw[c.s]]
  BY DEF ServeRead
<1>2. UNCHANGED <<tab, picked, list, view, gw, turns>>
  BY DEF ServeRead
<1>3. PICK g : g = gw[c.s]
  OBVIOUS
<1>4. Moved(c, d) /\ IF c.s \in DOMAIN gw THEN d.st = "ok" /\ d.got = g ELSE d.st = "gone"
  <2>1. DOMAIN c = Fields
    BY <1>1 DEF ShownInv, CallsOK, CallOK
  <2>2. IF c.s \in DOMAIN gw THEN d = [c EXCEPT !.st = "ok", !.got = g] ELSE d = [c EXCEPT !.st = "gone"]
    BY <1>1, <1>3
  <2>. QED
    BY <2>1, <2>2 DEF Moved, Fields
<1>5. Pending(c)
  BY <1>1 DEF Pending
<1>6. spent.calm /\ c.op = "probe" => c.s \notin DOMAIN gw
  BY <1>1 DEF RestInv, Base, Served, SaysGone
<1>7. spent.calm => Course(d) /\ (SaysGone(d) => d.s \notin DOMAIN gw')
  BY <1>1, <1>2, <1>4, <1>6 DEF Course, SaysGone, Moved
<1>8. Base'
  <2>1. /\ d.st = "ok" => d.op # "create"
        /\ ~(c.op = "send" /\ c.st = "run")
    BY <1>1, <1>4 DEF Moved
  <2>. QED
    BY <1>1, <1>2, <1>4, <1>5, <1>7, <2>1, ServedBase DEF RestInv
<1>9. spent'.calm => spent.calm /\ \A e \in calls : Pending(e) => c.n <= e.n
  BY <1>1, ServedFollows
<1>10. ASSUME spent'.calm, PageInv PROVE PageInv'
  <2>1. SameOpening
    BY <1>2 DEF SameOpening
  <2>2. picked \in DOMAIN gw => (Covers(c) => Covers(d)) /\ (Spoils(d) => Spoils(c))
    BY <1>1, <1>3, <1>4 DEF Covers, Spoils, Fresh, Loader, IsOwnOf, SavesAgent, Moved
  <2>3. picked \notin DOMAIN gw => (Closes(c) => Closes(d))
    BY <1>1, <1>4 DEF Closes, Loader, IsOwnOf, Moved
  <2>4. ~Writes(d)
    BY <1>1, <1>4 DEF Writes, SavesAgent, Moved
  <2>5. \A e \in calls' : e.n \in Nat
    BY <1>8 DEF Base, Numbered
  <2>6. d.n = c.n
    BY <1>4 DEF Moved
  <2>. QED
    BY <1>1, <1>2, <1>9, <1>10, <2>1, <2>2, <2>3, <2>4, <2>5, <2>6, ServedQuiet
<1>. QED
  BY <1>2, <1>8, <1>9, <1>10 DEF RestInv, PageTrue

LEMMA WriteRest ==
  ASSUME ShownInv, RestInv, ServeWrite
  PROVE  RestInv'
<1>1. UNCHANGED <<tab, picked, list, view, turns>>
  BY DEF ServeWrite
<1>2. PICK c \in calls :
        /\ c.st = "sent" /\ c.op \in {"create", "delete", "save"} /\ ServedInOrder(c)
        /\ \/ /\ c.op = "create"
              /\ \E s \in Sessions \ (DOMAIN gw \cup spent.used) :
                   gw' = WithSession(s) /\ Become(c, [c EXCEPT !.st = "ok", !.s = s])
           \/ c.op = "create" /\ Become(c, [c EXCEPT !.st = "fail"]) /\ UNCHANGED gw
           \/ c.op # "create" /\ c.s \notin DOMAIN gw /\ Become(c, [c EXCEPT !.st = "gone"]) /\ UNCHANGED gw
           \/ /\ c.op = "delete" /\ c.s \in DOMAIN gw
              /\ gw' = [s \in DOMAIN gw \ {c.s} |-> gw[s]] /\ Become(c, [c EXCEPT !.st = "ok"])
           \/ /\ c.op = "save" /\ c.s \in DOMAIN gw
              /\ gw' = IF c.by = "agent" THEN WithAgent(gw, c.s, 3 - c.prev) ELSE gw
              /\ Become(c, [c EXCEPT !.st = "ok"])
  BY DEF ServeWrite
<1>3. Pending(c) /\ ~(c.op = "send" /\ c.st = "run")
  BY <1>2 DEF Pending
<1>4. spent'.calm => spent.calm /\ \A e \in calls : Pending(e) => c.n <= e.n
  BY <1>2, ServedFollows
<1>5. ~Loader(view, c)
  BY <1>2 DEF Loader
<1>6. CASE c.op = "create" /\ \E s \in Sessions \ (DOMAIN gw \cup spent.used) :
             gw' = WithSession(s) /\ Become(c, [c EXCEPT !.st = "ok", !.s = s])
  <2>1. PICK s, d : /\ s \in Sessions /\ s \notin DOMAIN gw /\ s \notin spent.used
                    /\ gw' = WithSession(s) /\ d = [c EXCEPT !.st = "ok", !.s = s] /\ Become(c, d)
    BY <1>6
  <2>2. s # NoSession
    BY <2>1, ChatAssumption
  <2>3. Base'
    BY <1>1, <1>2, <1>6, <2>1, <2>2, CreatedBase DEF RestInv
  <2>4. d.n = c.n /\ d.op = "create"
    BY <1>6, <2>1 DEF ShownInv, CallsOK, CallOK, Fields
  <2>5. ASSUME spent'.calm, picked # NoSession, PageInv PROVE PageInv'
    <3>1. picked # s
      BY <2>1, <2>5 DEF RestInv, Base, UsedOK
    <3>2. SameOpening
      BY <1>1, <2>1, <3>1 DEF SameOpening, WithSession
    <3>3. ~Covers(c) /\ ~Closes(c) /\ ~Spoils(d) /\ ~Writes(d)
      BY <1>6, <2>4 DEF Covers, Closes, Fresh, Spoils, Loader, IsOwnOf, SavesAgent, Writes
    <3>4. \A e \in calls' : e.n \in Nat
      BY <2>3 DEF Base, Numbered
    <3>. QED
      BY <1>1, <1>5, <2>1, <2>4, <2>5, <3>2, <3>3, <3>4, ServedQuiet
  <2>. QED
    BY <1>1, <1>4, <2>3, <2>5 DEF RestInv, PageTrue
\* The request keeps its session, and the gateway has no other ones.
<1>7. ASSUME NEW st \in {"fail", "gone", "ok"}, NEW d, d = [c EXCEPT !.st = st], Become(c, d),
             DOMAIN gw' \subseteq DOMAIN gw, c.op = "create" <=> st = "fail",
             st = "gone" \/ c.op = "delete" => c.s \notin DOMAIN gw'
      PROVE  Base' /\ Moved(c, d) /\ d.st = st
  <2>1. Moved(c, d) /\ d.st = st
    BY <1>7 DEF Moved, ShownInv, CallsOK, CallOK, Fields
  <2>2. Course(d) /\ (SaysGone(d) => d.s \notin DOMAIN gw')
    BY <1>2, <1>7, <2>1 DEF Course, SaysGone, Moved
  <2>3. d.st = "ok" => d.op # "create"
    BY <1>7, <2>1 DEF Moved
  <2>4. Base'
    BY <1>1, <1>2, <1>3, <1>7, <2>1, <2>2, <2>3, ServedBase DEF RestInv
  <2>. QED
    BY <2>1, <2>4
\* Nothing that the page shows is changed.
<1>8. ASSUME NEW d, Moved(c, d), d.st # "sent", Become(c, d), Base', PageInv,
             picked \in DOMAIN gw' <=> picked \in DOMAIN gw,
             picked \in DOMAIN gw => gw'[picked] = gw[picked]
      PROVE  PageInv'
  <2>1. SameOpening
    BY <1>1, <1>8 DEF SameOpening
  <2>2. Covers(c) => Covers(d)
    BY <1>5, <1>8 DEF Covers, Fresh, IsOwnOf, SavesAgent, Moved
  <2>3. Spoils(d) => Spoils(c)
    BY <1>2, <1>8 DEF Spoils, Loader, SavesAgent, Moved
  <2>4. ~Closes(c)
    BY <1>2 DEF Closes, Loader
  <2>5. Writes(d) => Writes(c) /\ (Drops(c) => Drops(d))
    BY <1>2, <1>8 DEF Writes, Drops, SavesAgent, Moved, Pending
  <2>6. \A e \in calls' : e.n \in Nat
    BY <1>8 DEF Base, Numbered
  <2>7. d.n = c.n
    BY <1>8 DEF Moved
  <2>. QED
    BY <1>1, <1>5, <1>8, <2>1, <2>2, <2>3, <2>4, <2>5, <2>6, <2>7, ServedQuiet
<1>9. CASE UNCHANGED gw /\ \/ c.op = "create" /\ Become(c, [c EXCEPT !.st = "fail"])
                           \/ c.op # "create" /\ c.s \notin DOMAIN gw /\ Become(c, [c EXCEPT !.st = "gone"])
  <2>1. PICK st, d :
          /\ st \in {"fail", "gone"} /\ d = [c EXCEPT !.st = st] /\ Become(c, d)
          /\ c.op = "create" <=> st = "fail"
          /\ st = "gone" => c.s \notin DOMAIN gw
    BY <1>9
  <2>2. Base' /\ Moved(c, d) /\ d.st = st
    BY <1>7, <1>9, <2>1
  <2>3. PageInv => PageInv'
    BY <1>8, <1>9, <2>1, <2>2
  <2>. QED
    BY <1>1, <1>4, <2>2, <2>3 DEF RestInv, PageTrue
<1>10. CASE /\ c.op = "delete" /\ c.s \in DOMAIN gw
            /\ gw' = [s \in DOMAIN gw \ {c.s} |-> gw[s]] /\ Become(c, [c EXCEPT !.st = "ok"])
  <2>1. PICK d : d = [c EXCEPT !.st = "ok"]
    OBVIOUS
  <2>2. Become(c, d)
    BY <1>10, <2>1
  <2>3. DOMAIN gw' = DOMAIN gw \ {c.s}
    BY <1>10
  <2>4. Base' /\ Moved(c, d) /\ d.st = "ok"
    BY <1>7, <1>10, <2>1, <2>2, <2>3
  <2>5. CASE picked = c.s
    <3>1. Writes(c) /\ picked \notin DOMAIN gw'
      BY <1>3, <1>10, <2>3, <2>5 DEF Writes
    <3>2. PageInv => PageInv'
      BY <1>1, <1>10, <2>2, <2>4, <3>1, DeletedPage
    <3>. QED
      BY <1>1, <1>4, <2>4, <3>2 DEF RestInv, PageTrue
  <2>6. CASE picked # c.s
    <3>1. picked \in DOMAIN gw' <=> picked \in DOMAIN gw
      BY <2>3, <2>6
    <3>2. picked \in DOMAIN gw => gw'[picked] = gw[picked]
      BY <1>10, <2>6
    <3>3. PageInv => PageInv'
      BY <1>8, <2>2, <2>4, <3>1, <3>2
    <3>. QED
      BY <1>1, <1>4, <2>4, <3>3 DEF RestInv, PageTrue
  <2>. QED
    BY <2>5, <2>6
<1>11. CASE /\ c.op = "save" /\ c.s \in DOMAIN gw
            /\ gw' = IF c.by = "agent" THEN WithAgent(gw, c.s, 3 - c.prev) ELSE gw
            /\ Become(c, [c EXCEPT !.st = "ok"])
  <2>1. PICK d, s, p : d = [c EXCEPT !.st = "ok"] /\ s = c.s /\ p = c.prev
    OBVIOUS
  <2>2. Become(c, d)
    BY <1>11, <2>1
  <2>3. DOMAIN gw' = DOMAIN gw /\ \A r \in DOMAIN gw : r # s => gw'[r] = gw[r]
    BY <1>11, <2>1, AgentRows
  <2>4. Base' /\ Moved(c, d) /\ d.st = "ok"
    BY <1>7, <1>11, <2>1, <2>2, <2>3
  <2>5. CASE picked = s /\ c.by = "agent"
    <3>1. Writes(c) /\ picked \in DOMAIN gw
      BY <1>3, <1>11, <2>1, <2>5 DEF Writes, SavesAgent
    <3>2. ASSUME spent.calm PROVE \A e \in calls : InTurn(e, c)
      BY <3>2 DEF RestInv, Base, Served
    <3>3. PageInv /\ spent.calm => PageInv'
      BY <1>1, <1>11, <2>2, <2>3, <2>4, <3>1, <3>2, WrittenPage DEF RestInv, Base
    <3>. QED
      BY <1>1, <1>4, <2>4, <3>3 DEF RestInv, PageTrue
  <2>6. CASE ~(picked = s /\ c.by = "agent")
    <3>1. picked \in DOMAIN gw => gw'[picked] = gw[picked]
      BY <1>11, <2>1, <2>3, <2>6
    <3>2. PageInv => PageInv'
      BY <1>8, <2>2, <2>3, <2>4, <3>1
    <3>. QED
      BY <1>1, <1>4, <2>4, <3>2 DEF RestInv, PageTrue
  <2>. QED
    BY <2>5, <2>6
<1>. QED
  BY <1>2, <1>6, <1>9, <1>10, <1>11

LEMMA AcceptRest ==
  ASSUME ShownInv, RestInv, Accept
  PROVE  RestInv'
<1>1. UNCHANGED <<tab, picked, list, view>>
  BY DEF Accept
<1>2. PICK c, d, m :
        /\ c \in calls /\ c.op = "send" /\ c.st = "sent" /\ Become(c, d) /\ ServedInOrder(c)
        /\ \/ /\ c.s \in DOMAIN gw /\ d = [c EXCEPT !.st = "run"]
              /\ gw' = [gw EXCEPT ![c.s].rows = Append(@, m)]
              /\ turns' = turns \cup {<<c.s, c.turn>>}
           \/ c.s \notin DOMAIN gw /\ d = [c EXCEPT !.st = "gone"] /\ UNCHANGED <<gw, turns>>
           \/ d = [c EXCEPT !.json = TRUE] /\ UNCHANGED <<gw, turns>>
  BY DEF Accept
<1>3. Pending(c) /\ ~(c.op = "send" /\ c.st = "run")
  BY <1>2 DEF Pending
<1>4. spent'.calm => spent.calm /\ \A e \in calls : Pending(e) => c.n <= e.n
  BY <1>2, ServedFollows
<1>5. /\ Moved(c, d)
      /\ \/ d.st = "run" /\ c.s \in DOMAIN gw /\ turns' = turns \cup {<<c.s, c.turn>>}
         \/ d.st = "gone" /\ c.s \notin DOMAIN gw /\ UNCHANGED <<gw, turns>>
         \/ d.st = "sent" /\ UNCHANGED <<gw, turns>>
  BY <1>2 DEF Moved, ShownInv, CallsOK, CallOK, Fields
<1>6. DOMAIN gw' = DOMAIN gw /\ \A r \in DOMAIN gw : r # c.s => gw'[r] = gw[r]
  BY <1>2
<1>7. Base'
  <2>1. Course(d) /\ (SaysGone(d) => d.s \notin DOMAIN gw')
    BY <1>2, <1>5, <1>6 DEF Course, SaysGone, Moved
  <2>2. \A t \in turns' : t \in turns \/ (d.op = "send" /\ d.st = "run" /\ d.s = t[1] /\ d.turn = t[2])
    BY <1>2, <1>5 DEF Moved
  <2>3. d.st = "ok" => d.op # "create"
    BY <1>5
  <2>. QED
    BY <1>1, <1>2, <1>3, <1>5, <1>6, <2>1, <2>2, <2>3, ServedBase DEF RestInv
<1>8. CASE d.st = "run" /\ picked = c.s
  <2>1. Writes(c) /\ picked \in DOMAIN gw
    BY <1>2, <1>3, <1>5, <1>8 DEF Writes
  <2>2. ASSUME spent.calm PROVE \A e \in calls : InTurn(e, c)
    BY <1>2, <2>2 DEF RestInv, Base, Served
  <2>3. PageInv /\ spent.calm => PageInv'
    BY <1>1, <1>2, <1>5, <1>6, <2>1, <2>2, WrittenPage DEF RestInv, Base
  <2>. QED
    BY <1>1, <1>4, <1>7, <2>3 DEF RestInv, PageTrue
<1>9. CASE ~(d.st = "run" /\ picked = c.s)
  <2>1. SameOpening
    BY <1>1, <1>5, <1>6, <1>9 DEF SameOpening
  <2>2. (Covers(c) => Covers(d)) /\ (Closes(c) => Closes(d)) /\ ~Spoils(d) /\ ~Loader(view, c)
    BY <1>2, <1>5 DEF Covers, Closes, Fresh, Spoils, Loader, IsOwnOf, SavesAgent, Moved
  <2>3. Writes(d) => Writes(c) /\ (Drops(c) => Drops(d))
    BY <1>2, <1>3, <1>5 DEF Writes, Drops, Moved
  <2>4. \A e \in calls' : e.n \in Nat
    BY <1>7 DEF Base, Numbered
  <2>5. d.n = c.n
    BY <1>5 DEF Moved
  <2>6. PageInv => PageInv'
    BY <1>1, <1>2, <2>1, <2>2, <2>3, <2>4, <2>5, ServedQuiet
  <2>. QED
    BY <1>1, <1>4, <1>7, <2>6 DEF RestInv, PageTrue
<1>. QED
  BY <1>8, <1>9

\* A turn ends: its request is the oldest one, or something is out of order.
LEMMA FinishRest ==
  ASSUME ShownInv, PostInv, RestInv, Finish
  PROVE  RestInv'
<1>1. PICK t \in turns :
        /\ turns' = turns \ {t}
        /\ gw' = IF t[1] \in DOMAIN gw THEN [gw EXCEPT ![t[1]].rows = Append(@, Message(t[1], t[2], "ai", "all"))] ELSE gw
        /\ calls' = {IF c.op = "send" /\ c.st = "run" /\ c.turn = t[2] THEN [c EXCEPT !.st = "ok"] ELSE c : c \in calls}
        /\ spent' = [spent EXCEPT !.calm = @ /\ \A c \in calls : c.turn = t[2] => Oldest(c, calls)]
  BY DEF Finish
<1>2. UNCHANGED <<tab, picked, list, view>>
  BY DEF Finish
<1>3. /\ spent'.used = spent.used
      /\ spent'.calm => spent.calm /\ \A c \in calls : c.turn = t[2] => Oldest(c, calls)
  BY <1>1 DEF ShownInv, SpentOK
<1>4. DOMAIN gw' = DOMAIN gw /\ \A r \in DOMAIN gw : r # t[1] => gw'[r] = gw[r]
  BY <1>1
<1>. DEFINE Ended(c) == IF c.op = "send" /\ c.st = "run" /\ c.turn = t[2] THEN [c EXCEPT !.st = "ok"] ELSE c
<1>5. \A c \in calls : /\ Moved(c, Ended(c))
                       /\ Ended(c).st = IF c.op = "send" /\ c.st = "run" /\ c.turn = t[2] THEN "ok" ELSE c.st
  <2>. SUFFICES ASSUME NEW c \in calls
                PROVE  /\ Moved(c, Ended(c))
                       /\ Ended(c).st = IF c.op = "send" /\ c.st = "run" /\ c.turn = t[2] THEN "ok" ELSE c.st
    OBVIOUS
  <2>1. PICK d : d = [c EXCEPT !.st = "ok"]
    OBVIOUS
  <2>2. Moved(c, d) /\ d.st = "ok" /\ Moved(c, c)
    BY <2>1 DEF Moved, ShownInv, CallsOK, CallOK, Fields
  <2>. QED
    BY <2>1, <2>2
<1>. HIDE DEF Ended
<1>6. calls' = {Ended(c) : c \in calls}
  BY <1>1 DEF Ended
<1>7. \A e, f \in calls' : e.n = f.n => e = f
  <2>. SUFFICES ASSUME NEW b \in calls, NEW c \in calls, Ended(b).n = Ended(c).n PROVE b = c
    BY <1>6
  <2>1. b.n = c.n
    BY <1>5 DEF Moved
  <2>. QED
    BY <2>1 DEF RestInv, Base, Numbered
<1>8. CASE ~spent'.calm
  <2>1. ASSUME NEW e \in calls'
        PROVE  \E c \in calls : e.n = c.n /\ e.op = c.op /\ e.s = c.s /\ (e.st = "ok" /\ e.op = "create" => c.st = "ok")
    BY <1>5, <1>6 DEF Moved
  <2>2. Numbered' /\ UsedOK'
    BY <1>2, <1>3, <1>4, <1>7, <2>1 DEF RestInv, Base, Numbered, UsedOK
  <2>. QED
    BY <1>8, <2>2 DEF RestInv, Base, PageTrue
<1>9. CASE spent'.calm
  <2>0. Served
    BY <1>3, <1>9 DEF RestInv, Base
  <2>1. PICK c \in calls : c.op = "send" /\ c.st = "run" /\ c.s = t[1] /\ c.turn = t[2]
    BY <2>0 DEF Served, HasPost
  <2>2. PICK d : d = Ended(c)
    OBVIOUS
  <2>3. Moved(c, d) /\ d.st = "ok"
    BY <1>5, <2>1, <2>2
  <2>4. \A b \in calls : b # c => Ended(b) = b
    <3>. SUFFICES ASSUME NEW b \in calls, b.op = "send", b.turn = t[2] PROVE b = c
      BY DEF Ended
    <3>. QED
      BY <2>1 DEF PostInv, OneSend
  <2>5. Become(c, d)
    BY <1>6, <2>2, <2>4 DEF Become
  <2>6. Pending(c) /\ \A e \in calls : c.n <= e.n
    BY <1>3, <1>9, <2>1 DEF Pending, Oldest
  <2>7. calls' = (calls \ {c}) \cup {d}
    BY <2>5 DEF Become
  <2>8. Base'
    <3>1. Numbered'
      <4>1. (\A e \in calls' : e.n \in Nat) /\ \E top \in Nat : \A e \in calls' : e.n <= top
        BY <2>3, <2>7 DEF RestInv, Base, Numbered, Moved
      <4>. QED
        BY <1>7, <4>1 DEF Numbered
    <3>2. UsedOK'
      BY <1>2, <1>3, <1>4, <2>1, <2>3, <2>7 DEF RestInv, Base, UsedOK, Moved
    <3>3. \A e, f \in calls' : InTurn(e, f)
      BY <2>0, <2>3, <2>5, <2>6, ServedInTurn DEF RestInv, Base, Served, Moved
    <3>4. \A u \in turns' : HasPost(u)'
      <4>. SUFFICES ASSUME NEW u \in turns, u # t PROVE HasPost(u)'
        BY <1>1
      <4>1. PICK b \in calls : b.op = "send" /\ b.st = "run" /\ b.s = u[1] /\ b.turn = u[2]
        BY <2>0 DEF Served, HasPost
      <4>2. b # c
        BY <2>1, <4>1 DEF PostInv, OneTurn
      <4>. QED
        BY <2>7, <4>1, <4>2 DEF HasPost
    <3>5. \A e \in calls' : Course(e)
      BY <2>0, <2>1, <2>3, <2>7 DEF Served, Course, Moved
    <3>6. \A e \in calls' : SaysGone(e) => e.s \notin DOMAIN gw'
      BY <1>4, <2>0, <2>1, <2>3, <2>7 DEF Served, SaysGone, Moved
    <3>. QED
      BY <3>1, <3>2, <3>3, <3>4, <3>5, <3>6 DEF Base, Served
  <2>9. CASE picked = t[1] /\ picked \in DOMAIN gw
    <3>1. Writes(c) /\ \A e \in calls : InTurn(e, c)
      BY <2>0, <2>1, <2>6, <2>9 DEF Writes, Served
    <3>2. PageInv => PageInv'
      BY <1>2, <1>4, <2>1, <2>3, <2>5, <2>9, <3>1, WrittenPage DEF RestInv, Base
    <3>. QED
      BY <1>2, <1>3, <2>8, <3>2 DEF RestInv, PageTrue
  <2>10. CASE ~(picked = t[1] /\ picked \in DOMAIN gw)
    <3>1. SameOpening
      BY <1>2, <1>4, <2>10 DEF SameOpening
    <3>2. (Covers(c) => Covers(d)) /\ (Closes(c) => Closes(d)) /\ ~Spoils(d) /\ ~Loader(view, c) /\ ~Writes(d)
      BY <2>1, <2>3 DEF Covers, Closes, Fresh, Spoils, Loader, IsOwnOf, SavesAgent, Moved, Writes, Pending
    <3>3. \A e \in calls' : e.n \in Nat
      BY <2>8 DEF Base, Numbered
    <3>4. d.n = c.n
      BY <2>3 DEF Moved
    <3>5. PageInv => PageInv'
      BY <1>2, <2>5, <3>1, <3>2, <3>3, <3>4, ServedQuiet
    <3>. QED
      BY <1>2, <1>3, <2>8, <3>5 DEF RestInv, PageTrue
  <2>. QED
    BY <2>9, <2>10
<1>. QED
  BY <1>8, <1>9

\* A stream that is cancelled, a request that is refused, a session deleted elsewhere.
LEMMA BreaksRest ==
  ASSUME ShownInv, RestInv, Cancel \/ Refused \/ Elsewhere
  PROVE  RestInv'
<1>1. UNCHANGED <<list, picked>> /\ DOMAIN gw' \subseteq DOMAIN gw /\ spent'.used = spent.used /\ ~spent'.calm
  BY DEF Cancel, Refused, Elsewhere, Trouble, ShownInv, SpentOK
<1>2. CASE calls' \subseteq calls
  <2>1. \A e, f \in calls' : e.n = f.n => e = f
    BY <1>2 DEF RestInv, Base, Numbered
  <2>. QED
    BY <1>1, <1>2, <2>1, TroubleRest
<1>3. CASE Refused
  <2>1. PICK c \in calls : Become(c, [c EXCEPT !.st = "fail"])
    BY <1>3 DEF Refused
  <2>2. PICK d : d = [c EXCEPT !.st = "fail"]
    OBVIOUS
  <2>3. Become(c, d) /\ d.n = c.n /\ d.op = c.op /\ d.s = c.s /\ d.st = "fail"
    BY <2>1, <2>2 DEF ShownInv, CallsOK, CallOK, Fields
  <2>4. \A e, f \in calls' : e.n = f.n => e = f
    BY <2>3, OneNumber DEF RestInv, Base
  <2>5. \A e \in calls' : \E b \in calls : e.n = b.n /\ e.op = b.op /\ e.s = b.s /\ (e.st = "ok" => b.st = "ok")
    BY <2>3 DEF Become
  <2>. QED
    BY <1>1, <2>4, <2>5, TroubleRest
<1>. QED
  BY <1>2, <1>3 DEF Cancel, Elsewhere

LEMMA NextRest ==
  ASSUME ShownInv, PostInv, RestInv, [Next]_vars
  PROVE  RestInv'
<1>1. Control => RestInv'
  BY ListRest, SendRest, StreamRest, TabRest DEF Control
<1>2. Continuation => RestInv'
  BY ListedRest, LoadRest, StreamRest, TurnRest, ProbeRest, SavedRest DEF Continuation
<1>3. Gateway => RestInv'
  BY ReadRest, WriteRest, AcceptRest, FinishRest, BreaksRest DEF Gateway
<1>4. UNCHANGED vars => RestInv'
  <2>. SUFFICES ASSUME UNCHANGED vars PROVE RestInv'
    OBVIOUS
  <2>1. Base'
    BY DEF vars, RestInv, Base, Numbered, UsedOK, Served, HasPost
  <2>2. PageInv => PageInv'
    BY DEF vars, PageInv, Shown, Closes, Covers, Spoils, Writes, Drops, LoadAfter, Fresh, Loader, IsOwnOf, SavesAgent
  <2>. QED
    BY <2>1, <2>2 DEF vars, RestInv, PageTrue
<1>. QED
  BY <1>1, <1>2, <1>3, <1>4, BreaksRest DEF Next

\* When all went in order, a page at rest shows the transcript and the agent that the gateway
\* has: whatever was sent, saved, created, deleted and opened meanwhile, and whatever of it
\* was answered after its page was left (ChatPage.tsx, load behind stillCurrent; App.tsx).
THEOREM RestIsTrueAlways == Spec => []RestIsTrue
<1>1. Init => RestInv
  <2>. SUFFICES ASSUME Init PROVE RestInv
    OBVIOUS
  <2>1. Numbered /\ Served /\ tab = "away"
    BY DEF Init, Numbered, Served
  <2>2. UsedOK
    <3>1. PICK S, p : /\ S \subseteq Sessions /\ p \in S \cup {NoSession}
                      /\ gw = [s \in S |-> NewSession] /\ picked = p
                      /\ spent = [n |-> 0, turns |-> 0, calm |-> TRUE, used |-> S]
      BY DEF Init
    <3>. QED
      BY <3>1, ChatAssumption DEF Init, UsedOK, BlankList
  <2>. QED
    BY <2>1, <2>2 DEF RestInv, Base, PageTrue
<1>2. (ShownInv /\ TurnsOK) /\ PostInv /\ RestInv /\ [Next]_vars => RestInv'
  BY NextRest
<1>3. RestInv => RestIsTrue
  <2>. SUFFICES ASSUME RestInv, tab = "chat", Own = {}, spent.calm, picked # NoSession
                PROVE  picked \in DOMAIN gw /\ view.msgs = gw[picked].rows /\ view.agent = gw[picked].agent
    BY DEF RestIsTrue
  <2>1. PageInv
    BY DEF RestInv, PageTrue
  <2>2. \A c \in calls : c.orphan
    BY DEF Own
  <2>3. \A c \in calls : ~Covers(c) /\ ~Closes(c)
    BY <2>2 DEF Covers, Fresh, Closes, Loader, IsOwnOf
  <2>. QED
    BY <2>1, <2>3 DEF PageInv, Shown
<1>. QED
  BY <1>1, <1>2, <1>3, SpecShown, SpecPost, PTL DEF Spec

=============================================================================
