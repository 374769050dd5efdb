------------------------- MODULE ConsolePagesProofs -------------------------
(***************************************************************************)
(* Proofs about the pages of the control plane (ConsolePages), for any     *)
(* inventory and any number of clicks and troubles.                        *)
(*                                                                         *)
(* That a quiet page is idle is about what nothing is left of; the         *)
(* invariant says who it is waiting for.  Whatever is raised has a request *)
(* under way whose handler lowers it: for each busy flag one that ends     *)
(* with it (Holds), for a load one of a handler that ends a load, and with *)
(* the newest number on the pages that number them (Carries).  Any other   *)
(* handler may lower them earlier, but none may raise one without sending  *)
(* a request, or drop a request and leave a flag.                          *)
(*                                                                         *)
(* That one thing is written at a time is the other side of it: a request  *)
(* that writes is marked by its flag, there is one marked request at most, *)
(* and no handler but its own lowers its flag.                             *)
(***************************************************************************)
EXTENDS ConsolePages, FiniteSetTheorems, TLAPS

NumberedPages == {"overview", "skills", "marketing"}

\* The handlers that end a load.
LoadOps ==
  {"list", "allowList", "listThenSelect", "listThenDetail", "listDetail", "users", "quotas", "gateway",
   "health", "report", "pull"}

\* The handlers that name the flag they end with, or know that they have none.
Untagged == {"activity", "overview", "metrics", "heatmap", "skills", "cron", "marketing", "memory"}
TailOK(p, op, tail) ==
  /\ p \in Untagged => tail = "none"
  /\ p = "sessions" => /\ op \in {"list", "mode"} => tail = "none"
                       /\ op = "create" => tail = "creating"
                       /\ op = "delete" => tail = "deleting"
  /\ p = "agents" => (op = "detail" => tail = "loadingDetail")
  /\ p = "channels" => (op \in {"policy", "allow", "allowList"} => tail = "none")
  /\ p = "teams" => tail = IF op \in {"members", "evolution"} THEN "detail" ELSE "none"
  /\ p = "traces" => tail = IF op = "detail" THEN "detail" ELSE "none"
  /\ p = "tenants" => /\ tail \in {"none", "busy"}
                      /\ op = "pick" => tail = "none"
                      /\ op \notin {"list", "listDetail", "pick"} => tail = "busy"
  /\ p \in {"apikeys", "storage"} => /\ tail \in {"none", "busy"}
                                     /\ op # "list" => tail = "busy"
  /\ p \in {"approvals", "packages"} => /\ tail \in {"none", "busy"}
                                        /\ op \notin {"list", "quiet"} => tail = "busy"
  /\ p = "settings" => /\ tail \in {"none", "saving", "pairing"}
                       /\ op = "pair" => tail = "pairing"
                       /\ op \in {"saveUser", "saveQuota", "saveConfig"} => tail = "saving"
  /\ p = "vault" => /\ op \in {"search", "put"} => tail = "none"
                    /\ op = "sync" => tail = "syncing"
  /\ p = "kg" => (op = "graph" => tail = "graph")
  /\ p = "impexp" => (op \in {"export", "preview"} => tail = "busy")
  /\ p = "backup" => /\ tail \in {"none", "busy"}
                     /\ op = "try" => tail = "none"
                     /\ op \notin {"list", "try"} => tail = "busy"
  /\ p = "tools" => /\ op = "tools" => tail = "tools"
                    /\ op = "toggle" => tail = "none"
  /\ p \in {"connectors", "providers"} => (op = "test" => tail = "testing")
  /\ p = "tts" => tail = IF op = "list" THEN "none" ELSE "busy"

\* A request that ends with a flag: its own, or that of the details of a row.
Detailed == {"vault", "memory", "kg"}
Holds(p, c, t) == t # "none" /\ (c.tail = t \/ (p \in Detailed /\ c.op = "detail" /\ t = "detail"))

\* A view that waits for a load, and a request that is the load.
Waits(p, v) == v.loading \/ (p \in NumberedPages /\ v.shown # v.seq)
Carries(p, c, v) == c.op \in LoadOps /\ (p \in NumberedPages => c.gen = v.seq)

\* A request that bears the flag of the writes.
Marked(c) == c.tail \in {"busy", "saving", "deleting"}

Shape(p, v) ==
  /\ {"loading", "loaded", "err", "rows", "busy"} \subseteq DOMAIN v
  /\ p \in NumberedPages => {"seq", "shown"} \subseteq DOMAIN v

\* A request as the handlers of the page send it.
Sent(p, c) ==
  /\ {"op", "do", "tail", "gen", "st"} \subseteq DOMAIN c
  /\ TailOK(p, c.op, c.tail)
  /\ p \in OneAtATime /\ c.do \notin Reads => Marked(c)

Sound(p, C, v) ==
  /\ Shape(p, v)
  /\ \A c \in C : Sent(p, c)
  /\ \A b \in v.busy : \E c \in C : Holds(p, c, b[1])
  /\ p = "overview" => v.busy = {}
  /\ Waits(p, v) => \E c \in C : Carries(p, c, v)

OneMarked(p, C, v) ==
  p \in OneAtATime =>
    /\ \A c, d \in C : Marked(c) /\ Marked(d) => c = d
    /\ \A c \in C : Marked(c) => \E b \in v.busy : b[1] = c.tail

PageInv == Sound(page, calls, view) /\ OneMarked(page, calls, view)

----------------------------------------------------------------------------
(* What a handler has to keep, by what it ends with. *)

\* Two views that raise the same flags, wait for the same load and have the same fields.
SameFlags(p, v, w) ==
  /\ DOMAIN w = DOMAIN v
  /\ w.busy = v.busy /\ w.loading = v.loading
  /\ p \in NumberedPages => w.seq = v.seq /\ w.shown = v.shown

\* What w waits for, v waited for as well.
StillWaits(p, v, w) == Waits(p, w) => Waits(p, v) /\ (p \in NumberedPages => w.seq = v.seq)

\* A handler that sends c and shows w instead of v.
Asks(p, c, v, w) ==
  /\ p # "overview"
  /\ Shape(p, w) /\ Sent(p, c)
  /\ \A b \in w.busy : b \in v.busy \/ Holds(p, c, b[1])
  /\ StillWaits(p, v, w) \/ Carries(p, c, w)
  /\ p \in OneAtATime =>
       /\ \A b \in v.busy : \E b2 \in w.busy : b2[1] = b[1]
       /\ Marked(c) => \E b \in w.busy : b[1] = c.tail

\* A continuation that ends c.
Quits(p, c, v, w) ==
  /\ Shape(p, w)
  /\ \A b \in w.busy : b \in v.busy /\ ~Holds(p, c, b[1])
  /\ Waits(p, w) => StillWaits(p, v, w) /\ ~Carries(p, c, v)
  /\ p \in OneAtATime => \A b \in v.busy : b \in w.busy \/ b[1] = c.tail

\* A continuation that ends c and sends d.
Passes(p, c, d, v, w) ==
  /\ p # "overview"
  /\ Shape(p, w) /\ Sent(p, d)
  /\ \A b \in w.busy : (b \in v.busy /\ ~Holds(p, c, b[1])) \/ Holds(p, d, b[1])
  /\ Waits(p, w) => (StillWaits(p, v, w) /\ ~Carries(p, c, v)) \/ Carries(p, d, w)
  /\ p \in OneAtATime => d.tail = c.tail /\ \A b \in v.busy : \E b2 \in w.busy : b2[1] = b[1]

\* A handler that only changes the page.
LEMMA LocalKept ==
  ASSUME PageInv, NEW w, Local(w), SameFlags(page, view, w)
  PROVE  PageInv'
<1>1. view' = w /\ page' = page /\ calls' = calls
  BY DEF Local
<1>2. Shape(page, w) /\ (Waits(page, w) <=> Waits(page, view)) /\ w.busy = view.busy
  BY DEF PageInv, Sound, Shape, SameFlags, Waits
<1>3. \A c : Carries(page, c, w) <=> Carries(page, c, view)
  BY DEF Carries, SameFlags
<1>4. Sound(page, calls, w)
  BY <1>2, <1>3 DEF PageInv, Sound
<1>5. OneMarked(page, calls, w)
  BY <1>2 DEF PageInv, OneMarked
<1>. QED
  BY <1>1, <1>4, <1>5 DEF PageInv

LEMMA AskKept ==
  ASSUME PageInv, NEW c, NEW w, Ask(c, w), Asks(page, c, view, w),
         page \in OneAtATime /\ Marked(c) => \A d \in calls : ~Marked(d)
  PROVE  PageInv'
<1>1. view' = w /\ page' = page /\ calls' = calls \cup {c}
  BY DEF Ask, AskAll
<1>2. \A d : StillWaits(page, view, w) /\ Waits(page, w) /\ Carries(page, d, view) => Carries(page, d, w)
  BY DEF StillWaits, Carries
<1>3. Sound(page, calls \cup {c}, w)
  <2>1. \A b \in w.busy : \E d \in calls \cup {c} : Holds(page, d, b[1])
    BY DEF PageInv, Sound, Asks
  <2>2. Waits(page, w) => \E d \in calls \cup {c} : Carries(page, d, w)
    <3>1. CASE Carries(page, c, w)
      BY <3>1
    <3>2. CASE StillWaits(page, view, w)
      BY <3>2, <1>2 DEF PageInv, Sound, StillWaits
    <3>. QED
      BY <3>1, <3>2 DEF Asks
  <2>. QED
    BY <2>1, <2>2 DEF PageInv, Sound, Asks
<1>4. OneMarked(page, calls \cup {c}, w)
  BY DEF PageInv, OneMarked, Asks
<1>. QED
  BY <1>1, <1>3, <1>4 DEF PageInv

LEMMA AnswerKept ==
  ASSUME PageInv, NEW c \in calls, NEW w, Answer(c, w), Quits(page, c, view, w), page = "overview" => w.busy = {}
  PROVE  PageInv'
<1>1. view' = w /\ page' = page /\ calls' = calls \ {c}
  BY DEF Answer, Ending
<1>2. Sound(page, calls \ {c}, w)
  <2>1. \A b \in w.busy : \E d \in calls \ {c} : Holds(page, d, b[1])
    BY DEF PageInv, Sound, Quits
  <2>2. Waits(page, w) => \E d \in calls \ {c} : Carries(page, d, w)
    <3>1. SUFFICES ASSUME Waits(page, w) PROVE \E d \in calls \ {c} : Carries(page, d, w)
      OBVIOUS
    <3>2. PICK d \in calls : Carries(page, d, view)
      BY <3>1 DEF PageInv, Sound, Quits, StillWaits
    <3>3. d # c /\ Carries(page, d, w)
      BY <3>1, <3>2 DEF Quits, StillWaits, Carries
    <3>. QED
      BY <3>3
  <2>. QED
    BY <2>1, <2>2 DEF PageInv, Sound, Quits
<1>3. OneMarked(page, calls \ {c}, w)
  <2>1. SUFFICES ASSUME page \in OneAtATime, NEW d \in calls \ {c}, Marked(d) PROVE \E b \in w.busy : b[1] = d.tail
    BY DEF PageInv, OneMarked
  <2>2. PICK b \in view.busy : b[1] = d.tail
    BY <2>1 DEF PageInv, OneMarked
  <2>3. ~Marked(c)
    BY <2>1 DEF PageInv, OneMarked
  <2>4. c.tail # d.tail
    BY <2>1, <2>3 DEF Marked
  <2>. QED
    BY <2>1, <2>2, <2>4 DEF Quits
<1>. QED
  BY <1>1, <1>2, <1>3 DEF PageInv

LEMMA AnswerThenKept ==
  ASSUME PageInv, NEW c \in calls, NEW w, NEW d, AnswerThen(c, w, d), Passes(page, c, d, view, w)
  PROVE  PageInv'
<1>1. view' = w /\ page' = page /\ calls' = (calls \ {c}) \cup {d}
  BY DEF AnswerThen, Ending
<1>2. Sound(page, (calls \ {c}) \cup {d}, w)
  <2>1. \A b \in w.busy : \E e \in (calls \ {c}) \cup {d} : Holds(page, e, b[1])
    BY DEF PageInv, Sound, Passes
  <2>2. Waits(page, w) => \E e \in (calls \ {c}) \cup {d} : Carries(page, e, w)
    <3>1. SUFFICES ASSUME Waits(page, w), ~Carries(page, d, w) PROVE \E e \in calls \ {c} : Carries(page, e, w)
      OBVIOUS
    <3>2. PICK e \in calls : Carries(page, e, view)
      BY <3>1 DEF PageInv, Sound, Passes, StillWaits
    <3>3. e # c /\ Carries(page, e, w)
      BY <3>1, <3>2 DEF Passes, StillWaits, Carries
    <3>. QED
      BY <3>3
  <2>. QED
    BY <2>1, <2>2 DEF PageInv, Sound, Passes
<1>3. OneMarked(page, (calls \ {c}) \cup {d}, w)
  <2>1. SUFFICES ASSUME page \in OneAtATime PROVE OneMarked(page, (calls \ {c}) \cup {d}, w)
    BY DEF OneMarked
  <2>2. Marked(d) <=> Marked(c)
    BY <2>1 DEF Passes, Marked
  <2>3. \A e \in calls : Marked(e) => \E b \in w.busy : b[1] = e.tail
    BY <2>1 DEF PageInv, OneMarked, Passes
  <2>4. Marked(d) => \E b \in w.busy : b[1] = d.tail
    BY <2>1, <2>2, <2>3 DEF Passes
  <2>5. \A e \in calls \ {c} : Marked(e) => ~Marked(d)
    BY <2>1, <2>2 DEF PageInv, OneMarked
  <2>6. \A e, f \in calls : Marked(e) /\ Marked(f) => e = f
    BY <2>1 DEF PageInv, OneMarked
  <2>. QED
    BY <2>1, <2>3, <2>4, <2>5, <2>6 DEF OneMarked
<1>. QED
  BY <1>1, <1>2, <1>3 DEF PageInv

\* What became of a request does not tell who sent it.
LEMMA BecomeKept ==
  ASSUME PageInv, NEW c \in calls, NEW d, Become(c, d), UNCHANGED <<page, view>>,
         DOMAIN d = DOMAIN c, d.op = c.op, d.do = c.do, d.tail = c.tail, d.gen = c.gen
  PROVE  PageInv'
<1>1. view' = view /\ page' = page /\ calls' = (calls \ {c}) \cup {d}
  BY DEF Become
<1>2. /\ Marked(c) <=> Marked(d)
      /\ \A t : Holds(page, c, t) <=> Holds(page, d, t)
      /\ Carries(page, c, view) <=> Carries(page, d, view)
  BY DEF Marked, Holds, Carries
<1>5. Sent(page, c) => Sent(page, d)
  BY <1>2 DEF Sent
<1>3. Sound(page, (calls \ {c}) \cup {d}, view)
  BY <1>2, <1>5 DEF PageInv, Sound
<1>4. OneMarked(page, (calls \ {c}) \cup {d}, view)
  BY <1>2 DEF PageInv, OneMarked
<1>. QED
  BY <1>1, <1>3, <1>4 DEF PageInv

LEMMA OutsideKept ==
  ASSUME PageInv, Outside
  PROVE  PageInv'
<1>1. \A c \in calls : {"op", "do", "tail", "gen", "st"} \subseteq DOMAIN c
  BY DEF PageInv, Sound, Sent
<1>2. CASE Served
  <2>1. PICK c \in calls : Serve(c)
    BY <1>2 DEF Served
  <2>2. UNCHANGED <<page, view>>
    BY <1>2 DEF Served
  <2>3. CASE ServeList(c)
    BY <1>1, <2>2, <2>3, BecomeKept DEF ServeList
  <2>4. CASE ServeGet(c)
    BY <1>1, <2>2, <2>4, BecomeKept DEF ServeGet
  <2>5. CASE ServeCreate(c)
    BY <1>1, <2>2, <2>5, BecomeKept DEF ServeCreate
  <2>6. CASE ServePut(c)
    BY <1>1, <2>2, <2>6, BecomeKept DEF ServePut
  <2>7. CASE ServeUpsert(c)
    BY <1>1, <2>2, <2>7, BecomeKept DEF ServeUpsert
  <2>8. CASE ServeDelete(c)
    BY <1>1, <2>2, <2>8, BecomeKept DEF ServeDelete
  <2>9. CASE ServeRun(c)
    BY <1>1, <2>2, <2>9, BecomeKept DEF ServeRun
  <2>10. CASE ServeMerge(c)
    BY <1>1, <2>2, <2>10, BecomeKept DEF ServeMerge
  <2>. QED
    BY <2>1, <2>3, <2>4, <2>5, <2>6, <2>7, <2>8, <2>9, <2>10 DEF Serve
<1>3. CASE Refused
  BY <1>1, <1>3, BecomeKept DEF Refused
<1>4. CASE AnswerLost
  BY <1>1, <1>4, BecomeKept DEF AnswerLost
<1>5. CASE Elsewhere
  BY <1>5 DEF Elsewhere, PageInv
<1>. QED
  BY <1>2, <1>3, <1>4, <1>5 DEF Outside

\* A page that is left.
LEMMA LeaveKept ==
  ASSUME LeavePage
  PROVE  PageInv'
<1>1. page' = "left" /\ calls' = {} /\ view'.busy = {} /\ view'.loading = FALSE
      /\ {"loading", "loaded", "err", "rows", "busy"} \subseteq DOMAIN view'
  BY DEF LeavePage, BlankList
<1>2. "left" \notin NumberedPages
  BY DEF NumberedPages
<1>. QED
  BY <1>1, <1>2 DEF PageInv, Sound, OneMarked, Shape, Waits

----------------------------------------------------------------------------
(* The handlers most pages share.  The pages that number their loads, and those *)
(* with details, have some of their own.                                         *)

CallFields ==
  {"n", "op", "do", "arg", "base", "cap", "q", "gen", "tail", "st", "rows", "got", "ver"}

LEMMA CallIs ==
  ASSUME NEW op, NEW do, NEW arg
  PROVE  /\ DOMAIN Call(op, do, arg) = CallFields
         /\ Call(op, do, arg).op = op /\ Call(op, do, arg).do = do
         /\ Call(op, do, arg).tail = "none" /\ Call(op, do, arg).gen = 0
BY DEF Call, Request, CallFields

LEMMA ListIs ==
  ASSUME NEW tail
  PROVE  /\ DOMAIN List(tail) = CallFields
         /\ List(tail).op = "list" /\ List(tail).do = "list"
         /\ List(tail).tail = tail /\ List(tail).gen = 0
BY DEF List, Call, Request, CallFields

\* What is known of the page and of a request under way.
LEMMA PageIs ==
  ASSUME PageInv
  PROVE  /\ Shape(page, view)
         /\ {"loading", "loaded", "err", "rows", "busy"} \subseteq DOMAIN view
         /\ \A c \in calls : TailOK(page, c.op, c.tail)
         /\ \A b \in view.busy : b[1] # "none"
BY DEF PageInv, Sound, Shape, Sent, Holds

\* An idle page writes nothing.
LEMMA IdleIsFree ==
  ASSUME PageInv, page \in OneAtATime, Idle
  PROVE  \A d \in calls : ~Marked(d)
BY DEF PageInv, OneMarked, Idle

\* A request that raises no flag, and one that raises its flag.
LEMMA ReadKept ==
  ASSUME PageInv, NEW c, NEW w, Ask(c, w), SameFlags(page, view, w), Sent(page, c), ~Marked(c), page # "overview"
  PROVE  PageInv'
<1>1. Asks(page, c, view, w)
  BY PageIs DEF Asks, SameFlags, Shape, StillWaits, Waits
<1>. QED
  BY <1>1, AskKept

LEMMA PlainAskKept ==
  ASSUME PageInv, NEW op, NEW do, NEW i, NEW w, Ask(Call(op, do, i), w), SameFlags(page, view, w),
         TailOK(page, op, "none"), page \in OneAtATime => do \in Reads, page # "overview"
  PROVE  PageInv'
<1>1. PICK c : c = Call(op, do, i)
  OBVIOUS
<1>2. DOMAIN c = CallFields /\ c.op = op /\ c.do = do /\ c.tail = "none"
  BY <1>1 DEF Call, Request, CallFields
<1>3. Sent(page, c) /\ ~Marked(c)
  BY <1>2 DEF Sent, Marked, CallFields
<1>. QED
  BY <1>1, <1>3, ReadKept

LEMMA FlagKept ==
  ASSUME PageInv, NEW c, NEW v, NEW tag, NEW what, NEW i, Ask(c, Flag(v, tag, what, i)),
         DOMAIN v = DOMAIN view, v.busy = view.busy, v.loading = view.loading \/ c.op \in LoadOps,
         Sent(page, c), c.tail = tag, tag # "none",
         page \in OneAtATime /\ Marked(c) => \A d \in calls : ~Marked(d), page \notin NumberedPages
  PROVE  PageInv'
<1>1. PICK w, t : w = Flag(v, tag, what, i) /\ t = <<tag, what, i>>
  OBVIOUS
<1>2. /\ DOMAIN w = DOMAIN view /\ w.loading = v.loading
      /\ w.busy = {b \in view.busy : b[1] # tag} \cup {t}
  BY <1>1, PageIs DEF Flag
<1>3. Shape(page, w)
  BY <1>2, PageIs DEF Shape
<1>4. StillWaits(page, view, w) \/ Carries(page, c, w)
  BY <1>2 DEF StillWaits, Waits, Carries
<1>5. t[1] = tag
  BY <1>1
<1>6. \A b \in w.busy : b \in view.busy \/ Holds(page, c, b[1])
  BY <1>2, <1>5 DEF Holds
<1>7. (\A b \in view.busy : \E b2 \in w.busy : b2[1] = b[1]) /\ \E b \in w.busy : b[1] = c.tail
  BY <1>2, <1>5
<1>8. Asks(page, c, view, w)
  BY <1>3, <1>4, <1>6, <1>7 DEF Asks, NumberedPages
<1>. QED
  BY <1>1, <1>8, AskKept

LEMMA WriteKept ==
  ASSUME PageInv, NEW op, NEW do, NEW i, NEW tag, Write(op, do, i, tag), TailOK(page, op, tag), tag # "none",
         page \in OneAtATime /\ do \notin Reads => tag \in {"busy", "saving", "deleting"},
         page \in OneAtATime /\ tag \in {"busy", "saving", "deleting"} => \A d \in calls : ~Marked(d),
         page \notin NumberedPages
  PROVE  PageInv'
<1>1. PICK c : c = [Call(op, do, i) EXCEPT !.tail = tag]
  OBVIOUS
<1>2. c.op = op /\ c.do = do /\ c.tail = tag /\ DOMAIN c = CallFields
  BY <1>1 DEF Call, Request, CallFields
<1>3. Sent(page, c)
  BY <1>2 DEF Sent, Marked, CallFields
<1>4. Ask(c, Flag(view, tag, op, i))
  BY <1>1 DEF Write
<1>. QED
  BY <1>2, <1>3, <1>4, FlagKept DEF Marked

\* A load that is asked for.
LEMMA LoadKept ==
  ASSUME PageInv, NEW c, NEW v, Ask(c, Loading(v)), SameFlags(page, view, v), Sent(page, c), ~Marked(c),
         c.op \in LoadOps, page \notin NumberedPages
  PROVE  PageInv'
<1>1. PICK w : w = Loading(v)
  OBVIOUS
<1>2. DOMAIN w = DOMAIN view /\ w.busy = view.busy
  BY <1>1, PageIs DEF Loading, SameFlags
<1>3. Asks(page, c, view, w)
  BY <1>2, PageIs DEF Asks, Shape, Carries, NumberedPages
<1>. QED
  BY <1>1, <1>3, AskKept

LEMMA PlainListIs ==
  ASSUME NEW p, TailOK(p, "list", "none")
  PROVE  Sent(p, List("none")) /\ ~Marked(List("none")) /\ List("none").op \in LoadOps
BY ListIs DEF Sent, Marked, CallFields, LoadOps, Reads

LEMMA RefreshKept ==
  ASSUME PageInv, NEW g, RefreshWhen(g), TailOK(page, "list", "none"), page \notin NumberedPages
  PROVE  PageInv'
<1>1. Ask(List("none"), Loading(view)) /\ SameFlags(page, view, view)
  BY DEF RefreshWhen, SameFlags
<1>. QED
  BY <1>1, PlainListIs, LoadKept

\* A continuation that ends with its flag, having ended its load or having none.
LEMMA LowerKept ==
  ASSUME PageInv, NEW c \in calls, NEW w, Answer(c, w), DOMAIN w = DOMAIN view,
         w.busy = {b \in view.busy : b[1] # c.tail},
         w.loading = FALSE \/ (w.loading = view.loading /\ c.op \notin LoadOps),
         page \notin NumberedPages, page \notin Detailed \/ c.op # "detail"
  PROVE  PageInv'
<1>1. Shape(page, w)
  BY PageIs DEF Shape
<1>2. Waits(page, w) => StillWaits(page, view, w) /\ ~Carries(page, c, view)
  BY DEF StillWaits, Waits, Carries
<1>3. Quits(page, c, view, w)
  BY <1>1, <1>2 DEF Quits, Holds
<1>. QED
  BY <1>3, AnswerKept DEF NumberedPages

LEMMA EndKept ==
  ASSUME PageInv, NEW c \in calls, NEW v, NEW tag, Answer(c, Ends(v, tag)), tag = c.tail,
         DOMAIN v = DOMAIN view, v.busy = view.busy,
         v.loading = FALSE \/ (v.loading = view.loading /\ c.op \notin LoadOps),
         page \notin NumberedPages, page \notin Detailed \/ c.op # "detail"
  PROVE  PageInv'
<1>1. PICK w : w = Ends(v, tag)
  OBVIOUS
<1>2. /\ DOMAIN w = DOMAIN view /\ w.loading = v.loading
      /\ w.busy = {b \in view.busy : b[1] # tag}
  BY <1>1, PageIs DEF Ends
<1>. QED
  BY <1>1, <1>2, LowerKept

LEMMA EndIfKept ==
  ASSUME PageInv, NEW c \in calls, NEW v, NEW tag, Answer(c, Ends(IF Ok(c) THEN v ELSE view, tag)), tag = c.tail,
         SameFlags(page, view, v), c.op \notin LoadOps,
         page \notin NumberedPages, page \notin Detailed \/ c.op # "detail"
  PROVE  PageInv'
<1>1. PICK w : w = IF Ok(c) THEN v ELSE view
  OBVIOUS
<1>2. DOMAIN w = DOMAIN view /\ w.busy = view.busy /\ w.loading = view.loading
  BY <1>1 DEF SameFlags
<1>. QED
  BY <1>1, <1>2, EndKept

\* One that has no flag to end.
LEMMA PlainKept ==
  ASSUME PageInv, NEW c \in calls, NEW w, Answer(c, w), c.tail = "none",
         DOMAIN w = DOMAIN view, w.busy = view.busy,
         w.loading = FALSE \/ (w.loading = view.loading /\ c.op \notin LoadOps),
         page \notin NumberedPages, page \notin Detailed \/ c.op # "detail"
  PROVE  PageInv'
<1>1. Waits(page, w) => StillWaits(page, view, w) /\ ~Carries(page, c, view)
  BY DEF StillWaits, Waits, Carries
<1>2. Quits(page, c, view, w)
  BY <1>1, PageIs DEF Quits, Shape, Holds
<1>. QED
  BY <1>2, AnswerKept DEF NumberedPages

\* One that goes on to a load, or to another request, with its flag.
LEMMA ThenLoadKept ==
  ASSUME PageInv, NEW c \in calls, NEW v, NEW d, AnswerThen(c, Loading(v), d), SameFlags(page, view, v),
         Sent(page, d), d.tail = c.tail, d.op \in LoadOps,
         page \notin NumberedPages, page \notin Detailed \/ c.op # "detail"
  PROVE  PageInv'
<1>1. PICK w : w = Loading(v)
  OBVIOUS
<1>2. DOMAIN w = DOMAIN view /\ w.busy = view.busy
  BY <1>1, PageIs DEF Loading, SameFlags
<1>3. \A b \in w.busy : (b \in view.busy /\ ~Holds(page, c, b[1])) \/ Holds(page, d, b[1])
  BY <1>2 DEF Holds
<1>4. Passes(page, c, d, view, w)
  BY <1>2, <1>3, PageIs DEF Passes, Shape, Carries, NumberedPages
<1>. QED
  BY <1>1, <1>4, AnswerThenKept

LEMMA ThenKept ==
  ASSUME PageInv, NEW c \in calls, NEW w, NEW d, AnswerThen(c, w, d), SameFlags(page, view, w),
         Sent(page, d), d.tail = c.tail, c.op \notin LoadOps \/ d.op \in LoadOps,
         page \notin NumberedPages, page \notin Detailed \/ c.op # "detail"
  PROVE  PageInv'
<1>1. DOMAIN w = DOMAIN view /\ w.busy = view.busy /\ w.loading = view.loading
  BY DEF SameFlags
<1>2. \A b \in w.busy : (b \in view.busy /\ ~Holds(page, c, b[1])) \/ Holds(page, d, b[1])
  BY <1>1 DEF Holds
<1>3. Waits(page, w) => (StillWaits(page, view, w) /\ ~Carries(page, c, view)) \/ Carries(page, d, w)
  BY <1>1 DEF StillWaits, Waits, Carries
<1>4. Passes(page, c, d, view, w)
  BY <1>1, <1>2, <1>3, PageIs DEF Passes, Shape, NumberedPages
<1>. QED
  BY <1>4, AnswerThenKept

\* One that goes on to a request with a flag of its own, and with the one it had.
LEMMA ThenFlagKept ==
  ASSUME PageInv, NEW c \in calls, NEW v, NEW tag, NEW what, NEW i, NEW d,
         AnswerThen(c, Flag(v, tag, what, i), d),
         DOMAIN v = DOMAIN view, v.busy = view.busy,
         v.loading = FALSE \/ (v.loading = view.loading /\ c.op \notin LoadOps),
         Sent(page, d), \A t : Holds(page, c, t) => Holds(page, d, t), Holds(page, d, tag),
         page \notin NumberedPages, page \notin OneAtATime
  PROVE  PageInv'
<1>1. PICK w, t : w = Flag(v, tag, what, i) /\ t = <<tag, what, i>>
  OBVIOUS
<1>2. /\ DOMAIN w = DOMAIN view /\ w.loading = v.loading
      /\ w.busy = {b \in view.busy : b[1] # tag} \cup {t}
  BY <1>1, PageIs DEF Flag
<1>3. t[1] = tag
  BY <1>1
<1>4. \A b \in w.busy : (b \in view.busy /\ ~Holds(page, c, b[1])) \/ Holds(page, d, b[1])
  BY <1>2, <1>3
<1>5. Waits(page, w) => StillWaits(page, view, w) /\ ~Carries(page, c, view)
  BY <1>2 DEF StillWaits, Waits, Carries
<1>6. Shape(page, w)
  BY <1>2, PageIs DEF Shape
<1>7. Passes(page, c, d, view, w)
  BY <1>4, <1>5, <1>6 DEF Passes, NumberedPages
<1>. QED
  BY <1>1, <1>7, AnswerThenKept

\* The end of a write that a load follows, and of that load.
LEMMA WroteKept ==
  ASSUME PageInv, NEW c \in calls, NEW v, WroteThenLoads(c, v), SameFlags(page, view, v),
         TailOK(page, "list", c.tail), c.op \notin LoadOps, c.op # "detail", page \notin NumberedPages
  PROVE  PageInv'
<1>1. CASE Ok(c)
  <2>1. Sent(page, List(c.tail)) /\ List(c.tail).op \in LoadOps /\ List(c.tail).tail = c.tail
    BY ListIs DEF Sent, CallFields, LoadOps, Reads
  <2>2. AnswerThen(c, Loading(v), List(c.tail))
    BY <1>1 DEF WroteThenLoads
  <2>. QED
    BY <2>1, <2>2, ThenLoadKept
<1>2. CASE ~Ok(c)
  BY <1>2, EndKept DEF WroteThenLoads
<1>. QED
  BY <1>1, <1>2

LEMMA LoadedIs ==
  ASSUME PageInv, NEW c
  PROVE  /\ DOMAIN Loaded(view, c) = DOMAIN view
         /\ Loaded(view, c).busy = view.busy /\ Loaded(view, c).loading = FALSE
         /\ DOMAIN Heard(view, c) = DOMAIN view
         /\ Heard(view, c).busy = view.busy /\ Heard(view, c).loading = view.loading
BY PageIs DEF Loaded, Heard

LEMMA ListArrivesKept ==
  ASSUME PageInv, ListArrives, page \notin NumberedPages
  PROVE  PageInv'
<1>1. PICK c \in calls : c.op = "list" /\ Answer(c, Ends(Loaded(view, c), c.tail))
  BY DEF ListArrives, Answered
<1>. QED
  BY <1>1, LoadedIs, EndKept

\* The dialogs.
LEMMA DialogKept ==
  ASSUME PageInv, CancelDialog \/ \E kind, i : OpenDialog(kind, i)
  PROVE  PageInv'
<1>1. CASE CancelDialog
  <2>1. SameFlags(page, view, CloseDialog(view))
    BY PageIs DEF SameFlags, CloseDialog, Shape
  <2>. QED
    BY <1>1, <2>1, LocalKept DEF CancelDialog
<1>2. ASSUME NEW kind, NEW i, OpenDialog(kind, i) PROVE PageInv'
  <2>1. SameFlags(page, view, [view EXCEPT !.ask = i, !.kind = kind])
    BY PageIs DEF SameFlags, Shape
  <2>. QED
    BY <1>2, <2>1, LocalKept DEF OpenDialog
<1>. QED
  BY <1>1, <1>2

----------------------------------------------------------------------------
(* The pages of PagesTalk. *)

LEMMA SessionsKept ==
  ASSUME PageInv, page = "sessions", SessionsNext
  PROVE  PageInv'
<1>1. page \notin NumberedPages /\ page \notin OneAtATime /\ page \notin Detailed /\ page # "overview"
  BY DEF NumberedPages, OneAtATime, Detailed
<1>2. \A op, tail : TailOK(page, op, tail) <=>
        /\ op \in {"list", "mode"} => tail = "none"
        /\ op = "create" => tail = "creating"
        /\ op = "delete" => tail = "deleting"
  BY DEF TailOK, Untagged
<1>3. CASE SessionsLoaded
  BY <1>1, <1>2, <1>3, PageIs, LoadedIs, PlainKept DEF SessionsLoaded, Answered
<1>4. CASE SessionsForm
  BY <1>1, <1>4, PageIs, LocalKept DEF SessionsForm, SameFlags
<1>5. CASE SessionsCreate
  BY <1>1, <1>2, <1>5, WriteKept DEF SessionsCreate
<1>6. CASE SessionsCreated
  BY <1>1, <1>2, <1>6, PageIs, LeaveKept, EndKept DEF SessionsCreated, Answered, LoadOps
<1>7. CASE SessionsMode
  <2>1. ASSUME NEW i, Ask(Call("mode", "put", i), view) PROVE PageInv'
    BY <1>1, <1>2, <2>1, PlainAskKept DEF SameFlags
  <2>2. ASSUME NEW c \in calls, c.op = "mode", Answer(c, IF Ok(c) THEN ChangeRow(view, c.arg, c.ver) ELSE view)
        PROVE PageInv'
    BY <1>1, <1>2, <2>2, PageIs, PlainKept DEF LoadOps, ChangeRow
  <2>. QED
    BY <1>7, <2>1, <2>2 DEF SessionsMode, Answered
<1>8. CASE SessionsRemove
  <2>1. ASSUME NEW i, Write("delete", "delete", i, "deleting") PROVE PageInv'
    BY <1>1, <1>2, <2>1, WriteKept
  <2>2. ASSUME NEW c \in calls, c.op = "delete", Answer(c, Ends(IF Ok(c) THEN DropRow(view, c.arg) ELSE view, "deleting"))
        PROVE PageInv'
    BY <1>1, <1>2, <2>2, PageIs, EndIfKept DEF LoadOps, DropRow, SameFlags
  <2>. QED
    BY <1>8, <2>1, <2>2 DEF SessionsRemove, Answered
<1>9. CASE RefreshWhen(TRUE) \/ LeavePage
  BY <1>1, <1>2, <1>9, RefreshKept, LeaveKept
<1>. QED
  BY <1>3, <1>4, <1>5, <1>6, <1>7, <1>8, <1>9 DEF SessionsNext

LEMMA AgentsKept ==
  ASSUME PageInv, page = "agents", AgentsNext
  PROVE  PageInv'
<1>1. page \notin NumberedPages /\ page \notin Detailed /\ page # "overview"
  BY DEF NumberedPages, Detailed
<1>2. \A op, tail : TailOK(page, op, tail) <=> (op = "detail" => tail = "loadingDetail")
  BY DEF TailOK, Untagged
<1>3. Idle => \A d \in calls : ~Marked(d)
  BY IdleIsFree DEF OneAtATime
<1>4. CASE ListArrives \/ RefreshWhen(TRUE)
  BY <1>1, <1>2, <1>4, ListArrivesKept, RefreshKept
<1>5. CASE AgentsPick
  <2>1. ASSUME NEW i, Write("detail", "get", i, "loadingDetail") PROVE PageInv'
    BY <1>1, <1>2, <2>1, WriteKept DEF Reads
  <2>2. ASSUME NEW c \in calls, c.op = "detail",
               Answer(c, Ends(IF Ok(c) THEN Detail(view, c.got, c.ver) ELSE view, "loadingDetail"))
        PROVE PageInv'
    <3>1. SameFlags(page, view, Detail(view, c.got, c.ver))
      BY <1>1, PageIs DEF Detail, SameFlags
    <3>. QED
      BY <1>1, <1>2, <2>2, <3>1, PageIs, EndIfKept DEF LoadOps
  <2>. QED
    BY <1>5, <2>1, <2>2 DEF AgentsPick, Answered
<1>6. CASE AgentsForm
  BY <1>1, <1>6, PageIs, LocalKept DEF AgentsForm, SameFlags
<1>7. CASE AgentsSave
  <2>1. PICK c : c = [Call("save", "check", view.sel) EXCEPT !.base = view.shown, !.tail = "saving"]
    OBVIOUS
  <2>2. c.op = "save" /\ c.tail = "saving" /\ DOMAIN c = CallFields
    BY <2>1 DEF Call, Request, CallFields
  <2>3. Sent(page, c)
    BY <1>2, <2>2 DEF Sent, Marked, CallFields
  <2>4. CASE Ask(c, Flag(view, "saving", "save", view.sel))
    BY <1>1, <1>3, <1>7, <2>2, <2>3, <2>4, FlagKept DEF AgentsSave
  <2>5. CASE Write("save", "create", NoRow, "saving")
    BY <1>1, <1>2, <1>3, <1>7, <2>5, WriteKept DEF AgentsSave
  <2>. QED
    BY <1>7, <2>1, <2>4, <2>5 DEF AgentsSave
<1>8. CASE AgentsSaved
  BY <1>1, <1>2, <1>8, PageIs, WroteKept DEF AgentsSaved, Answered, LoadOps, Detail, SameFlags
<1>9. CASE AgentsRemove
  <2>1. CASE Idle /\ Write("delete", "delete", view.sel, "deleting")
    BY <1>1, <1>2, <1>3, <2>1, WriteKept
  <2>2. ASSUME NEW c \in calls, c.op = "delete",
               WroteThenLoads(c, [view EXCEPT !.sel = NoRow, !.shown = 0, !.open = FALSE])
        PROVE PageInv'
    BY <1>1, <1>2, <2>2, PageIs, WroteKept DEF LoadOps, SameFlags
  <2>. QED
    BY <1>9, <2>1, <2>2 DEF AgentsRemove, Answered
<1>. QED
  BY <1>4, <1>5, <1>6, <1>7, <1>8, <1>9 DEF AgentsNext

LEMMA ChannelsKept ==
  ASSUME PageInv, page = "channels", ChannelsNext
  PROVE  PageInv'
<1>1. page \notin NumberedPages /\ page \notin OneAtATime /\ page \notin Detailed /\ page # "overview"
  BY DEF NumberedPages, OneAtATime, Detailed
<1>2. \A op, tail : TailOK(page, op, tail) <=> (op \in {"policy", "allow", "allowList"} => tail = "none")
  BY DEF TailOK, Untagged
<1>3. CASE ChannelsLoaded
  <2>1. PICK c, w : /\ c \in calls /\ Answer(c, w) /\ DOMAIN w = DOMAIN view /\ w.loading = FALSE
                   /\ w.busy = {b \in view.busy : b[1] # c.tail}
    <3>1. PICK c, v, u : /\ c \in calls /\ v = Loaded(view, c) /\ u = Ends(v, c.tail)
                         /\ Answer(c, IF Ok(c) THEN [u EXCEPT !.drafts = {}] ELSE u) /\ c.op = "list"
      BY <1>3 DEF ChannelsLoaded, Answered
    <3>2. DOMAIN v = DOMAIN view /\ v.busy = view.busy /\ v.loading = FALSE
      BY <3>1, LoadedIs
    <3>3. DOMAIN u = DOMAIN view /\ u.busy = {b \in view.busy : b[1] # c.tail} /\ u.loading = FALSE
      BY <3>1, <3>2, PageIs DEF Ends
    <3>. QED
      BY <3>1, <3>3, PageIs
  <2>2. PageInv'
    BY <1>1, <2>1, LowerKept
  <2>. QED
    BY <1>3, <2>1, <2>2 DEF ChannelsLoaded, Answered
<1>4. CASE ChannelsType
  <2>1. ASSUME NEW i, Local([view EXCEPT !.drafts = @ \cup {i}]) PROVE PageInv'
    <3>1. SameFlags(page, view, [view EXCEPT !.drafts = @ \cup {i}])
      BY <1>1, PageIs DEF SameFlags
    <3>. QED
      BY <2>1, <3>1, LocalKept
  <2>2. ASSUME NEW i, Local([view EXCEPT !.allow = @ \cup {i}]) PROVE PageInv'
    <3>1. SameFlags(page, view, [view EXCEPT !.allow = @ \cup {i}])
      BY <1>1, PageIs DEF SameFlags
    <3>. QED
      BY <2>2, <3>1, LocalKept
  <2>. QED
    BY <1>4, <2>1, <2>2 DEF ChannelsType, Answered
<1>5. CASE ChannelsPolicy
  <2>1. ASSUME NEW i, Ask(Call("policy", "put", i), view) PROVE PageInv'
    BY <1>1, <1>2, <2>1, PlainAskKept DEF SameFlags
  <2>2. ASSUME NEW c \in calls, c.op = "policy", AnswerThen(c, Loading(view), List("none")) PROVE PageInv'
    <3>1. SameFlags(page, view, view)
      BY DEF SameFlags
    <3>2. PICK d : d = List("none")
      OBVIOUS
    <3>3. d.tail = c.tail /\ d.op \in LoadOps /\ d.do \in Reads /\ DOMAIN d = CallFields /\ TailOK(page, d.op, d.tail)
      BY <1>2, <2>2, <3>2, PageIs DEF List, Call, Request, CallFields, LoadOps, Reads
    <3>4. Sent(page, d)
      BY <3>3 DEF Sent, CallFields
    <3>. QED
      BY <1>1, <2>2, <3>1, <3>2, <3>3, <3>4, ThenLoadKept
  <2>3. ASSUME NEW c \in calls, c.op = "policy", Answer(c, view) PROVE PageInv'
    BY <1>1, <1>2, <2>3, PageIs, PlainKept DEF LoadOps
  <2>. QED
    BY <1>5, <2>1, <2>2, <2>3 DEF ChannelsPolicy, Answered
<1>6. CASE ChannelsAllow
  <2>1. ASSUME NEW i, Ask(Call("allow", "put", i), view) PROVE PageInv'
    BY <1>1, <1>2, <2>1, PlainAskKept DEF SameFlags
  <2>2. ASSUME NEW c \in calls, c.op = "allow",
               AnswerThen(c, Loading(view), [List("none") EXCEPT !.op = "allowList", !.cap = c.arg])
        PROVE PageInv'
    <3>1. SameFlags(page, view, view)
      BY DEF SameFlags
    <3>2. PICK d : d = [List("none") EXCEPT !.op = "allowList", !.cap = c.arg]
      OBVIOUS
    <3>3. d.tail = c.tail /\ d.op \in LoadOps /\ d.do \in Reads /\ DOMAIN d = CallFields /\ TailOK(page, d.op, d.tail)
      BY <1>2, <2>2, <3>2, PageIs DEF List, Call, Request, CallFields, LoadOps, Reads
    <3>4. Sent(page, d)
      BY <3>3 DEF Sent, CallFields
    <3>. QED
      BY <1>1, <2>2, <3>1, <3>2, <3>3, <3>4, ThenLoadKept
  <2>3. ASSUME NEW c \in calls, c.op = "allow", Answer(c, [view EXCEPT !.allow = @ \ {c.arg}]) PROVE PageInv'
    <3>1. SameFlags(page, view, [view EXCEPT !.allow = @ \ {c.arg}])
      BY <1>1, PageIs DEF SameFlags
    <3>. QED
      BY <1>1, <1>2, <2>3, <3>1, PageIs, PlainKept DEF LoadOps, SameFlags
  <2>4. ASSUME NEW c \in calls, c.op = "allowList",
               Answer(c, [Loaded(view, c) EXCEPT !.allow = @ \ {c.cap}, !.drafts = IF Ok(c) THEN {} ELSE @])
        PROVE PageInv'
    <3>1. PICK v : v = Loaded(view, c)
      OBVIOUS
    <3>2. DOMAIN v = DOMAIN view /\ v.busy = view.busy /\ v.loading = FALSE
      BY <3>1, LoadedIs
    <3>. QED
      BY <1>1, <1>2, <2>4, <3>1, <3>2, PageIs, PlainKept
  <2>. QED
    BY <1>6, <2>1, <2>2, <2>3, <2>4 DEF ChannelsAllow, Answered
<1>7. CASE ChannelsSecret
  <2>1. ASSUME NEW i, Write("secrets", "put", i, "saving") PROVE PageInv'
    BY <1>1, <1>2, <2>1, WriteKept
  <2>2. ASSUME NEW i, Write("clear", "put", i, "clearing") PROVE PageInv'
    BY <1>1, <1>2, <2>2, WriteKept
  <2>3. ASSUME NEW c \in calls, c.op \in {"secrets", "clear"},
               WroteThenLoads(c, [view EXCEPT !.drafts = @ \ {c.arg}])
        PROVE PageInv'
    <3>1. SameFlags(page, view, [view EXCEPT !.drafts = @ \ {c.arg}])
      BY <1>1, PageIs DEF SameFlags
    <3>. QED
      BY <1>1, <1>2, <2>3, <3>1, PageIs, WroteKept DEF LoadOps
  <2>. QED
    BY <1>7, <2>1, <2>2, <2>3 DEF ChannelsSecret, Answered
<1>8. CASE ChannelsTest
  <2>1. ASSUME NEW i, Write("test", "run", i, "testing") PROVE PageInv'
    BY <1>1, <1>2, <2>1, WriteKept
  <2>2. ASSUME NEW c \in calls, c.op = "test", WroteThenLoads(c, view) PROVE PageInv'
    <3>1. SameFlags(page, view, view)
      BY DEF SameFlags
    <3>. QED
      BY <1>1, <1>2, <2>2, <3>1, PageIs, WroteKept DEF LoadOps
  <2>. QED
    BY <1>8, <2>1, <2>2 DEF ChannelsTest, Answered
<1>9. CASE ChannelsLogout
  <2>1. ASSUME NEW i, Write("logout", "run", i, "busy") PROVE PageInv'
    BY <1>1, <1>2, <2>1, WriteKept
  <2>2. ASSUME NEW c \in calls, c.op = "logout", WroteThenLoads(c, view) PROVE PageInv'
    <3>1. SameFlags(page, view, view)
      BY DEF SameFlags
    <3>. QED
      BY <1>1, <1>2, <2>2, <3>1, PageIs, WroteKept DEF LoadOps
  <2>. QED
    BY <1>9, <2>1, <2>2 DEF ChannelsLogout, Answered
<1>10. CASE RefreshWhen(~view.loading /\ ~Flagged("busy"))
  BY <1>1, <1>2, <1>10, RefreshKept
<1>. QED
  BY <1>3, <1>4, <1>5, <1>6, <1>7, <1>8, <1>9, <1>10 DEF ChannelsNext

LEMMA PairingKept ==
  ASSUME PageInv, page = "pairing", PairingNext
  PROVE  PageInv'
<1>1. page \notin NumberedPages /\ page \notin OneAtATime /\ page \notin Detailed /\ page # "overview"
  BY DEF NumberedPages, OneAtATime, Detailed
<1>2. \A op, tail : TailOK(page, op, tail)
  BY DEF TailOK, Untagged
<1>3. CASE ListArrives \/ RefreshWhen(~view.loading /\ Idle)
  BY <1>1, <1>2, <1>3, ListArrivesKept, RefreshKept
<1>4. CASE PairingApprove
  <2>1. ASSUME NEW i, Write("approve", "delete", i, "busy") PROVE PageInv'
    BY <1>1, <1>2, <2>1, WriteKept
  <2>2. ASSUME NEW c \in calls, c.op = "approve", WroteThenLoads(c, view) PROVE PageInv'
    <3>1. SameFlags(page, view, view)
      BY DEF SameFlags
    <3>. QED
      BY <1>1, <1>2, <2>2, <3>1, PageIs, WroteKept DEF LoadOps
  <2>. QED
    BY <1>4, <2>1, <2>2 DEF PairingApprove, Answered
<1>5. CASE PairingDeny
  <2>1. ASSUME NEW i, Write("deny", "delete", i, "busy") PROVE PageInv'
    BY <1>1, <1>2, <2>1, WriteKept
  <2>2. ASSUME NEW c \in calls, c.op = "deny", WroteThenLoads(c, CloseDialog(view)) PROVE PageInv'
    <3>1. SameFlags(page, view, CloseDialog(view))
      BY <1>1, PageIs DEF SameFlags, CloseDialog
    <3>. QED
      BY <1>1, <1>2, <2>2, <3>1, PageIs, WroteKept DEF LoadOps
  <2>. QED
    BY <1>5, <2>1, <2>2, DialogKept DEF PairingDeny, Answered
<1>. QED
  BY <1>3, <1>4, <1>5 DEF PairingNext

LEMMA PendingKept ==
  ASSUME PageInv, page = "pending", PendingNext
  PROVE  PageInv'
<1>1. page \notin NumberedPages /\ page \in OneAtATime /\ page \notin Detailed /\ page # "overview"
  BY DEF NumberedPages, OneAtATime, Detailed
<1>2. \A op, tail : TailOK(page, op, tail)
  BY DEF TailOK, Untagged
<1>3. Idle => \A d \in calls : ~Marked(d)
  BY <1>1, IdleIsFree
<1>4. CASE ListArrives \/ RefreshWhen(~view.loading /\ Idle)
  BY <1>1, <1>2, <1>4, ListArrivesKept, RefreshKept
<1>5. CASE PendingOpen \/ CancelDialog
  BY <1>1, <1>2, <1>5, DialogKept DEF PendingOpen
<1>6. CASE PendingSubmit
  <2>1. ASSUME NEW i, Idle, Write("compact", "live", i, "busy") PROVE PageInv'
    BY <1>1, <1>2, <1>3, <2>1, WriteKept DEF Reads
  <2>2. ASSUME NEW i, Idle, Write("clear", "delete", i, "busy") PROVE PageInv'
    BY <1>1, <1>2, <1>3, <2>2, WriteKept DEF Reads
  <2>. QED
    BY <1>6, <2>1, <2>2 DEF PendingSubmit, Answered
<1>7. CASE PendingDone
  <2>1. ASSUME NEW c \in calls, c.op \in {"compact", "clear"},
               WroteThenLoads(c, CloseDialog(view))
        PROVE PageInv'
    <3>1. SameFlags(page, view, CloseDialog(view))
      BY <1>1, PageIs DEF SameFlags, CloseDialog
    <3>. QED
      BY <1>1, <1>2, <2>1, <3>1, PageIs, WroteKept DEF LoadOps
  <2>. QED
    BY <1>7, <2>1 DEF PendingDone, Answered
<1>. QED
  BY <1>4, <1>5, <1>6, <1>7 DEF PendingNext

LEMMA ContactsKept ==
  ASSUME PageInv, page = "contacts", ContactsNext
  PROVE  PageInv'
<1>1. page \notin NumberedPages /\ page \in OneAtATime /\ page \notin Detailed /\ page # "overview"
  BY DEF NumberedPages, OneAtATime, Detailed
<1>2. \A op, tail : TailOK(page, op, tail)
  BY DEF TailOK, Untagged
<1>3. Idle => \A d \in calls : ~Marked(d)
  BY <1>1, IdleIsFree
<1>4. CASE ListArrives \/ RefreshWhen(~view.loading /\ Idle)
  BY <1>1, <1>2, <1>4, ListArrivesKept, RefreshKept
<1>5. CASE ContactsSelect
  <2>1. ASSUME NEW i, Local([view EXCEPT !.chosen = IF i \in @ THEN @ \ {i} ELSE @ \cup {i}]) PROVE PageInv'
    <3>1. SameFlags(page, view, [view EXCEPT !.chosen = IF i \in @ THEN @ \ {i} ELSE @ \cup {i}])
      BY <1>1, PageIs DEF SameFlags
    <3>. QED
      BY <2>1, <3>1, LocalKept
  <2>2. ASSUME NEW i, Local([view EXCEPT !.detail = i]) PROVE PageInv'
    <3>1. SameFlags(page, view, [view EXCEPT !.detail = i])
      BY <1>1, PageIs DEF SameFlags
    <3>. QED
      BY <2>2, <3>1, LocalKept
  <2>. QED
    BY <1>5, <2>1, <2>2 DEF ContactsSelect, Answered
<1>6. CASE ContactsOpenMerge
  <2>1. ASSUME NEW t,
               Local([view EXCEPT !.kind = "merge", !.target = t, !.source = CHOOSE s \in view.chosen : s # t])
        PROVE PageInv'
    <3>1. SameFlags(page, view, [view EXCEPT !.kind = "merge", !.target = t, !.source = CHOOSE s \in view.chosen : s # t])
      BY <1>1, PageIs DEF SameFlags
    <3>. QED
      BY <2>1, <3>1, LocalKept
  <2>. QED
    BY <1>6, <2>1 DEF ContactsOpenMerge, Answered
<1>7. CASE ContactsOpenUndo
  <2>1. ASSUME Local([view EXCEPT !.kind = "undo", !.target = view.detail, !.source = NoRow]) PROVE PageInv'
    <3>1. SameFlags(page, view, [view EXCEPT !.kind = "undo", !.target = view.detail, !.source = NoRow])
      BY <1>1, PageIs DEF SameFlags
    <3>. QED
      BY <2>1, <3>1, LocalKept
  <2>. QED
    BY <1>7, <2>1 DEF ContactsOpenUndo, Answered
<1>8. CASE ContactsDialog
  <2>1. ASSUME Local([view EXCEPT !.kind = "none", !.target = NoRow, !.source = NoRow]) PROVE PageInv'
    <3>1. SameFlags(page, view, [view EXCEPT !.kind = "none", !.target = NoRow, !.source = NoRow])
      BY <1>1, PageIs DEF SameFlags
    <3>. QED
      BY <2>1, <3>1, LocalKept
  <2>2. ASSUME Local([view EXCEPT !.target = view.source, !.source = view.target]) PROVE PageInv'
    <3>1. SameFlags(page, view, [view EXCEPT !.target = view.source, !.source = view.target])
      BY <1>1, PageIs DEF SameFlags
    <3>. QED
      BY <2>2, <3>1, LocalKept
  <2>. QED
    BY <1>8, <2>1, <2>2 DEF ContactsDialog, Answered
<1>9. CASE ContactsSubmit
  <2>1. ASSUME NEW i, Idle, Write("undo", "undo", i, "busy") PROVE PageInv'
    BY <1>1, <1>2, <1>3, <2>1, WriteKept DEF Reads
  <2>2. ASSUME Idle, Ask([Call("merge", "merge", view.target) EXCEPT !.cap = view.source, !.tail = "busy"],
                           Flag(view, "busy", "merge", view.target))
        PROVE PageInv'
    <3>1. PICK c : c = [Call("merge", "merge", view.target) EXCEPT !.cap = view.source, !.tail = "busy"]
      OBVIOUS
    <3>2. DOMAIN c = CallFields /\ c.tail = "busy"
      BY <3>1 DEF Call, Request, CallFields
    <3>3. Sent(page, c)
      BY <1>2, <3>2 DEF Sent, Marked, CallFields
    <3>. QED
      BY <1>1, <1>3, <2>2, <3>1, <3>2, <3>3, FlagKept
  <2>. QED
    BY <1>9, <2>1, <2>2 DEF ContactsSubmit, Answered
<1>10. CASE ContactsDone
  <2>1. ASSUME NEW c \in calls, c.op \in {"merge", "undo"},
               WroteThenLoads(c, [view EXCEPT !.kind = "none", !.target = NoRow, !.source = NoRow, !.chosen = {}, !.detail = c.arg])
        PROVE PageInv'
    <3>1. SameFlags(page, view, [view EXCEPT !.kind = "none", !.target = NoRow, !.source = NoRow, !.chosen = {}, !.detail = c.arg])
      BY <1>1, PageIs DEF SameFlags
    <3>. QED
      BY <1>1, <1>2, <2>1, <3>1, PageIs, WroteKept DEF LoadOps
  <2>. QED
    BY <1>10, <2>1 DEF ContactsDone, Answered
<1>. QED
  BY <1>4, <1>5, <1>6, <1>7, <1>8, <1>9, <1>10 DEF ContactsNext

LEMMA TeamsKept ==
  ASSUME PageInv, page = "teams", TeamsNext
  PROVE  PageInv'
<1>1. page \notin NumberedPages /\ page \notin OneAtATime /\ page \notin Detailed /\ page # "overview"
  BY DEF NumberedPages, OneAtATime, Detailed
<1>2. \A op, tail : TailOK(page, op, tail) <=> tail = IF op \in {"members", "evolution"} THEN "detail" ELSE "none"
  BY DEF TailOK, Untagged
<1>3. CASE ListArrives
  BY <1>1, <1>2, <1>3, ListArrivesKept
<1>4. CASE TeamsDetail
  <2>1. ASSUME NEW c \in calls, c.op = "members", Answer(c, Ends(view, "detail")) PROVE PageInv'
    BY <1>1, <1>2, <2>1, PageIs, EndKept DEF LoadOps
  <2>2. ASSUME NEW c \in calls, c.op = "members",
               Answer(c, Ends([view EXCEPT !.det = c.arg], "detail"))
        PROVE PageInv'
    <3>1. SameFlags(page, view, [view EXCEPT !.det = c.arg])
      BY <1>1, PageIs DEF SameFlags
    <3>. QED
      BY <1>1, <1>2, <2>2, <3>1, PageIs, EndKept DEF LoadOps, SameFlags
  <2>3. ASSUME NEW c \in calls, c.op = "members",
               AnswerThen(c, [view EXCEPT !.det = c.arg], [Call("evolution", "run", c.arg) EXCEPT !.tail = "detail"])
        PROVE PageInv'
    <3>1. SameFlags(page, view, [view EXCEPT !.det = c.arg])
      BY <1>1, PageIs DEF SameFlags
    <3>2. PICK d : d = [Call("evolution", "run", c.arg) EXCEPT !.tail = "detail"]
      OBVIOUS
    <3>3. DOMAIN d = CallFields /\ d.tail = c.tail /\ TailOK(page, d.op, d.tail) /\ (c.op \notin LoadOps \/ d.op \in LoadOps)
      BY <1>2, <2>3, <3>2, PageIs DEF Call, Request, CallFields, LoadOps
    <3>4. Sent(page, d)
      BY <1>1, <3>3 DEF Sent, CallFields
    <3>. QED
      BY <1>1, <2>3, <3>1, <3>2, <3>3, <3>4, ThenKept
  <2>4. ASSUME NEW c \in calls, c.op = "evolution", Answer(c, Ends(view, "detail")) PROVE PageInv'
    BY <1>1, <1>2, <2>4, PageIs, EndKept DEF LoadOps
  <2>. QED
    BY <1>4, <2>1, <2>2, <2>3, <2>4 DEF TeamsDetail, Answered
<1>5. CASE TeamsSelect
  <2>1. ASSUME NEW i, Ask(DetailCall(i), DetailLoading([view EXCEPT !.sel = i], i)) PROVE PageInv'
    <3>1. SameFlags(page, view, [view EXCEPT !.sel = i])
      BY <1>1, PageIs DEF SameFlags
    <3>2. PICK d : d = DetailCall(i)
      OBVIOUS
    <3>3. DOMAIN d = CallFields /\ d.tail = "detail" /\ TailOK(page, d.op, "detail")
      BY <1>2, <3>2 DEF DetailCall, Call, Request, CallFields
    <3>4. Sent(page, d)
      BY <1>1, <3>3 DEF Sent, CallFields
    <3>. QED
      BY <1>1, <2>1, <3>1, <3>2, <3>3, <3>4, FlagKept DEF SameFlags, DetailLoading
  <2>2. ASSUME Local([view EXCEPT !.sel = NoRow, !.det = NoRow, !.open = TRUE]) PROVE PageInv'
    <3>1. SameFlags(page, view, [view EXCEPT !.sel = NoRow, !.det = NoRow, !.open = TRUE])
      BY <1>1, PageIs DEF SameFlags
    <3>. QED
      BY <2>2, <3>1, LocalKept
  <2>3. ASSUME Local([view EXCEPT !.open = FALSE]) PROVE PageInv'
    <3>1. SameFlags(page, view, [view EXCEPT !.open = FALSE])
      BY <1>1, PageIs DEF SameFlags
    <3>. QED
      BY <2>3, <3>1, LocalKept
  <2>. QED
    BY <1>5, <2>1, <2>2, <2>3 DEF TeamsSelect, Answered
<1>6. CASE TeamsCreate
  <2>1. ASSUME NEW i, Ask(Call("create", "create", i), view) PROVE PageInv'
    BY <1>1, <1>2, <2>1, PlainAskKept DEF SameFlags
  <2>2. ASSUME NEW c \in calls, c.op = "create",
               AnswerThen(c, Loading([view EXCEPT !.open = FALSE]), [List("none") EXCEPT !.op = "listThenSelect", !.cap = c.got])
        PROVE PageInv'
    <3>1. SameFlags(page, view, [view EXCEPT !.open = FALSE])
      BY <1>1, PageIs DEF SameFlags
    <3>2. PICK d : d = [List("none") EXCEPT !.op = "listThenSelect", !.cap = c.got]
      OBVIOUS
    <3>3. d.tail = c.tail /\ d.op \in LoadOps /\ d.do \in Reads /\ DOMAIN d = CallFields /\ TailOK(page, d.op, d.tail)
      BY <1>2, <2>2, <3>2, PageIs DEF List, Call, Request, CallFields, LoadOps, Reads
    <3>4. Sent(page, d)
      BY <3>3 DEF Sent, CallFields
    <3>. QED
      BY <1>1, <2>2, <3>1, <3>2, <3>3, <3>4, ThenLoadKept
  <2>3. ASSUME NEW c \in calls, c.op = "create", Answer(c, view) PROVE PageInv'
    BY <1>1, <1>2, <2>3, PageIs, PlainKept DEF LoadOps
  <2>4. ASSUME NEW c \in calls, c.op = "listThenSelect", Answer(c, [Loaded(view, c) EXCEPT !.sel = c.cap])
        PROVE PageInv'
    <3>1. PICK v : v = Loaded(view, c)
      OBVIOUS
    <3>2. DOMAIN v = DOMAIN view /\ v.busy = view.busy /\ v.loading = FALSE
      BY <3>1, LoadedIs
    <3>. QED
      BY <1>1, <1>2, <2>4, <3>1, <3>2, PageIs, PlainKept
  <2>5. ASSUME NEW c \in calls, c.op = "listThenSelect",
               AnswerThen(c, DetailLoading([Loaded(view, c) EXCEPT !.sel = c.cap], c.cap), DetailCall(c.cap))
        PROVE PageInv'
    <3>1. PICK v, d : v = [Loaded(view, c) EXCEPT !.sel = c.cap] /\ d = DetailCall(c.cap)
      OBVIOUS
    <3>2. DOMAIN v = DOMAIN view /\ v.busy = view.busy /\ (v.loading = FALSE \/ (v.loading = view.loading /\ c.op \notin LoadOps))
      BY <2>5, <3>1, PageIs, LoadedIs DEF LoadOps
    <3>3. DOMAIN d = CallFields /\ d.tail = "detail" /\ TailOK(page, d.op, d.tail)
      BY <1>2, <2>5, <3>1, PageIs DEF DetailCall, Call, Request, CallFields
    <3>4. Sent(page, d) /\ (\A t : Holds(page, c, t) => Holds(page, d, t)) /\ Holds(page, d, "detail")
      BY <1>1, <1>2, <2>5, <3>3, PageIs DEF Sent, Holds, CallFields
    <3>. QED
      BY <1>1, <2>5, <3>1, <3>2, <3>4, ThenFlagKept DEF DetailLoading
  <2>. QED
    BY <1>6, <2>1, <2>2, <2>3, <2>4, <2>5 DEF TeamsCreate, Answered
<1>7. CASE TeamsSave
  <2>1. ASSUME NEW i, Ask(Call("save", "put", i), view) PROVE PageInv'
    BY <1>1, <1>2, <2>1, PlainAskKept DEF SameFlags
  <2>2. ASSUME NEW c \in calls, c.op = "save", AnswerThen(c, view, Call("lead", "put", c.arg)) PROVE PageInv'
    <3>1. SameFlags(page, view, view)
      BY DEF SameFlags
    <3>2. PICK d : d = Call("lead", "put", c.arg)
      OBVIOUS
    <3>3. DOMAIN d = CallFields /\ d.tail = c.tail /\ TailOK(page, d.op, d.tail) /\ (c.op \notin LoadOps \/ d.op \in LoadOps)
      BY <1>2, <2>2, <3>2, PageIs DEF Call, Request, CallFields, LoadOps
    <3>4. Sent(page, d)
      BY <1>1, <3>3 DEF Sent, CallFields
    <3>. QED
      BY <1>1, <2>2, <3>1, <3>2, <3>3, <3>4, ThenKept
  <2>3. ASSUME NEW c \in calls, c.op = "save", Answer(c, view) PROVE PageInv'
    BY <1>1, <1>2, <2>3, PageIs, PlainKept DEF LoadOps
  <2>4. ASSUME NEW i, Ask(Call("lead", "put", i), view) PROVE PageInv'
    BY <1>1, <1>2, <2>4, PlainAskKept DEF SameFlags
  <2>5. ASSUME NEW c \in calls, c.op = "lead",
               AnswerThen(c, Loading(view), [List("none") EXCEPT !.op = "listThenDetail", !.cap = c.arg])
        PROVE PageInv'
    <3>1. SameFlags(page, view, view)
      BY DEF SameFlags
    <3>2. PICK d : d = [List("none") EXCEPT !.op = "listThenDetail", !.cap = c.arg]
      OBVIOUS
    <3>3. d.tail = c.tail /\ d.op \in LoadOps /\ d.do \in Reads /\ DOMAIN d = CallFields /\ TailOK(page, d.op, d.tail)
      BY <1>2, <2>5, <3>2, PageIs DEF List, Call, Request, CallFields, LoadOps, Reads
    <3>4. Sent(page, d)
      BY <3>3 DEF Sent, CallFields
    <3>. QED
      BY <1>1, <2>5, <3>1, <3>2, <3>3, <3>4, ThenLoadKept
  <2>6. ASSUME NEW c \in calls, c.op = "lead", Answer(c, view) PROVE PageInv'
    BY <1>1, <1>2, <2>6, PageIs, PlainKept DEF LoadOps
  <2>7. ASSUME NEW c \in calls, c.op = "listThenDetail",
               AnswerThen(c, DetailLoading(Loaded(view, c), c.cap), DetailCall(c.cap))
        PROVE PageInv'
    <3>1. PICK v, d : v = Loaded(view, c) /\ d = DetailCall(c.cap)
      OBVIOUS
    <3>2. DOMAIN v = DOMAIN view /\ v.busy = view.busy /\ (v.loading = FALSE \/ (v.loading = view.loading /\ c.op \notin LoadOps))
      BY <2>7, <3>1, PageIs, LoadedIs DEF LoadOps
    <3>3. DOMAIN d = CallFields /\ d.tail = "detail" /\ TailOK(page, d.op, d.tail)
      BY <1>2, <2>7, <3>1, PageIs DEF DetailCall, Call, Request, CallFields
    <3>4. Sent(page, d) /\ (\A t : Holds(page, c, t) => Holds(page, d, t)) /\ Holds(page, d, "detail")
      BY <1>1, <1>2, <2>7, <3>3, PageIs DEF Sent, Holds, CallFields
    <3>. QED
      BY <1>1, <2>7, <3>1, <3>2, <3>4, ThenFlagKept DEF DetailLoading
  <2>. QED
    BY <1>7, <2>1, <2>2, <2>3, <2>4, <2>5, <2>6, <2>7 DEF TeamsSave, Answered
<1>8. CASE TeamsChange
  <2>1. ASSUME NEW i, Ask(Call("change", "put", i), view) PROVE PageInv'
    BY <1>1, <1>2, <2>1, PlainAskKept DEF SameFlags
  <2>2. ASSUME NEW c \in calls, c.op = "change",
               AnswerThen(c, DetailLoading(view, c.arg), DetailCall(c.arg))
        PROVE PageInv'
    <3>1. PICK v, d : v = view /\ d = DetailCall(c.arg)
      OBVIOUS
    <3>2. DOMAIN v = DOMAIN view /\ v.busy = view.busy /\ (v.loading = FALSE \/ (v.loading = view.loading /\ c.op \notin LoadOps))
      BY <2>2, <3>1, PageIs, LoadedIs DEF LoadOps
    <3>3. DOMAIN d = CallFields /\ d.tail = "detail" /\ TailOK(page, d.op, d.tail)
      BY <1>2, <2>2, <3>1, PageIs DEF DetailCall, Call, Request, CallFields
    <3>4. Sent(page, d) /\ (\A t : Holds(page, c, t) => Holds(page, d, t)) /\ Holds(page, d, "detail")
      BY <1>1, <1>2, <2>2, <3>3, PageIs DEF Sent, Holds, CallFields
    <3>. QED
      BY <1>1, <2>2, <3>1, <3>2, <3>4, ThenFlagKept DEF DetailLoading
  <2>3. ASSUME NEW c \in calls, c.op = "change", Answer(c, view) PROVE PageInv'
    BY <1>1, <1>2, <2>3, PageIs, PlainKept DEF LoadOps
  <2>. QED
    BY <1>8, <2>1, <2>2, <2>3 DEF TeamsChange, Answered
<1>9. CASE TeamsDelete
  <2>1. ASSUME NEW i, Ask(Call("delete", "delete", i), view) PROVE PageInv'
    BY <1>1, <1>2, <2>1, PlainAskKept DEF SameFlags
  <2>2. ASSUME NEW c \in calls, c.op = "delete",
               AnswerThen(c, Loading([view EXCEPT !.sel = NoRow, !.det = NoRow]), List("none"))
        PROVE PageInv'
    <3>1. SameFlags(page, view, [view EXCEPT !.sel = NoRow, !.det = NoRow])
      BY <1>1, PageIs DEF SameFlags
    <3>2. PICK d : d = List("none")
      OBVIOUS
    <3>3. d.tail = c.tail /\ d.op \in LoadOps /\ d.do \in Reads /\ DOMAIN d = CallFields /\ TailOK(page, d.op, d.tail)
      BY <1>2, <2>2, <3>2, PageIs DEF List, Call, Request, CallFields, LoadOps, Reads
    <3>4. Sent(page, d)
      BY <3>3 DEF Sent, CallFields
    <3>. QED
      BY <1>1, <2>2, <3>1, <3>2, <3>3, <3>4, ThenLoadKept
  <2>3. ASSUME NEW c \in calls, c.op = "delete", Answer(c, view) PROVE PageInv'
    BY <1>1, <1>2, <2>3, PageIs, PlainKept DEF LoadOps
  <2>. QED
    BY <1>9, <2>1, <2>2, <2>3 DEF TeamsDelete, Answered
<1>10. CASE TeamsRefresh
  <2>1. ASSUME Ask(List("none"), Loading(view)) PROVE PageInv'
    BY <1>1, <1>2, <2>1, PlainListIs, LoadKept DEF SameFlags
  <2>2. ASSUME Ask(DetailCall(view.sel), DetailLoading(view, view.sel)) PROVE PageInv'
    <3>1. SameFlags(page, view, view)
      BY DEF SameFlags
    <3>2. PICK d : d = DetailCall(view.sel)
      OBVIOUS
    <3>3. DOMAIN d = CallFields /\ d.tail = "detail" /\ TailOK(page, d.op, "detail")
      BY <1>2, <3>2 DEF DetailCall, Call, Request, CallFields
    <3>4. Sent(page, d)
      BY <1>1, <3>3 DEF Sent, CallFields
    <3>. QED
      BY <1>1, <2>2, <3>1, <3>2, <3>3, <3>4, FlagKept DEF SameFlags, DetailLoading
  <2>. QED
    BY <1>10, <2>1, <2>2 DEF TeamsRefresh
<1>. QED
  BY <1>3, <1>4, <1>5, <1>6, <1>7, <1>8, <1>9, <1>10 DEF TeamsNext

----------------------------------------------------------------------------
(* The pages of PagesWatch. *)

LEMMA ApprovalsKept ==
  ASSUME PageInv, page = "approvals", ApprovalsNext
  PROVE  PageInv'
<1>1. page \notin NumberedPages /\ page \in OneAtATime /\ page \notin Detailed /\ page # "overview"
  BY DEF NumberedPages, OneAtATime, Detailed
<1>2. \A op, tail : TailOK(page, op, tail) <=> 
        /\ tail \in {"none", "busy"}
        /\ op \notin {"list", "quiet"} => tail = "busy"
  BY DEF TailOK, Untagged
<1>3. Idle => \A d \in calls : ~Marked(d)
  BY <1>1, IdleIsFree
<1>4. CASE ListArrives \/ RefreshWhen(~view.loading /\ Idle)
  BY <1>1, <1>2, <1>4, ListArrivesKept, RefreshKept
<1>5. CASE ApprovalsPoll
  <2>1. ASSUME Ask(QuietList("none"), view) PROVE PageInv'
    <3>1. SameFlags(page, view, view)
      BY DEF SameFlags
    <3>2. PICK d : d = QuietList("none")
      OBVIOUS
    <3>3. DOMAIN d = CallFields /\ d.tail = "none" /\ d.do \in Reads /\ TailOK(page, d.op, "none")
      BY <1>2, <3>2 DEF QuietList, List, Call, Request, CallFields, Reads
    <3>4. Sent(page, d) /\ ~Marked(d)
      BY <1>1, <3>3 DEF Sent, Marked, CallFields
    <3>. QED
      BY <1>1, <2>1, <3>1, <3>2, <3>4, ReadKept
  <2>. QED
    BY <1>5, <2>1 DEF ApprovalsPoll
<1>6. CASE ApprovalsQuiet
  <2>1. ASSUME NEW c \in calls, c.op = "quiet", Answer(c, Ends(Heard(view, c), c.tail)) PROVE PageInv'
    BY <1>1, <1>2, <2>1, LoadedIs, EndKept DEF LoadOps
  <2>. QED
    BY <1>6, <2>1 DEF ApprovalsQuiet, Answered
<1>7. CASE ApprovalsOpen
  <2>1. ASSUME NEW i, Local([view EXCEPT !.open = IF @ = i THEN NoRow ELSE i]) PROVE PageInv'
    <3>1. SameFlags(page, view, [view EXCEPT !.open = IF @ = i THEN NoRow ELSE i])
      BY <1>1, PageIs DEF SameFlags
    <3>. QED
      BY <2>1, <3>1, LocalKept
  <2>. QED
    BY <1>7, <2>1, DialogKept DEF ApprovalsOpen
<1>8. CASE ApprovalsSubmit
  <2>1. ASSUME NEW i, Idle, Write(view.kind, "close", i, "busy") PROVE PageInv'
    BY <1>1, <1>2, <1>3, <2>1, WriteKept DEF Reads
  <2>. QED
    BY <1>8, <2>1 DEF ApprovalsSubmit
<1>9. CASE ApprovalsDone
  <2>1. ASSUME NEW c \in calls, c.op \in {"approve", "deny"},
               AnswerThen(c, CloseDialog(view), QuietList("busy"))
        PROVE PageInv'
    <3>1. SameFlags(page, view, CloseDialog(view))
      BY <1>1, PageIs DEF SameFlags, CloseDialog
    <3>2. PICK d : d = QuietList("busy")
      OBVIOUS
    <3>3. DOMAIN d = CallFields /\ d.tail = c.tail /\ TailOK(page, d.op, d.tail) /\ d.do \in Reads /\ (c.op \notin LoadOps \/ d.op \in LoadOps)
      BY <1>2, <2>1, <3>2, PageIs DEF QuietList, List, Call, Request, CallFields, LoadOps, Reads
    <3>4. Sent(page, d)
      BY <1>1, <3>3 DEF Sent, CallFields
    <3>. QED
      BY <1>1, <2>1, <3>1, <3>2, <3>3, <3>4, ThenKept
  <2>2. ASSUME NEW c \in calls, c.op \in {"approve", "deny"}, Answer(c, Ends(view, "busy")) PROVE PageInv'
    BY <1>1, <1>2, <2>2, PageIs, EndKept DEF LoadOps
  <2>. QED
    BY <1>9, <2>1, <2>2 DEF ApprovalsDone, Answered
<1>10. CASE CancelDialog
  BY <1>1, <1>2, <1>10, DialogKept
<1>. QED
  BY <1>4, <1>5, <1>6, <1>7, <1>8, <1>9, <1>10 DEF ApprovalsNext

LEMMA NodesKept ==
  ASSUME PageInv, page = "nodes", NodesNext
  PROVE  PageInv'
<1>1. page \notin NumberedPages /\ page \in OneAtATime /\ page \notin Detailed /\ page # "overview"
  BY DEF NumberedPages, OneAtATime, Detailed
<1>2. \A op, tail : TailOK(page, op, tail)
  BY DEF TailOK, Untagged
<1>3. Idle => \A d \in calls : ~Marked(d)
  BY <1>1, IdleIsFree
<1>4. CASE ListArrives \/ RefreshWhen(~view.loading /\ Idle)
  BY <1>1, <1>2, <1>4, ListArrivesKept, RefreshKept
<1>5. CASE NodesOpen \/ CancelDialog
  BY <1>1, <1>2, <1>5, DialogKept DEF NodesOpen
<1>6. CASE NodesSubmit
  <2>1. ASSUME NEW op, NEW do, NEW i, Idle, Write(op, do, i, "busy") PROVE PageInv'
    BY <1>1, <1>2, <1>3, <2>1, WriteKept
  <2>. QED
    BY <1>6, <2>1 DEF NodesSubmit, Answered
<1>7. CASE NodesDone
  <2>1. ASSUME NEW c \in calls, c.op \in {"approve", "deny", "revoke"},
               WroteThenLoads(c, CloseDialog(view))
        PROVE PageInv'
    <3>1. SameFlags(page, view, CloseDialog(view))
      BY <1>1, PageIs DEF SameFlags, CloseDialog
    <3>. QED
      BY <1>1, <1>2, <2>1, <3>1, PageIs, WroteKept DEF LoadOps
  <2>. QED
    BY <1>7, <2>1 DEF NodesDone, Answered
<1>. QED
  BY <1>4, <1>5, <1>6, <1>7 DEF NodesNext

LEMMA ActivityKept ==
  ASSUME PageInv, page = "activity", ActivityNext
  PROVE  PageInv'
<1>1. page \notin NumberedPages /\ page \notin OneAtATime /\ page \notin Detailed /\ page # "overview"
  BY DEF NumberedPages, OneAtATime, Detailed
<1>2. \A op, tail : TailOK(page, op, tail) <=> tail = "none"
  BY DEF TailOK, Untagged
<1>3. CASE ActivityLoaded
  <2>1. ASSUME NEW c \in calls, NEW more, c.op = "list",
               Answer(c, IF Ok(c) THEN [Loaded(view, c) EXCEPT !.more = more] ELSE Loaded(view, c))
        PROVE PageInv'
    <3>1. PICK v, u : v = Loaded(view, c) /\ u = IF Ok(c) THEN [v EXCEPT !.more = more] ELSE v
      OBVIOUS
    <3>2. DOMAIN v = DOMAIN view /\ v.busy = view.busy /\ v.loading = FALSE
      BY <3>1, LoadedIs
    <3>3. DOMAIN u = DOMAIN view /\ u.busy = view.busy /\ u.loading = FALSE
      BY <3>1, <3>2, PageIs
    <3>. QED
      BY <1>1, <1>2, <2>1, <3>1, <3>3, PageIs, PlainKept
  <2>. QED
    BY <1>3, <2>1 DEF ActivityLoaded, Answered
<1>4. CASE ActivityFilter
  <2>1. ASSUME NEW f,
               Ask(ListOf(f), Loading([view EXCEPT !.filter = f, !.at = 0, !.open = NoRow]))
        PROVE PageInv'
    <3>1. SameFlags(page, view, [view EXCEPT !.filter = f, !.at = 0, !.open = NoRow])
      BY <1>1, PageIs DEF SameFlags
    <3>2. PICK d : d = ListOf(f)
      OBVIOUS
    <3>3. DOMAIN d = CallFields /\ d.tail = "none" /\ d.op \in LoadOps /\ d.do \in Reads /\ TailOK(page, d.op, "none")
      BY <1>2, <3>2 DEF ListOf, List, Call, Request, CallFields, LoadOps, Reads
    <3>4. Sent(page, d) /\ ~Marked(d)
      BY <3>3 DEF Sent, Marked, CallFields
    <3>. QED
      BY <1>1, <2>1, <3>1, <3>2, <3>3, <3>4, LoadKept
  <2>. QED
    BY <1>4, <2>1 DEF ActivityFilter
<1>5. CASE ActivityPageTurn
  <2>1. ASSUME Ask(ListOf(view.filter), Loading([view EXCEPT !.at = @ + 1])) PROVE PageInv'
    <3>1. SameFlags(page, view, [view EXCEPT !.at = @ + 1])
      BY <1>1, PageIs DEF SameFlags
    <3>2. PICK d : d = ListOf(view.filter)
      OBVIOUS
    <3>3. DOMAIN d = CallFields /\ d.tail = "none" /\ d.op \in LoadOps /\ d.do \in Reads /\ TailOK(page, d.op, "none")
      BY <1>2, <3>2 DEF ListOf, List, Call, Request, CallFields, LoadOps, Reads
    <3>4. Sent(page, d) /\ ~Marked(d)
      BY <3>3 DEF Sent, Marked, CallFields
    <3>. QED
      BY <1>1, <2>1, <3>1, <3>2, <3>3, <3>4, LoadKept
  <2>2. ASSUME Ask(ListOf(view.filter), Loading([view EXCEPT !.at = @ - 1])) PROVE PageInv'
    <3>1. SameFlags(page, view, [view EXCEPT !.at = @ - 1])
      BY <1>1, PageIs DEF SameFlags
    <3>2. PICK d : d = ListOf(view.filter)
      OBVIOUS
    <3>3. DOMAIN d = CallFields /\ d.tail = "none" /\ d.op \in LoadOps /\ d.do \in Reads /\ TailOK(page, d.op, "none")
      BY <1>2, <3>2 DEF ListOf, List, Call, Request, CallFields, LoadOps, Reads
    <3>4. Sent(page, d) /\ ~Marked(d)
      BY <3>3 DEF Sent, Marked, CallFields
    <3>. QED
      BY <1>1, <2>2, <3>1, <3>2, <3>3, <3>4, LoadKept
  <2>. QED
    BY <1>5, <2>1, <2>2 DEF ActivityPageTurn
<1>6. CASE ActivityOpen
  <2>1. ASSUME NEW i, Local([view EXCEPT !.open = IF @ = i THEN NoRow ELSE i]) PROVE PageInv'
    <3>1. SameFlags(page, view, [view EXCEPT !.open = IF @ = i THEN NoRow ELSE i])
      BY <1>1, PageIs DEF SameFlags
    <3>. QED
      BY <2>1, <3>1, LocalKept
  <2>. QED
    BY <1>6, <2>1 DEF ActivityOpen
<1>7. CASE Ask(ListOf(view.filter), Loading(view))
  <2>1. ASSUME Ask(ListOf(view.filter), Loading(view)) PROVE PageInv'
    <3>1. SameFlags(page, view, view)
      BY DEF SameFlags
    <3>2. PICK d : d = ListOf(view.filter)
      OBVIOUS
    <3>3. DOMAIN d = CallFields /\ d.tail = "none" /\ d.op \in LoadOps /\ d.do \in Reads /\ TailOK(page, d.op, "none")
      BY <1>2, <3>2 DEF ListOf, List, Call, Request, CallFields, LoadOps, Reads
    <3>4. Sent(page, d) /\ ~Marked(d)
      BY <3>3 DEF Sent, Marked, CallFields
    <3>. QED
      BY <1>1, <2>1, <3>1, <3>2, <3>3, <3>4, LoadKept
  <2>. QED
    BY <1>7, <2>1 DEF LoadOps
<1>. QED
  BY <1>3, <1>4, <1>5, <1>6, <1>7 DEF ActivityNext

LEMMA TracesKept ==
  ASSUME PageInv, page = "traces", TracesNext
  PROVE  PageInv'
<1>1. page \notin NumberedPages /\ page \notin OneAtATime /\ page \notin Detailed /\ page # "overview"
  BY DEF NumberedPages, OneAtATime, Detailed
<1>2. \A op, tail : TailOK(page, op, tail) <=> tail = IF op = "detail" THEN "detail" ELSE "none"
  BY DEF TailOK, Untagged
<1>3. CASE TracesLoaded
  <2>1. ASSUME NEW c \in calls, NEW more, c.op = "list",
               Answer(c, IF Ok(c) THEN [Loaded(view, c) EXCEPT !.more = more, !.at = c.gen] ELSE Loaded(view, c))
        PROVE PageInv'
    <3>1. PICK v, u : v = Loaded(view, c) /\ u = IF Ok(c) THEN [v EXCEPT !.more = more, !.at = c.gen] ELSE v
      OBVIOUS
    <3>2. DOMAIN v = DOMAIN view /\ v.busy = view.busy /\ v.loading = FALSE
      BY <3>1, LoadedIs
    <3>3. DOMAIN u = DOMAIN view /\ u.busy = view.busy /\ u.loading = FALSE
      BY <3>1, <3>2, PageIs
    <3>. QED
      BY <1>1, <1>2, <2>1, <3>1, <3>3, PageIs, PlainKept
  <2>. QED
    BY <1>3, <2>1 DEF TracesLoaded, Answered
<1>4. CASE TracesFilter
  <2>1. ASSUME NEW f, Ask(ListOf(f), Loading([view EXCEPT !.filter = f])) PROVE PageInv'
    <3>1. SameFlags(page, view, [view EXCEPT !.filter = f])
      BY <1>1, PageIs DEF SameFlags
    <3>2. PICK d : d = ListOf(f)
      OBVIOUS
    <3>3. DOMAIN d = CallFields /\ d.tail = "none" /\ d.op \in LoadOps /\ d.do \in Reads /\ TailOK(page, d.op, "none")
      BY <1>2, <3>2 DEF ListOf, List, Call, Request, CallFields, LoadOps, Reads
    <3>4. Sent(page, d) /\ ~Marked(d)
      BY <3>3 DEF Sent, Marked, CallFields
    <3>. QED
      BY <1>1, <2>1, <3>1, <3>2, <3>3, <3>4, LoadKept
  <2>. QED
    BY <1>4, <2>1 DEF TracesFilter
<1>5. CASE TracesPageTurn
  <2>1. ASSUME NEW n, Ask([ListOf(view.filter) EXCEPT !.gen = n], Loading(view)) PROVE PageInv'
    <3>1. SameFlags(page, view, view)
      BY DEF SameFlags
    <3>2. PICK d : d = [ListOf(view.filter) EXCEPT !.gen = n]
      OBVIOUS
    <3>3. DOMAIN d = CallFields /\ d.tail = "none" /\ d.op \in LoadOps /\ d.do \in Reads /\ TailOK(page, d.op, "none")
      BY <1>2, <3>2 DEF ListOf, List, Call, Request, CallFields, LoadOps, Reads
    <3>4. Sent(page, d) /\ ~Marked(d)
      BY <3>3 DEF Sent, Marked, CallFields
    <3>. QED
      BY <1>1, <2>1, <3>1, <3>2, <3>3, <3>4, LoadKept
  <2>. QED
    BY <1>5, <2>1 DEF TracesPageTurn
<1>6. CASE TracesOpen
  <2>1. ASSUME NEW i,
               Ask([Call("detail", "get", i) EXCEPT !.tail = "detail"], Flag([view EXCEPT !.sel = i], "detail", "detail", i))
        PROVE PageInv'
    <3>1. SameFlags(page, view, [view EXCEPT !.sel = i])
      BY <1>1, PageIs DEF SameFlags
    <3>2. PICK d : d = [Call("detail", "get", i) EXCEPT !.tail = "detail"]
      OBVIOUS
    <3>3. DOMAIN d = CallFields /\ d.tail = "detail" /\ TailOK(page, d.op, "detail")
      BY <1>2, <3>2 DEF Call, Request, CallFields
    <3>4. Sent(page, d)
      BY <1>1, <3>3 DEF Sent, CallFields
    <3>. QED
      BY <1>1, <2>1, <3>1, <3>2, <3>3, <3>4, FlagKept DEF SameFlags
  <2>. QED
    BY <1>6, <2>1 DEF TracesOpen
<1>7. CASE TracesDetail
  <2>1. ASSUME NEW c \in calls, c.op = "detail",
               Answer(c, Ends([view EXCEPT !.det = IF Ok(c) THEN c.got ELSE NoRow], "detail"))
        PROVE PageInv'
    <3>1. PICK v : v = [view EXCEPT !.det = IF Ok(c) THEN c.got ELSE NoRow]
      OBVIOUS
    <3>2. DOMAIN v = DOMAIN view /\ v.busy = view.busy /\ v.loading = view.loading
      BY <3>1, PageIs
    <3>3. c.tail = "detail"
      BY <1>2, <2>1, PageIs
    <3>. QED
      BY <1>1, <2>1, <3>1, <3>2, <3>3, EndKept DEF LoadOps
  <2>. QED
    BY <1>7, <2>1 DEF TracesDetail, Answered
<1>8. CASE TracesUnhash
  <2>1. ASSUME Local([view EXCEPT !.sel = NoRow]) PROVE PageInv'
    <3>1. SameFlags(page, view, [view EXCEPT !.sel = NoRow])
      BY <1>1, PageIs DEF SameFlags
    <3>. QED
      BY <2>1, <3>1, LocalKept
  <2>. QED
    BY <1>8, <2>1 DEF TracesUnhash
<1>. QED
  BY <1>3, <1>4, <1>5, <1>6, <1>7, <1>8 DEF TracesNext

LEMMA OverviewKept ==
  ASSUME PageInv, page = "overview", OverviewNext
  PROVE  PageInv'
<1>1. page \in NumberedPages /\ page \notin OneAtATime
  BY DEF NumberedPages, OneAtATime
<1>2. \A op, tail : TailOK(page, op, tail) <=> tail = "none"
  BY DEF TailOK, Untagged
<1>3. view.busy = {} /\ {"loading", "loaded", "err", "rows", "busy", "seq", "shown"} \subseteq DOMAIN view
  BY <1>1 DEF PageInv, Sound, Shape
<1>4. CASE OverviewPull
  <2>1. PICK v, w, d : /\ v \in {Loading(view), view} /\ w = [v EXCEPT !.seq = @ + 1] /\ d = Pull(view.seq + 1)
                       /\ view' = w /\ calls' = {c \in calls : c.st # "sent"} \cup {d} /\ page' = page
    BY <1>4 DEF OverviewPull
  <2>2. DOMAIN v = DOMAIN view /\ v.busy = {} /\ v.seq = view.seq
    BY <1>3, <2>1 DEF Loading
  <2>3. DOMAIN w = DOMAIN view /\ w.busy = {} /\ w.seq = view.seq + 1
    BY <1>3, <2>1, <2>2
  <2>4. DOMAIN d = CallFields /\ d.op \in LoadOps /\ d.tail = "none" /\ d.gen = view.seq + 1
    BY <2>1 DEF Pull, Call, Request, CallFields, LoadOps
  <2>5. Sent(page, d) /\ Carries(page, d, w)
    BY <1>1, <1>2, <2>3, <2>4 DEF Sent, Carries, CallFields
  <2>6. Shape(page, w)
    BY <1>3, <2>3 DEF Shape
  <2>7. Sound(page, calls', w)
    BY <2>1, <2>3, <2>5, <2>6 DEF PageInv, Sound
  <2>. QED
    BY <1>1, <2>1, <2>7 DEF PageInv, OneMarked
<1>5. CASE OverviewPulled
  <2>1. PICK c \in calls :
          Answer(c, IF c.gen # view.seq THEN view
                    ELSE [view EXCEPT !.loading = FALSE, !.shown = c.gen, !.rows = c.rows,
                                      !.snap = CASE Ok(c) -> "connected"
                                                 [] ~Ok(c) /\ @ \in {"connected", "stale"} -> "stale"
                                                 [] OTHER -> "offline"])
    BY <1>5 DEF OverviewPulled, Answered
  <2>2. CASE c.gen # view.seq
    <3>1. Quits(page, c, view, view)
      BY <1>1, <1>3, <2>2 DEF Quits, Shape, StillWaits, Carries
    <3>. QED
      BY <1>3, <2>1, <2>2, <3>1, AnswerKept
  <2>3. CASE c.gen = view.seq
    <3>1. PICK s, w : /\ Answer(c, w)
                      /\ w = [view EXCEPT !.loading = FALSE, !.shown = c.gen, !.rows = c.rows, !.snap = s]
      BY <2>1, <2>3
    <3>2. DOMAIN w = DOMAIN view /\ w.busy = {} /\ w.loading = FALSE /\ w.shown = w.seq
      BY <1>3, <2>3, <3>1
    <3>3. Quits(page, c, view, w)
      BY <1>1, <1>3, <3>2 DEF Quits, Shape, Waits
    <3>. QED
      BY <3>1, <3>2, <3>3, AnswerKept
  <2>. QED
    BY <2>2, <2>3
<1>. QED
  BY <1>4, <1>5 DEF OverviewNext

\* What the two reports share.
LEMMA ReportKept ==
  ASSUME PageInv, page \in {"metrics", "heatmap"}, ReportLoad \/ ReportHealth
  PROVE  PageInv'
<1>1. page \notin NumberedPages /\ page \notin OneAtATime /\ page \notin Detailed /\ page # "overview"
  BY DEF NumberedPages, OneAtATime, Detailed
<1>2. \A op, tail : TailOK(page, op, tail) <=> tail = "none"
  BY DEF TailOK, Untagged
<1>3. CASE ReportLoad
  <2>1. ASSUME Ask(Call("health", "run", NoRow), Loading(view)) PROVE PageInv'
    <3>1. SameFlags(page, view, view)
      BY DEF SameFlags
    <3>2. PICK d : d = Call("health", "run", NoRow)
      OBVIOUS
    <3>3. DOMAIN d = CallFields /\ d.tail = "none" /\ d.op \in LoadOps /\ d.do \in Reads /\ TailOK(page, d.op, "none")
      BY <1>2, <3>2 DEF Call, Request, CallFields, LoadOps, Reads
    <3>4. Sent(page, d) /\ ~Marked(d)
      BY <3>3 DEF Sent, Marked, CallFields
    <3>. QED
      BY <1>1, <2>1, <3>1, <3>2, <3>3, <3>4, LoadKept
  <2>. QED
    BY <1>3, <2>1 DEF ReportLoad
<1>4. CASE ReportHealth
  <2>1. ASSUME NEW c \in calls, c.op = "health",
               AnswerThen(c, [view EXCEPT !.online = "yes"], Call("report", "list", NoRow))
        PROVE PageInv'
    <3>1. SameFlags(page, view, [view EXCEPT !.online = "yes"])
      BY <1>1, PageIs DEF SameFlags
    <3>2. PICK d : d = Call("report", "list", NoRow)
      OBVIOUS
    <3>3. DOMAIN d = CallFields /\ d.tail = c.tail /\ TailOK(page, d.op, d.tail) /\ (c.op \notin LoadOps \/ d.op \in LoadOps)
      BY <1>2, <2>1, <3>2, PageIs DEF Call, Request, CallFields, LoadOps
    <3>4. Sent(page, d)
      BY <1>1, <3>3 DEF Sent, CallFields
    <3>. QED
      BY <1>1, <2>1, <3>1, <3>2, <3>3, <3>4, ThenKept
  <2>2. ASSUME NEW c \in calls, c.op = "health",
               Answer(c, [view EXCEPT !.online = "no", !.report = FALSE, !.advice = FALSE, !.err = "none", !.loading = FALSE])
        PROVE PageInv'
    <3>1. PICK w : w = [view EXCEPT !.online = "no", !.report = FALSE, !.advice = FALSE, !.err = "none", !.loading = FALSE]
      OBVIOUS
    <3>2. DOMAIN w = DOMAIN view /\ w.busy = view.busy /\ w.loading = FALSE
      BY <3>1, PageIs
    <3>. QED
      BY <1>1, <1>2, <2>2, <3>1, <3>2, PageIs, PlainKept
  <2>. QED
    BY <1>4, <2>1, <2>2 DEF ReportHealth, Answered
<1>. QED
  BY <1>3, <1>4

LEMMA MetricsKept ==
  ASSUME PageInv, page = "metrics", MetricsNext
  PROVE  PageInv'
<1>1. page \notin NumberedPages /\ page \notin OneAtATime /\ page \notin Detailed /\ page # "overview"
  BY DEF NumberedPages, OneAtATime, Detailed
<1>2. \A op, tail : TailOK(page, op, tail) <=> tail = "none"
  BY DEF TailOK, Untagged
<1>3. CASE ReportLoad \/ ReportHealth
  BY <1>3, ReportKept
<1>4. CASE MetricsArrive
  <2>1. ASSUME NEW c \in calls, NEW m, NEW a, c.op = "report",
               Answer(c, [view EXCEPT !.report = m, !.advice = a, !.err = IF Ok(c) THEN "none" ELSE c.st, !.loading = FALSE])
        PROVE PageInv'
    <3>1. PICK w : w = [view EXCEPT !.report = m, !.advice = a, !.err = IF Ok(c) THEN "none" ELSE c.st, !.loading = FALSE]
      OBVIOUS
    <3>2. DOMAIN w = DOMAIN view /\ w.busy = view.busy /\ w.loading = FALSE
      BY <3>1, PageIs
    <3>. QED
      BY <1>1, <1>2, <2>1, <3>1, <3>2, PageIs, PlainKept
  <2>. QED
    BY <1>4, <2>1 DEF MetricsArrive, Answered
<1>. QED
  BY <1>3, <1>4 DEF MetricsNext

LEMMA HeatmapKept ==
  ASSUME PageInv, page = "heatmap", HeatmapNext
  PROVE  PageInv'
<1>1. page \notin NumberedPages /\ page \notin OneAtATime /\ page \notin Detailed /\ page # "overview"
  BY DEF NumberedPages, OneAtATime, Detailed
<1>2. \A op, tail : TailOK(page, op, tail) <=> tail = "none"
  BY DEF TailOK, Untagged
<1>3. CASE ReportLoad \/ ReportHealth
  BY <1>3, ReportKept
<1>4. CASE HeatmapArrives
  <2>1. ASSUME NEW c \in calls, c.op = "report",
               Answer(c, [view EXCEPT !.report = Ok(c), !.err = IF Ok(c) THEN "none" ELSE c.st, !.loading = FALSE])
        PROVE PageInv'
    <3>1. PICK w : w = [view EXCEPT !.report = Ok(c), !.err = IF Ok(c) THEN "none" ELSE c.st, !.loading = FALSE]
      OBVIOUS
    <3>2. DOMAIN w = DOMAIN view /\ w.busy = view.busy /\ w.loading = FALSE
      BY <3>1, PageIs
    <3>. QED
      BY <1>1, <1>2, <2>1, <3>1, <3>2, PageIs, PlainKept
  <2>. QED
    BY <1>4, <2>1 DEF HeatmapArrives, Answered
<1>. QED
  BY <1>3, <1>4 DEF HeatmapNext

----------------------------------------------------------------------------
(* The pages of PagesKeys. *)

LEMMA ApiKeysKept ==
  ASSUME PageInv, page = "apikeys", ApiKeysNext
  PROVE  PageInv'
<1>1. page \notin NumberedPages /\ page \in OneAtATime /\ page \notin Detailed /\ page # "overview"
  BY DEF NumberedPages, OneAtATime, Detailed
<1>2. \A op, tail : TailOK(page, op, tail) <=> 
        /\ tail \in {"none", "busy"}
        /\ op # "list" => tail = "busy"
  BY DEF TailOK, Untagged
<1>3. Idle => \A d \in calls : ~Marked(d)
  BY <1>1, IdleIsFree
<1>4. CASE ApiKeysLoaded
  <2>1. ASSUME NEW c \in calls, NEW i, c.op = "list",
               Answer(c, IF Ok(c) THEN [Ends(Loaded(view, c), c.tail) EXCEPT !.sel = i, !.of = c.arg] ELSE Ends(Loaded(view, c), c.tail))
        PROVE PageInv'
    <3>1. PICK v, u, w : v = Loaded(view, c) /\ u = Ends(v, c.tail) /\ w = IF Ok(c) THEN [u EXCEPT !.sel = i, !.of = c.arg] ELSE u
      OBVIOUS
    <3>2. DOMAIN v = DOMAIN view /\ v.busy = view.busy /\ v.loading = FALSE
      BY <3>1, LoadedIs
    <3>3. DOMAIN u = DOMAIN view /\ u.busy = {b \in view.busy : b[1] # c.tail} /\ u.loading = FALSE
      BY <3>1, <3>2, PageIs DEF Ends
    <3>4. DOMAIN w = DOMAIN view /\ w.busy = {b \in view.busy : b[1] # c.tail} /\ w.loading = FALSE
      BY <3>1, <3>3, PageIs
    <3>. QED
      BY <1>1, <2>1, <3>1, <3>4, LowerKept
  <2>. QED
    BY <1>4, <2>1 DEF ApiKeysLoaded, Answered
<1>5. CASE ApiKeysSearch
  <2>1. ASSUME NEW q, Ask(Filtered(q, NoRow, "none"), Loading([view EXCEPT !.q = q])) PROVE PageInv'
    <3>1. SameFlags(page, view, [view EXCEPT !.q = q])
      BY <1>1, PageIs DEF SameFlags
    <3>2. PICK d : d = Filtered(q, NoRow, "none")
      OBVIOUS
    <3>3. DOMAIN d = CallFields /\ d.tail = "none" /\ d.op \in LoadOps /\ d.do \in Reads /\ TailOK(page, d.op, "none")
      BY <1>2, <3>2 DEF Filtered, List, Call, Request, CallFields, LoadOps, Reads
    <3>4. Sent(page, d) /\ ~Marked(d)
      BY <3>3 DEF Sent, Marked, CallFields
    <3>. QED
      BY <1>1, <2>1, <3>1, <3>2, <3>3, <3>4, LoadKept
  <2>. QED
    BY <1>5, <2>1 DEF ApiKeysSearch
<1>6. CASE ApiKeysCreate
  <2>1. ASSUME Idle,
               Ask([Call("create", "create", NoRow) EXCEPT !.q = view.q, !.tail = "busy"], Flag(view, "busy", "create", NoRow))
        PROVE PageInv'
    <3>1. SameFlags(page, view, view)
      BY DEF SameFlags
    <3>2. PICK d : d = [Call("create", "create", NoRow) EXCEPT !.q = view.q, !.tail = "busy"]
      OBVIOUS
    <3>3. DOMAIN d = CallFields /\ d.tail = "busy" /\ TailOK(page, d.op, "busy")
      BY <1>2, <3>2 DEF Call, Request, CallFields
    <3>4. Sent(page, d)
      BY <3>3 DEF Sent, Marked, CallFields
    <3>. QED
      BY <1>1, <1>3, <2>1, <3>1, <3>2, <3>3, <3>4, FlagKept DEF SameFlags
  <2>2. ASSUME NEW c \in calls, c.op = "create",
               AnswerThen(c, Loading([view EXCEPT !.last = c.got, !.secret = TRUE]), Filtered(c.q, c.got, "busy"))
        PROVE PageInv'
    <3>1. SameFlags(page, view, [view EXCEPT !.last = c.got, !.secret = TRUE])
      BY <1>1, PageIs DEF SameFlags
    <3>2. PICK d : d = Filtered(c.q, c.got, "busy")
      OBVIOUS
    <3>3. d.tail = c.tail /\ d.op \in LoadOps /\ d.do \in Reads /\ DOMAIN d = CallFields /\ TailOK(page, d.op, d.tail)
      BY <1>2, <2>2, <3>2, PageIs DEF Filtered, List, Call, Request, CallFields, LoadOps, Reads
    <3>4. Sent(page, d)
      BY <3>3 DEF Sent, CallFields
    <3>. QED
      BY <1>1, <2>2, <3>1, <3>2, <3>3, <3>4, ThenLoadKept
  <2>3. ASSUME NEW c \in calls, c.op = "create", Answer(c, Ends(view, "busy")) PROVE PageInv'
    BY <1>1, <1>2, <2>3, PageIs, EndKept DEF LoadOps
  <2>. QED
    BY <1>6, <2>1, <2>2, <2>3 DEF ApiKeysCreate, Answered
<1>7. CASE ApiKeysHide
  <2>1. ASSUME Local([view EXCEPT !.secret = FALSE]) PROVE PageInv'
    <3>1. SameFlags(page, view, [view EXCEPT !.secret = FALSE])
      BY <1>1, PageIs DEF SameFlags
    <3>. QED
      BY <2>1, <3>1, LocalKept
  <2>. QED
    BY <1>7, <2>1 DEF ApiKeysHide
<1>8. CASE ApiKeysRow
  <2>1. ASSUME NEW i, Local([CloseDialog(view) EXCEPT !.sel = i]) PROVE PageInv'
    <3>1. SameFlags(page, view, [CloseDialog(view) EXCEPT !.sel = i])
      BY <1>1, PageIs DEF SameFlags, CloseDialog
    <3>. QED
      BY <2>1, <3>1, LocalKept
  <2>2. ASSUME NEW i, Local([view EXCEPT !.sel = i, !.ask = i, !.kind = "revoke"]) PROVE PageInv'
    <3>1. SameFlags(page, view, [view EXCEPT !.sel = i, !.ask = i, !.kind = "revoke"])
      BY <1>1, PageIs DEF SameFlags
    <3>. QED
      BY <2>2, <3>1, LocalKept
  <2>. QED
    BY <1>8, <2>1, <2>2 DEF ApiKeysRow
<1>9. CASE ApiKeysRevoke
  <2>1. ASSUME Idle,
               Ask([Call("revoke", "close", view.ask) EXCEPT !.cap = view.last, !.q = view.q, !.tail = "busy"], Flag(view, "busy", "revoke", view.ask))
        PROVE PageInv'
    <3>1. SameFlags(page, view, view)
      BY DEF SameFlags
    <3>2. PICK d : d = [Call("revoke", "close", view.ask) EXCEPT !.cap = view.last, !.q = view.q, !.tail = "busy"]
      OBVIOUS
    <3>3. DOMAIN d = CallFields /\ d.tail = "busy" /\ TailOK(page, d.op, "busy")
      BY <1>2, <3>2 DEF Call, Request, CallFields
    <3>4. Sent(page, d)
      BY <3>3 DEF Sent, Marked, CallFields
    <3>. QED
      BY <1>1, <1>3, <2>1, <3>1, <3>2, <3>3, <3>4, FlagKept DEF SameFlags
  <2>2. ASSUME NEW c \in calls, c.op = "revoke",
               AnswerThen(c, Loading(CloseDialog(WithoutSecret(view, c))), Filtered(c.q, c.arg, "busy"))
        PROVE PageInv'
    <3>1. SameFlags(page, view, CloseDialog(WithoutSecret(view, c)))
      BY <1>1, PageIs DEF SameFlags, CloseDialog, WithoutSecret
    <3>2. PICK d : d = Filtered(c.q, c.arg, "busy")
      OBVIOUS
    <3>3. d.tail = c.tail /\ d.op \in LoadOps /\ d.do \in Reads /\ DOMAIN d = CallFields /\ TailOK(page, d.op, d.tail)
      BY <1>2, <2>2, <3>2, PageIs DEF Filtered, List, Call, Request, CallFields, LoadOps, Reads
    <3>4. Sent(page, d)
      BY <3>3 DEF Sent, CallFields
    <3>. QED
      BY <1>1, <2>2, <3>1, <3>2, <3>3, <3>4, ThenLoadKept
  <2>3. ASSUME NEW c \in calls, c.op = "revoke", Answer(c, Ends(view, "busy")) PROVE PageInv'
    BY <1>1, <1>2, <2>3, PageIs, EndKept DEF LoadOps
  <2>. QED
    BY <1>9, <2>1, <2>2, <2>3 DEF ApiKeysRevoke, Answered
<1>10. CASE CancelDialog
  BY <1>1, <1>2, <1>10, DialogKept
<1>11. CASE Ask(Filtered(view.q, view.sel, "none"), Loading(view))
  <2>1. ASSUME Ask(Filtered(view.q, view.sel, "none"), Loading(view)) PROVE PageInv'
    <3>1. SameFlags(page, view, view)
      BY DEF SameFlags
    <3>2. PICK d : d = Filtered(view.q, view.sel, "none")
      OBVIOUS
    <3>3. DOMAIN d = CallFields /\ d.tail = "none" /\ d.op \in LoadOps /\ d.do \in Reads /\ TailOK(page, d.op, "none")
      BY <1>2, <3>2 DEF Filtered, List, Call, Request, CallFields, LoadOps, Reads
    <3>4. Sent(page, d) /\ ~Marked(d)
      BY <3>3 DEF Sent, Marked, CallFields
    <3>. QED
      BY <1>1, <2>1, <3>1, <3>2, <3>3, <3>4, LoadKept
  <2>. QED
    BY <1>11, <2>1 DEF LoadOps
<1>. QED
  BY <1>4, <1>5, <1>6, <1>7, <1>8, <1>9, <1>10, <1>11 DEF ApiKeysNext

LEMMA WebhooksKept ==
  ASSUME PageInv, page = "webhooks", WebhooksNext
  PROVE  PageInv'
<1>1. page \notin NumberedPages /\ page \notin OneAtATime /\ page \notin Detailed /\ page # "overview"
  BY DEF NumberedPages, OneAtATime, Detailed
<1>2. \A op, tail : TailOK(page, op, tail)
  BY DEF TailOK, Untagged
<1>3. CASE ListArrives \/ RefreshWhen(~view.loading)
  BY <1>1, <1>2, <1>3, ListArrivesKept, RefreshKept
<1>4. CASE WebhooksForm
  <2>1. ASSUME Local([view EXCEPT !.open = TRUE]) PROVE PageInv'
    <3>1. SameFlags(page, view, [view EXCEPT !.open = TRUE])
      BY <1>1, PageIs DEF SameFlags
    <3>. QED
      BY <2>1, <3>1, LocalKept
  <2>2. ASSUME Local([view EXCEPT !.open = FALSE]) PROVE PageInv'
    <3>1. SameFlags(page, view, [view EXCEPT !.open = FALSE])
      BY <1>1, PageIs DEF SameFlags
    <3>. QED
      BY <2>2, <3>1, LocalKept
  <2>. QED
    BY <1>4, <2>1, <2>2 DEF WebhooksForm
<1>5. CASE WebhooksCreate
  <2>1. ASSUME NEW i, Write("create", "create", i, "busy") PROVE PageInv'
    BY <1>1, <1>2, <2>1, WriteKept
  <2>2. ASSUME NEW c \in calls, c.op = "create",
               WroteThenLoads(c, [view EXCEPT !.last = c.got, !.secret = TRUE, !.open = FALSE])
        PROVE PageInv'
    <3>1. SameFlags(page, view, [view EXCEPT !.last = c.got, !.secret = TRUE, !.open = FALSE])
      BY <1>1, PageIs DEF SameFlags
    <3>. QED
      BY <1>1, <1>2, <2>2, <3>1, PageIs, WroteKept DEF LoadOps
  <2>. QED
    BY <1>5, <2>1, <2>2 DEF WebhooksCreate, Answered
<1>6. CASE WebhooksRotate
  <2>1. ASSUME NEW i, Write("rotate", "live", i, "busy") PROVE PageInv'
    BY <1>1, <1>2, <2>1, WriteKept
  <2>2. ASSUME NEW c \in calls, c.op = "rotate",
               WroteThenLoads(c, [view EXCEPT !.last = c.arg, !.secret = TRUE])
        PROVE PageInv'
    <3>1. SameFlags(page, view, [view EXCEPT !.last = c.arg, !.secret = TRUE])
      BY <1>1, PageIs DEF SameFlags
    <3>. QED
      BY <1>1, <1>2, <2>2, <3>1, PageIs, WroteKept DEF LoadOps
  <2>. QED
    BY <1>6, <2>1, <2>2 DEF WebhooksRotate, Answered
<1>7. CASE WebhooksRevoke
  <2>1. ASSUME NEW i,
               Ask([Call("revoke", "close", i) EXCEPT !.cap = view.last, !.tail = "busy"], Flag(view, "busy", "revoke", i))
        PROVE PageInv'
    <3>1. SameFlags(page, view, view)
      BY DEF SameFlags
    <3>2. PICK d : d = [Call("revoke", "close", i) EXCEPT !.cap = view.last, !.tail = "busy"]
      OBVIOUS
    <3>3. DOMAIN d = CallFields /\ d.tail = "busy" /\ TailOK(page, d.op, "busy")
      BY <1>2, <3>2 DEF Call, Request, CallFields
    <3>4. Sent(page, d)
      BY <1>1, <3>3 DEF Sent, CallFields
    <3>. QED
      BY <1>1, <2>1, <3>1, <3>2, <3>3, <3>4, FlagKept DEF SameFlags
  <2>2. ASSUME NEW c \in calls, c.op = "revoke", WroteThenLoads(c, WithoutSecret(view, c)) PROVE PageInv'
    <3>1. SameFlags(page, view, WithoutSecret(view, c))
      BY <1>1, PageIs DEF SameFlags, WithoutSecret
    <3>. QED
      BY <1>1, <1>2, <2>2, <3>1, PageIs, WroteKept DEF LoadOps
  <2>. QED
    BY <1>7, <2>1, <2>2 DEF WebhooksRevoke, Answered
<1>8. CASE WebhooksTry
  <2>1. ASSUME NEW i, Write("test", "run", i, "busy") PROVE PageInv'
    BY <1>1, <1>2, <2>1, WriteKept
  <2>2. ASSUME NEW c \in calls, c.op = "test", WroteThenLoads(c, view) PROVE PageInv'
    <3>1. SameFlags(page, view, view)
      BY DEF SameFlags
    <3>. QED
      BY <1>1, <1>2, <2>2, <3>1, PageIs, WroteKept DEF LoadOps
  <2>. QED
    BY <1>8, <2>1, <2>2 DEF WebhooksTry, Answered
<1>9. CASE WebhooksHide
  <2>1. ASSUME Local([view EXCEPT !.secret = FALSE]) PROVE PageInv'
    <3>1. SameFlags(page, view, [view EXCEPT !.secret = FALSE])
      BY <1>1, PageIs DEF SameFlags
    <3>. QED
      BY <2>1, <3>1, LocalKept
  <2>. QED
    BY <1>9, <2>1 DEF WebhooksHide
<1>. QED
  BY <1>3, <1>4, <1>5, <1>6, <1>7, <1>8, <1>9 DEF WebhooksNext

LEMMA TenantsKept ==
  ASSUME PageInv, page = "tenants", TenantsNext
  PROVE  PageInv'
<1>1. page \notin NumberedPages /\ page \in OneAtATime /\ page \notin Detailed /\ page # "overview"
  BY DEF NumberedPages, OneAtATime, Detailed
<1>2. \A op, tail : TailOK(page, op, tail) <=> 
        /\ tail \in {"none", "busy"}
        /\ op = "pick" => tail = "none"
        /\ op \notin {"list", "listDetail", "pick"} => tail = "busy"
  BY DEF TailOK, Untagged
<1>3. Idle => \A d \in calls : ~Marked(d)
  BY <1>1, IdleIsFree
<1>4. CASE TenantsLoaded
  <2>1. ASSUME NEW c \in calls, c.op = "list", Answer(c, Ends(Loaded(view, c), c.tail)) PROVE PageInv'
    <3>1. PICK v, u : v = Loaded(view, c) /\ u = v
      OBVIOUS
    <3>2. DOMAIN v = DOMAIN view /\ v.busy = view.busy /\ v.loading = FALSE
      BY <3>1, LoadedIs
    <3>3. DOMAIN u = DOMAIN view /\ u.busy = view.busy /\ u.loading = FALSE
      BY <3>1, <3>2, PageIs
    <3>. QED
      BY <1>1, <1>2, <2>1, <3>1, <3>3, PageIs, EndKept
  <2>2. ASSUME NEW c \in calls, NEW i, c.op = "list",
               Answer(c, Ends([Loaded(view, c) EXCEPT !.sel = i, !.det = i], c.tail))
        PROVE PageInv'
    <3>1. PICK v, u : v = Loaded(view, c) /\ u = [v EXCEPT !.sel = i, !.det = i]
      OBVIOUS
    <3>2. DOMAIN v = DOMAIN view /\ v.busy = view.busy /\ v.loading = FALSE
      BY <3>1, LoadedIs
    <3>3. DOMAIN u = DOMAIN view /\ u.busy = view.busy /\ u.loading = FALSE
      BY <3>1, <3>2, PageIs
    <3>. QED
      BY <1>1, <1>2, <2>2, <3>1, <3>3, PageIs, EndKept
  <2>3. ASSUME NEW c \in calls, NEW i, c.op = "list",
               AnswerThen(c, [Heard(view, c) EXCEPT !.sel = i], [Call("listDetail", "get", i) EXCEPT !.tail = c.tail])
        PROVE PageInv'
    <3>1. PICK v, w, d : /\ v = Heard(view, c) /\ w = [v EXCEPT !.sel = i]
                         /\ d = [Call("listDetail", "get", i) EXCEPT !.tail = c.tail]
      OBVIOUS
    <3>2. DOMAIN v = DOMAIN view /\ v.busy = view.busy /\ v.loading = view.loading
      BY <3>1, LoadedIs
    <3>3. SameFlags(page, view, w)
      BY <1>1, <3>1, <3>2, PageIs DEF SameFlags
    <3>4. DOMAIN d = CallFields /\ d.tail = c.tail /\ d.op = "listDetail" /\ d.do \in Reads /\ TailOK(page, d.op, d.tail)
      BY <1>2, <2>3, <3>1, PageIs DEF Call, Request, CallFields, Reads
    <3>5. Sent(page, d)
      BY <3>4 DEF Sent, CallFields
    <3>6. d.op \in LoadOps
      BY <3>4 DEF LoadOps
    <3>. QED
      BY <1>1, <2>3, <3>1, <3>3, <3>4, <3>5, <3>6, ThenKept
  <2>4. ASSUME NEW c \in calls, c.op = "listDetail",
               Answer(c, Ends([view EXCEPT !.det = c.got, !.loading = FALSE], c.tail))
        PROVE PageInv'
    <3>1. PICK w : w = [view EXCEPT !.det = c.got, !.loading = FALSE]
      OBVIOUS
    <3>2. DOMAIN w = DOMAIN view /\ w.busy = view.busy /\ w.loading = FALSE
      BY <3>1, PageIs
    <3>. QED
      BY <1>1, <2>4, <3>1, <3>2, EndKept
  <2>. QED
    BY <1>4, <2>1, <2>2, <2>3, <2>4 DEF TenantsLoaded, Answered
<1>5. CASE TenantsSearch
  <2>1. ASSUME NEW q, Ask(Filtered(q, view.sel, "none"), Loading([view EXCEPT !.q = q])) PROVE PageInv'
    <3>1. SameFlags(page, view, [view EXCEPT !.q = q])
      BY <1>1, PageIs DEF SameFlags
    <3>2. PICK d : d = Filtered(q, view.sel, "none")
      OBVIOUS
    <3>3. DOMAIN d = CallFields /\ d.tail = "none" /\ d.op \in LoadOps /\ d.do \in Reads /\ TailOK(page, d.op, "none")
      BY <1>2, <3>2 DEF Filtered, List, Call, Request, CallFields, LoadOps, Reads
    <3>4. Sent(page, d) /\ ~Marked(d)
      BY <3>3 DEF Sent, Marked, CallFields
    <3>. QED
      BY <1>1, <2>1, <3>1, <3>2, <3>3, <3>4, LoadKept
  <2>. QED
    BY <1>5, <2>1 DEF TenantsSearch
<1>6. CASE TenantsPick
  <2>1. ASSUME NEW i, Ask(Call("pick", "get", i), [CloseDialog(view) EXCEPT !.sel = i]) PROVE PageInv'
    <3>1. SameFlags(page, view, [CloseDialog(view) EXCEPT !.sel = i])
      BY <1>1, PageIs DEF SameFlags, CloseDialog
    <3>. QED
      BY <1>1, <1>2, <2>1, <3>1, PlainAskKept DEF Reads
  <2>2. ASSUME NEW c \in calls, c.op = "pick", Answer(c, [view EXCEPT !.det = c.got]) PROVE PageInv'
    <3>1. PICK w : w = [view EXCEPT !.det = c.got]
      OBVIOUS
    <3>2. DOMAIN w = DOMAIN view /\ w.busy = view.busy /\ w.loading = view.loading
      BY <3>1, PageIs
    <3>3. c.tail = "none" /\ c.op \notin LoadOps
      BY <1>2, <2>2, PageIs DEF LoadOps
    <3>. QED
      BY <1>1, <2>2, <3>1, <3>2, <3>3, PlainKept
  <2>. QED
    BY <1>6, <2>1, <2>2 DEF TenantsPick, Answered
<1>7. CASE TenantsWrite \/ TenantsDialog
  <2>1. ASSUME NEW i, Idle, Write("role", "put", i, "busy") PROVE PageInv'
    BY <1>1, <1>2, <1>3, <2>1, WriteKept DEF Reads
  <2>2. ASSUME NEW op \in {"create", "activate", "member", "deactivate", "remove"}, NEW do, NEW i, Idle, WriteOf(op, do, i)
        PROVE PageInv'
    <3>1. PICK d : d = [Call(op, do, i) EXCEPT !.q = view.q, !.tail = "busy"]
      OBVIOUS
    <3>2. DOMAIN d = CallFields /\ d.tail = "busy" /\ TailOK(page, d.op, "busy")
      BY <1>2, <3>1 DEF Call, Request, CallFields
    <3>3. Sent(page, d)
      BY <3>2 DEF Sent, Marked, CallFields
    <3>. QED
      BY <1>1, <1>3, <2>2, <3>1, <3>2, <3>3, FlagKept DEF WriteOf
  <2>. QED
    BY <1>7, <2>1, <2>2, DialogKept DEF TenantsWrite, TenantsDialog, TenantsDetail
<1>8. CASE TenantsWrote
  <2>1. ASSUME NEW c \in calls, c.op \in {"create", "activate", "member", "deactivate", "remove"},
               Answer(c, Ends(view, "busy"))
        PROVE PageInv'
    BY <1>1, <1>2, <2>1, PageIs, EndKept DEF LoadOps
  <2>2. ASSUME NEW c \in calls, c.op \in {"create", "activate", "member", "deactivate", "remove"}, NEW v,
               v \in {[view EXCEPT !.det = c.got], CloseDialog(view), view},
               AnswerThen(c, Loading(v), Filtered(c.q, c.got, "busy"))
        PROVE PageInv'
    <3>1. SameFlags(page, view, v)
      BY <1>1, <2>2, PageIs DEF SameFlags, CloseDialog
    <3>2. PICK d : d = Filtered(c.q, c.got, "busy")
      OBVIOUS
    <3>3. d.tail = c.tail /\ d.op \in LoadOps /\ d.do \in Reads /\ DOMAIN d = CallFields /\ TailOK(page, d.op, d.tail)
      BY <1>2, <2>2, <3>2, PageIs DEF Filtered, List, Call, Request, CallFields, LoadOps, Reads
    <3>4. Sent(page, d)
      BY <3>3 DEF Sent, CallFields
    <3>. QED
      BY <1>1, <2>2, <3>1, <3>2, <3>3, <3>4, ThenLoadKept
  <2>3. ASSUME NEW c \in calls, c.op = "role",
               Answer(c, Ends(IF Ok(c) THEN [view EXCEPT !.det = c.got] ELSE view, "busy"))
        PROVE PageInv'
    <3>1. PICK v : v = IF Ok(c) THEN [view EXCEPT !.det = c.got] ELSE view
      OBVIOUS
    <3>2. DOMAIN v = DOMAIN view /\ v.busy = view.busy /\ v.loading = view.loading
      BY <3>1, PageIs
    <3>3. c.tail = "busy"
      BY <1>2, <2>3, PageIs
    <3>. QED
      BY <1>1, <2>3, <3>1, <3>2, <3>3, EndKept DEF LoadOps
  <2>. QED
    BY <1>8, <2>1, <2>2, <2>3 DEF TenantsWrote, Answered
<1>9. CASE CancelDialog
  BY <1>1, <1>2, <1>9, DialogKept
<1>10. CASE Ask(Filtered(view.q, view.sel, "none"), Loading(view))
  <2>1. ASSUME Ask(Filtered(view.q, view.sel, "none"), Loading(view)) PROVE PageInv'
    <3>1. SameFlags(page, view, view)
      BY DEF SameFlags
    <3>2. PICK d : d = Filtered(view.q, view.sel, "none")
      OBVIOUS
    <3>3. DOMAIN d = CallFields /\ d.tail = "none" /\ d.op \in LoadOps /\ d.do \in Reads /\ TailOK(page, d.op, "none")
      BY <1>2, <3>2 DEF Filtered, List, Call, Request, CallFields, LoadOps, Reads
    <3>4. Sent(page, d) /\ ~Marked(d)
      BY <3>3 DEF Sent, Marked, CallFields
    <3>. QED
      BY <1>1, <2>1, <3>1, <3>2, <3>3, <3>4, LoadKept
  <2>. QED
    BY <1>10, <2>1 DEF LoadOps
<1>. QED
  BY <1>4, <1>5, <1>6, <1>7, <1>8, <1>9, <1>10 DEF TenantsNext

LEMMA SettingsKept ==
  ASSUME PageInv, page = "settings", SettingsNext
  PROVE  PageInv'
<1>1. page \notin NumberedPages /\ page \in OneAtATime /\ page \notin Detailed /\ page # "overview"
  BY DEF NumberedPages, OneAtATime, Detailed
<1>2. \A op, tail : TailOK(page, op, tail) <=> 
        /\ tail \in {"none", "saving", "pairing"}
        /\ op = "pair" => tail = "pairing"
        /\ op \in {"saveUser", "saveQuota", "saveConfig"} => tail = "saving"
  BY DEF TailOK, Untagged
<1>3. ~Flagged("saving") => \A d \in calls : ~Marked(d)
  BY <1>1, <1>2, PageIs DEF PageInv, OneMarked, Marked, Flagged
<1>4. CASE SettingsLoaded
  <2>1. ASSUME NEW c \in calls, c.op = "users", Answer(c, Ends(Loaded(view, c), c.tail)) PROVE PageInv'
    <3>1. PICK v, u : v = Loaded(view, c) /\ u = v
      OBVIOUS
    <3>2. DOMAIN v = DOMAIN view /\ v.busy = view.busy /\ v.loading = FALSE
      BY <3>1, LoadedIs
    <3>3. DOMAIN u = DOMAIN view /\ u.busy = view.busy /\ u.loading = FALSE
      BY <3>1, <3>2, PageIs
    <3>. QED
      BY <1>1, <1>2, <2>1, <3>1, <3>3, PageIs, EndKept
  <2>2. ASSUME NEW c \in calls, c.op = "quotas",
               Answer(c, Ends(IF Ok(c) THEN [Loaded(view, c) EXCEPT !.rows = view.rows, !.quota = TRUE] ELSE Loaded(view, c), c.tail))
        PROVE PageInv'
    <3>1. PICK v, u : v = Loaded(view, c) /\ u = IF Ok(c) THEN [v EXCEPT !.rows = view.rows, !.quota = TRUE] ELSE v
      OBVIOUS
    <3>2. DOMAIN v = DOMAIN view /\ v.busy = view.busy /\ v.loading = FALSE
      BY <3>1, LoadedIs
    <3>3. DOMAIN u = DOMAIN view /\ u.busy = view.busy /\ u.loading = FALSE
      BY <3>1, <3>2, PageIs
    <3>. QED
      BY <1>1, <1>2, <2>2, <3>1, <3>3, PageIs, EndKept
  <2>3. ASSUME NEW c \in calls, NEW v, c.op = "gateway", v = [view EXCEPT !.loading = FALSE],
               Answer(c, Ends(IF Ok(c) THEN [v EXCEPT !.cfg = c.got, !.shown = c.ver, !.gwErr = "none"]
                              ELSE [v EXCEPT !.gwErr = c.st], c.tail))
        PROVE PageInv'
    <3>1. DOMAIN v = DOMAIN view /\ v.busy = view.busy /\ v.loading = FALSE
      BY <2>3, PageIs
    <3>2. PICK w : w = IF Ok(c) THEN [v EXCEPT !.cfg = c.got, !.shown = c.ver, !.gwErr = "none"]
                       ELSE [v EXCEPT !.gwErr = c.st]
      OBVIOUS
    <3>3. DOMAIN w = DOMAIN view /\ w.busy = view.busy /\ w.loading = FALSE
      BY <3>1, <3>2, PageIs
    <3>. QED
      BY <1>1, <2>3, <3>2, <3>3, EndKept
  <2>. QED
    BY <1>4, <2>1, <2>2, <2>3 DEF SettingsLoaded, Answered
<1>5. CASE SettingsSection
  <2>1. ASSUME NEW sec, Local([view EXCEPT !.sec = sec, !.code = @ /\ sec = "pairing"]) PROVE PageInv'
    <3>1. SameFlags(page, view, [view EXCEPT !.sec = sec, !.code = @ /\ sec = "pairing"])
      BY <1>1, PageIs DEF SameFlags
    <3>. QED
      BY <2>1, <3>1, LocalKept
  <2>2. ASSUME NEW sec \in {"users", "quotas", "gateway"}, NEW i,
               Ask(SectionLoad(sec, i, "none"), Loading([view EXCEPT !.sec = sec, !.code = @ /\ sec = "pairing"]))
        PROVE PageInv'
    <3>1. SameFlags(page, view, [view EXCEPT !.sec = sec, !.code = @ /\ sec = "pairing"])
      BY <1>1, PageIs DEF SameFlags
    <3>2. PICK d : d = SectionLoad(sec, i, "none")
      OBVIOUS
    <3>3. DOMAIN d = CallFields /\ d.tail = "none" /\ d.op \in LoadOps /\ d.do \in Reads /\ TailOK(page, d.op, "none")
      BY <1>2, <3>2 DEF SectionLoad, List, Call, Request, CallFields, LoadOps, Reads
    <3>4. Sent(page, d) /\ ~Marked(d)
      BY <3>3 DEF Sent, Marked, CallFields
    <3>. QED
      BY <1>1, <2>2, <3>1, <3>2, <3>3, <3>4, LoadKept
  <2>. QED
    BY <1>5, <2>1, <2>2 DEF SettingsSection, CrmSections
<1>6. CASE SettingsSave
  <2>1. ASSUME NEW op \in {"saveUser", "saveQuota"}, NEW do, NEW i, ~Flagged("saving"), Write(op, do, i, "saving")
        PROVE PageInv'
    BY <1>1, <1>2, <1>3, <2>1, WriteKept
  <2>2. ASSUME ~Flagged("saving"),
               Ask([Call("saveConfig", "check", view.cfg) EXCEPT !.base = view.shown, !.tail = "saving"], Flag(view, "saving", "saveConfig", view.cfg))
        PROVE PageInv'
    <3>1. SameFlags(page, view, view)
      BY DEF SameFlags
    <3>2. PICK d : d = [Call("saveConfig", "check", view.cfg) EXCEPT !.base = view.shown, !.tail = "saving"]
      OBVIOUS
    <3>3. DOMAIN d = CallFields /\ d.tail = "saving" /\ TailOK(page, d.op, "saving")
      BY <1>2, <3>2 DEF Call, Request, CallFields
    <3>4. Sent(page, d)
      BY <3>3 DEF Sent, Marked, CallFields
    <3>. QED
      BY <1>1, <1>3, <2>2, <3>1, <3>2, <3>3, <3>4, FlagKept DEF SameFlags
  <2>. QED
    BY <1>6, <2>1, <2>2 DEF SettingsSave
<1>7. CASE SettingsSaved
  <2>1. ASSUME NEW sec \in {"users", "quotas", "gateway"}, NEW c \in calls, c.op \in {"saveUser", "saveQuota", "saveConfig"},
               AnswerThen(c, Loading(view), SectionLoad(sec, c.arg, "saving"))
        PROVE PageInv'
    <3>1. SameFlags(page, view, view)
      BY DEF SameFlags
    <3>2. PICK d : d = SectionLoad(sec, c.arg, "saving")
      OBVIOUS
    <3>3. d.tail = c.tail /\ d.op \in LoadOps /\ d.do \in Reads /\ DOMAIN d = CallFields /\ TailOK(page, d.op, d.tail)
      BY <1>2, <2>1, <3>2, PageIs DEF SectionLoad, List, Call, Request, CallFields, LoadOps, Reads
    <3>4. Sent(page, d)
      BY <3>3 DEF Sent, CallFields
    <3>. QED
      BY <1>1, <2>1, <3>1, <3>2, <3>3, <3>4, ThenLoadKept
  <2>2. ASSUME NEW c \in calls, c.op \in {"saveUser", "saveQuota", "saveConfig"},
               Answer(c, Ends(view, "saving"))
        PROVE PageInv'
    BY <1>1, <1>2, <2>2, PageIs, EndKept DEF LoadOps
  <2>. QED
    BY <1>7, <2>1, <2>2 DEF SettingsSaved, SaveOf, CrmSections, Answered
<1>8. CASE SettingsPairing
  <2>1. ASSUME Write("pair", "run", NoRow, "pairing") PROVE PageInv'
    BY <1>1, <1>2, <2>1, WriteKept DEF Reads
  <2>2. ASSUME NEW c \in calls, c.op = "pair",
               Answer(c, Ends([view EXCEPT !.code = @ \/ Ok(c)], "pairing"))
        PROVE PageInv'
    <3>1. SameFlags(page, view, [view EXCEPT !.code = @ \/ Ok(c)])
      BY <1>1, PageIs DEF SameFlags
    <3>. QED
      BY <1>1, <1>2, <2>2, <3>1, PageIs, EndKept DEF LoadOps, SameFlags
  <2>. QED
    BY <1>8, <2>1, <2>2 DEF SettingsPairing, Answered
<1>9. CASE SettingsToken
  BY <1>9, LeaveKept DEF SettingsToken
<1>10. CASE \E sec \in CrmSections \cup {"gateway"} : \E i : Ask(SectionLoad(sec, i, "none"), Loading(view))
  <2>1. ASSUME NEW sec \in {"users", "quotas", "gateway"}, NEW i,
               Ask(SectionLoad(sec, i, "none"), Loading(view))
        PROVE PageInv'
    <3>1. SameFlags(page, view, view)
      BY DEF SameFlags
    <3>2. PICK d : d = SectionLoad(sec, i, "none")
      OBVIOUS
    <3>3. DOMAIN d = CallFields /\ d.tail = "none" /\ d.op \in LoadOps /\ d.do \in Reads /\ TailOK(page, d.op, "none")
      BY <1>2, <3>2 DEF SectionLoad, List, Call, Request, CallFields, LoadOps, Reads
    <3>4. Sent(page, d) /\ ~Marked(d)
      BY <3>3 DEF Sent, Marked, CallFields
    <3>. QED
      BY <1>1, <2>1, <3>1, <3>2, <3>3, <3>4, LoadKept
  <2>. QED
    BY <1>10, <2>1 DEF CrmSections
<1>. QED
  BY <1>4, <1>5, <1>6, <1>7, <1>8, <1>9, <1>10 DEF SettingsNext

----------------------------------------------------------------------------
(* The pages of PagesKnowledge.  The answer with the details of a row lowers two flags, *)
(* and a refresh of the graph sends two requests at once.                               *)

LEMMA DetailsKept ==
  ASSUME PageInv, NEW c \in calls, NEW v, c.op = "detail", Answer(c, EndsDetails(c, v)), SameFlags(page, view, v),
         page \in Detailed
  PROVE  PageInv'
<1>1. PICK u, w : u = Ends(v, "detail") /\ w = Ends(u, c.tail)
  OBVIOUS
<1>2. DOMAIN u = DOMAIN view /\ u.loading = view.loading /\ u.busy = {b \in view.busy : b[1] # "detail"}
  BY <1>1, PageIs DEF Ends, SameFlags
<1>3. DOMAIN w = DOMAIN view /\ w.loading = view.loading /\ w.busy = {b \in u.busy : b[1] # c.tail}
  BY <1>1, <1>2, PageIs DEF Ends
<1>4. page \notin NumberedPages /\ page \notin OneAtATime
  BY DEF Detailed, NumberedPages, OneAtATime
<1>5. ~Carries(page, c, view)
  BY DEF Carries, LoadOps
<1>6. Waits(page, w) => StillWaits(page, view, w)
  BY <1>3, <1>4 DEF StillWaits, Waits
<1>7. \A b \in w.busy : b \in view.busy /\ ~Holds(page, c, b[1])
  BY <1>2, <1>3 DEF Holds
<1>8. Quits(page, c, view, w)
  BY <1>3, <1>4, <1>5, <1>6, <1>7, PageIs DEF Quits, Shape
<1>. QED
  BY <1>1, <1>4, <1>8, AnswerKept DEF EndsDetails, NumberedPages

LEMMA ForgetKept ==
  ASSUME PageInv, NEW w, Local(w), DOMAIN w = DOMAIN view, w.loading = view.loading, w.busy \subseteq view.busy,
         page \notin NumberedPages, page \notin OneAtATime
  PROVE  PageInv'
<1>1. view' = w /\ page' = page /\ calls' = calls
  BY DEF Local
<1>2. Shape(page, w) /\ (Waits(page, w) <=> Waits(page, view))
  BY PageIs DEF Shape, Waits
<1>3. \A c : Carries(page, c, w) <=> Carries(page, c, view)
  BY DEF Carries
<1>4. Sound(page, calls, w) /\ OneMarked(page, calls, w)
  BY <1>2, <1>3 DEF PageInv, Sound, OneMarked
<1>. QED
  BY <1>1, <1>4 DEF PageInv

LEMMA BothKept ==
  ASSUME PageInv, NEW c, NEW d, NEW tag, NEW what, NEW i, AskBoth(c, d, Flag(Loading(view), tag, what, i)),
         Sent(page, c), c.op \in LoadOps, Sent(page, d), d.tail = tag, tag # "none",
         page \notin NumberedPages, page \notin OneAtATime, page # "overview"
  PROVE  PageInv'
<1>1. PICK e, v, w, t : /\ e = [d EXCEPT !.n = @ + 1] /\ v = Loading(view)
                        /\ w = Flag(v, tag, what, i) /\ t = <<tag, what, i>>
  OBVIOUS
<1>2. view' = w /\ page' = page /\ calls' = calls \cup {c, e}
  BY <1>1 DEF AskBoth, AskAll
<1>3. DOMAIN e = DOMAIN d /\ e.op = d.op /\ e.do = d.do /\ e.tail = d.tail /\ e.gen = d.gen
  BY <1>1 DEF Sent
<1>4. Sent(page, e)
  BY <1>3 DEF Sent, Marked
<1>5. DOMAIN v = DOMAIN view /\ v.busy = view.busy
  BY <1>1, PageIs DEF Loading
<1>6. DOMAIN w = DOMAIN view /\ w.busy = {b \in view.busy : b[1] # tag} \cup {t}
  BY <1>1, <1>5, PageIs DEF Flag
<1>7. t[1] = tag
  BY <1>1
<1>8. \A b \in w.busy : \E f \in calls \cup {c, e} : Holds(page, f, b[1])
  <2>1. Holds(page, e, tag)
    BY <1>3 DEF Holds
  <2>. QED
    BY <1>6, <1>7, <2>1 DEF PageInv, Sound
<1>9. Carries(page, c, w)
  BY DEF Carries
<1>10. Sound(page, calls \cup {c, e}, w) /\ OneMarked(page, calls \cup {c, e}, w)
  BY <1>4, <1>6, <1>8, <1>9, PageIs DEF PageInv, Sound, OneMarked, Shape
<1>. QED
  BY <1>2, <1>10 DEF PageInv

LEMMA VaultKept ==
  ASSUME PageInv, page = "vault", VaultNext
  PROVE  PageInv'
<1>1. page \notin NumberedPages /\ page \notin OneAtATime /\ page \in Detailed /\ page # "overview"
  BY DEF NumberedPages, OneAtATime, Detailed
<1>2. \A op, tail : TailOK(page, op, tail) <=> 
        /\ op \in {"search", "put"} => tail = "none"
        /\ op = "sync" => tail = "syncing"
  BY DEF TailOK, Untagged
<1>3. CASE VaultLoaded
  <2>1. ASSUME NEW c \in calls, c.op = "list", Answer(c, Ends(Loaded(view, c), c.tail)) PROVE PageInv'
    <3>1. PICK v, u : v = Loaded(view, c) /\ u = v
      OBVIOUS
    <3>2. DOMAIN v = DOMAIN view /\ v.busy = view.busy /\ v.loading = FALSE
      BY <3>1, LoadedIs
    <3>3. DOMAIN u = DOMAIN view /\ u.busy = view.busy /\ u.loading = FALSE
      BY <3>1, <3>2, PageIs
    <3>. QED
      BY <1>1, <1>2, <2>1, <3>1, <3>3, PageIs, EndKept
  <2>2. ASSUME NEW c \in calls, c.op = "list",
               AnswerThen(c, DetailsLoading(Loaded(view, c), c.cap), Details(c.cap, c.tail))
        PROVE PageInv'
    <3>1. PICK v, d : v = Loaded(view, c) /\ d = Details(c.cap, c.tail)
      OBVIOUS
    <3>2. DOMAIN v = DOMAIN view /\ v.busy = view.busy /\ (v.loading = FALSE \/ (v.loading = view.loading /\ c.op \notin LoadOps))
      BY <2>2, <3>1, PageIs, LoadedIs DEF LoadOps
    <3>3. DOMAIN d = CallFields /\ d.tail = c.tail /\ TailOK(page, d.op, d.tail) /\ d.op = "detail"
      BY <1>2, <2>2, <3>1, PageIs DEF Details, Call, Request, CallFields
    <3>4. Sent(page, d) /\ (\A t : Holds(page, c, t) => Holds(page, d, t)) /\ Holds(page, d, "detail")
      BY <1>1, <1>2, <2>2, <3>3, PageIs DEF Sent, Holds, CallFields
    <3>. QED
      BY <1>1, <2>2, <3>1, <3>2, <3>4, ThenFlagKept DEF DetailsLoading
  <2>. QED
    BY <1>3, <2>1, <2>2 DEF VaultLoaded, Answered
<1>4. CASE VaultOpen
  <2>1. ASSUME NEW i, Ask(Details(i, "none"), DetailsLoading(view, i)) PROVE PageInv'
    <3>1. PICK v, d, w, t : /\ v = view /\ d = Details(i, "none")
                            /\ w = DetailsLoading(v, i) /\ t = <<"detail", "detail", i>>
      OBVIOUS
    <3>2. DOMAIN v = DOMAIN view /\ v.busy = view.busy /\ v.loading = view.loading
      BY <3>1, PageIs
    <3>3. DOMAIN w = DOMAIN view /\ w.busy = {b \in view.busy : b[1] # "detail"} \cup {t} /\ w.loading = view.loading
      BY <3>1, <3>2, PageIs DEF DetailsLoading, Flag
    <3>4. DOMAIN d = CallFields /\ d.op = "detail" /\ d.tail = "none" /\ TailOK(page, "detail", "none")
      BY <1>2, <3>1 DEF Details, Call, Request, CallFields
    <3>5. Sent(page, d) /\ Holds(page, d, "detail") /\ t[1] = "detail"
      BY <1>1, <3>1, <3>4 DEF Sent, Holds, CallFields
    <3>6. Asks(page, d, view, w)
      BY <1>1, <3>3, <3>5, PageIs DEF Asks, Shape, StillWaits, Waits
    <3>. QED
      BY <1>1, <2>1, <3>1, <3>6, AskKept
  <2>2. ASSUME NEW c \in calls, c.op = "detail",
               Answer(c, EndsDetails(c, IF Ok(c) THEN [view EXCEPT !.sel = c.got, !.title = c.got] ELSE view))
        PROVE PageInv'
    <3>1. PICK v : v = IF Ok(c) THEN [view EXCEPT !.sel = c.got, !.title = c.got] ELSE view
      OBVIOUS
    <3>2. SameFlags(page, view, v)
      BY <1>1, <3>1, PageIs DEF SameFlags
    <3>. QED
      BY <2>2, <3>1, <3>2, <1>1, DetailsKept
  <2>. QED
    BY <1>4, <2>1, <2>2 DEF VaultOpen, Answered
<1>5. CASE VaultSearch
  <2>1. ASSUME Local([view EXCEPT !.hits = {}]) PROVE PageInv'
    <3>1. SameFlags(page, view, [view EXCEPT !.hits = {}])
      BY <1>1, PageIs DEF SameFlags
    <3>. QED
      BY <2>1, <3>1, LocalKept
  <2>2. ASSUME Ask([List("none") EXCEPT !.op = "search"], view) PROVE PageInv'
    <3>1. SameFlags(page, view, view)
      BY DEF SameFlags
    <3>2. PICK d : d = [List("none") EXCEPT !.op = "search"]
      OBVIOUS
    <3>3. DOMAIN d = CallFields /\ d.tail = "none" /\ TailOK(page, d.op, "none")
      BY <1>2, <3>2 DEF List, Call, Request, CallFields
    <3>4. Sent(page, d) /\ ~Marked(d)
      BY <1>1, <3>3 DEF Sent, Marked, CallFields
    <3>. QED
      BY <1>1, <2>2, <3>1, <3>2, <3>4, ReadKept
  <2>3. ASSUME NEW c \in calls, c.op = "search",
               Answer(c, IF Ok(c) THEN [view EXCEPT !.hits = DOMAIN c.rows] ELSE view)
        PROVE PageInv'
    <3>1. PICK w : w = IF Ok(c) THEN [view EXCEPT !.hits = DOMAIN c.rows] ELSE view
      OBVIOUS
    <3>2. DOMAIN w = DOMAIN view /\ w.busy = view.busy /\ w.loading = view.loading
      BY <3>1, PageIs
    <3>3. c.tail = "none" /\ c.op \notin LoadOps
      BY <1>2, <2>3, PageIs DEF LoadOps
    <3>. QED
      BY <1>1, <2>3, <3>1, <3>2, <3>3, PlainKept
  <2>. QED
    BY <1>5, <2>1, <2>2, <2>3 DEF VaultSearch, Answered
<1>6. CASE VaultForm
  <2>1. ASSUME Local([view EXCEPT !.open = TRUE]) PROVE PageInv'
    <3>1. SameFlags(page, view, [view EXCEPT !.open = TRUE])
      BY <1>1, PageIs DEF SameFlags
    <3>. QED
      BY <2>1, <3>1, LocalKept
  <2>2. ASSUME Local([view EXCEPT !.open = FALSE]) PROVE PageInv'
    <3>1. SameFlags(page, view, [view EXCEPT !.open = FALSE])
      BY <1>1, PageIs DEF SameFlags
    <3>. QED
      BY <2>2, <3>1, LocalKept
  <2>. QED
    BY <1>6, <2>1, <2>2 DEF VaultForm
<1>7. CASE VaultPut
  <2>1. ASSUME NEW i, NEW k,
               Ask([Call("put", "upsert", i) EXCEPT !.cap = k], [view EXCEPT !.title = i])
        PROVE PageInv'
    <3>1. SameFlags(page, view, [view EXCEPT !.title = i])
      BY <1>1, PageIs DEF SameFlags
    <3>2. PICK d : d = [Call("put", "upsert", i) EXCEPT !.cap = k]
      OBVIOUS
    <3>3. DOMAIN d = CallFields /\ d.tail = "none" /\ TailOK(page, d.op, "none")
      BY <1>2, <3>2 DEF Call, Request, CallFields
    <3>4. Sent(page, d) /\ ~Marked(d)
      BY <1>1, <3>3 DEF Sent, Marked, CallFields
    <3>. QED
      BY <1>1, <2>1, <3>1, <3>2, <3>4, ReadKept
  <2>2. ASSUME NEW c \in calls, c.op = "put",
               AnswerThen(c, Loading([view EXCEPT !.sel = c.got, !.open = FALSE]), [List("none") EXCEPT !.cap = c.got])
        PROVE PageInv'
    <3>1. SameFlags(page, view, [view EXCEPT !.sel = c.got, !.open = FALSE])
      BY <1>1, PageIs DEF SameFlags
    <3>2. PICK d : d = [List("none") EXCEPT !.cap = c.got]
      OBVIOUS
    <3>3. d.tail = c.tail /\ d.op \in LoadOps /\ d.do \in Reads /\ DOMAIN d = CallFields /\ TailOK(page, d.op, d.tail)
      BY <1>2, <2>2, <3>2, PageIs DEF List, Call, Request, CallFields, LoadOps, Reads
    <3>4. Sent(page, d)
      BY <3>3 DEF Sent, CallFields
    <3>. QED
      BY <1>1, <2>2, <3>1, <3>2, <3>3, <3>4, ThenLoadKept
  <2>3. ASSUME NEW c \in calls, c.op = "put", Answer(c, view) PROVE PageInv'
    BY <1>1, <1>2, <2>3, PageIs, PlainKept DEF LoadOps
  <2>. QED
    BY <1>7, <2>1, <2>2, <2>3 DEF VaultPut, Answered
<1>8. CASE VaultSync
  <2>1. ASSUME Ask([Call("sync", "run", NoRow) EXCEPT !.cap = view.sel, !.tail = "syncing"], Flag(view, "syncing", "sync", NoRow))
        PROVE PageInv'
    <3>1. SameFlags(page, view, view)
      BY DEF SameFlags
    <3>2. PICK d : d = [Call("sync", "run", NoRow) EXCEPT !.cap = view.sel, !.tail = "syncing"]
      OBVIOUS
    <3>3. DOMAIN d = CallFields /\ d.tail = "syncing" /\ TailOK(page, d.op, "syncing")
      BY <1>2, <3>2 DEF Call, Request, CallFields
    <3>4. Sent(page, d)
      BY <1>1, <3>3 DEF Sent, CallFields
    <3>. QED
      BY <1>1, <2>1, <3>1, <3>2, <3>3, <3>4, FlagKept DEF SameFlags
  <2>2. ASSUME NEW c \in calls, c.op = "sync",
               AnswerThen(c, Loading(view), [List("syncing") EXCEPT !.cap = c.cap])
        PROVE PageInv'
    <3>1. SameFlags(page, view, view)
      BY DEF SameFlags
    <3>2. PICK d : d = [List("syncing") EXCEPT !.cap = c.cap]
      OBVIOUS
    <3>3. d.tail = c.tail /\ d.op \in LoadOps /\ d.do \in Reads /\ DOMAIN d = CallFields /\ TailOK(page, d.op, d.tail)
      BY <1>2, <2>2, <3>2, PageIs DEF List, Call, Request, CallFields, LoadOps, Reads
    <3>4. Sent(page, d)
      BY <3>3 DEF Sent, CallFields
    <3>. QED
      BY <1>1, <2>2, <3>1, <3>2, <3>3, <3>4, ThenLoadKept
  <2>3. ASSUME NEW c \in calls, c.op = "sync", Answer(c, Ends(view, "syncing")) PROVE PageInv'
    BY <1>1, <1>2, <2>3, PageIs, EndKept DEF LoadOps
  <2>. QED
    BY <1>8, <2>1, <2>2, <2>3 DEF VaultSync, Answered
<1>9. CASE RefreshWhen(~view.loading)
  BY <1>1, <1>2, <1>9, RefreshKept
<1>. QED
  BY <1>3, <1>4, <1>5, <1>6, <1>7, <1>8, <1>9 DEF VaultNext

LEMMA MemoryKept ==
  ASSUME PageInv, page = "memory", MemoryNext
  PROVE  PageInv'
<1>1. page \notin NumberedPages /\ page \notin OneAtATime /\ page \in Detailed /\ page # "overview"
  BY DEF NumberedPages, OneAtATime, Detailed
<1>2. \A op, tail : TailOK(page, op, tail) <=> tail = "none"
  BY DEF TailOK, Untagged
<1>3. CASE MemoryLoaded
  <2>1. ASSUME NEW c \in calls, NEW s, c.op = "list",
               Answer(c, [Loaded(view, c) EXCEPT !.sess = s])
        PROVE PageInv'
    <3>1. PICK v, u : v = Loaded(view, c) /\ u = [v EXCEPT !.sess = s]
      OBVIOUS
    <3>2. DOMAIN v = DOMAIN view /\ v.busy = view.busy /\ v.loading = FALSE
      BY <3>1, LoadedIs
    <3>3. DOMAIN u = DOMAIN view /\ u.busy = view.busy /\ u.loading = FALSE
      BY <3>1, <3>2, PageIs
    <3>. QED
      BY <1>1, <1>2, <2>1, <3>1, <3>3, PageIs, PlainKept
  <2>2. ASSUME NEW c \in calls, NEW s, NEW v, c.op = "list", v = [Loaded(view, c) EXCEPT !.sess = s],
               AnswerThen(c, DetailsLoading(v, c.cap), Details(c.cap, "none"))
        PROVE PageInv'
    <3>1. PICK u, d : u = Loaded(view, c) /\ d = Details(c.cap, "none")
      OBVIOUS
    <3>2. DOMAIN u = DOMAIN view /\ u.busy = view.busy /\ u.loading = FALSE
      BY <3>1, LoadedIs
    <3>3. DOMAIN v = DOMAIN view /\ v.busy = view.busy /\ v.loading = FALSE
      BY <2>2, <3>1, <3>2, PageIs
    <3>4. DOMAIN d = CallFields /\ d.op = "detail" /\ d.tail = "none" /\ TailOK(page, "detail", "none") /\ c.tail = "none"
      BY <1>2, <2>2, <3>1, PageIs DEF Details, Call, Request, CallFields
    <3>5. Sent(page, d) /\ (\A t : Holds(page, c, t) => Holds(page, d, t)) /\ Holds(page, d, "detail")
      BY <1>1, <2>2, <3>4 DEF Sent, Holds, CallFields
    <3>. QED
      BY <1>1, <2>2, <3>1, <3>3, <3>5, ThenFlagKept DEF DetailsLoading
  <2>. QED
    BY <1>3, <2>1, <2>2 DEF MemoryLoaded, Answered
<1>4. CASE MemoryOpen
  <2>1. ASSUME NEW i, Ask(Details(i, "none"), DetailsLoading(view, i)) PROVE PageInv'
    <3>1. PICK v, d, w, t : /\ v = view /\ d = Details(i, "none")
                            /\ w = DetailsLoading(v, i) /\ t = <<"detail", "detail", i>>
      OBVIOUS
    <3>2. DOMAIN v = DOMAIN view /\ v.busy = view.busy /\ v.loading = view.loading
      BY <3>1, PageIs
    <3>3. DOMAIN w = DOMAIN view /\ w.busy = {b \in view.busy : b[1] # "detail"} \cup {t} /\ w.loading = view.loading
      BY <3>1, <3>2, PageIs DEF DetailsLoading, Flag
    <3>4. DOMAIN d = CallFields /\ d.op = "detail" /\ d.tail = "none" /\ TailOK(page, "detail", "none")
      BY <1>2, <3>1 DEF Details, Call, Request, CallFields
    <3>5. Sent(page, d) /\ Holds(page, d, "detail") /\ t[1] = "detail"
      BY <1>1, <3>1, <3>4 DEF Sent, Holds, CallFields
    <3>6. Asks(page, d, view, w)
      BY <1>1, <3>3, <3>5, PageIs DEF Asks, Shape, StillWaits, Waits
    <3>. QED
      BY <1>1, <2>1, <3>1, <3>6, AskKept
  <2>2. ASSUME NEW c \in calls, c.op = "detail",
               Answer(c, EndsDetails(c, IF Ok(c) THEN [view EXCEPT !.sel = c.got, !.text = c.got] ELSE view))
        PROVE PageInv'
    <3>1. PICK v : v = IF Ok(c) THEN [view EXCEPT !.sel = c.got, !.text = c.got] ELSE view
      OBVIOUS
    <3>2. SameFlags(page, view, v)
      BY <1>1, <3>1, PageIs DEF SameFlags
    <3>. QED
      BY <2>2, <3>1, <3>2, <1>1, DetailsKept
  <2>. QED
    BY <1>4, <2>1, <2>2 DEF MemoryOpen, Answered
<1>5. CASE MemoryForm
  <2>1. ASSUME Local([view EXCEPT !.open = TRUE]) PROVE PageInv'
    <3>1. SameFlags(page, view, [view EXCEPT !.open = TRUE])
      BY <1>1, PageIs DEF SameFlags
    <3>. QED
      BY <2>1, <3>1, LocalKept
  <2>2. ASSUME Local([view EXCEPT !.open = FALSE]) PROVE PageInv'
    <3>1. SameFlags(page, view, [view EXCEPT !.open = FALSE])
      BY <1>1, PageIs DEF SameFlags
    <3>. QED
      BY <2>2, <3>1, LocalKept
  <2>. QED
    BY <1>5, <2>1, <2>2 DEF MemoryForm
<1>6. CASE MemoryPost
  <2>1. ASSUME NEW i, Ask(Call("create", "create", i), view) PROVE PageInv'
    BY <1>1, <1>2, <2>1, PlainAskKept DEF SameFlags
  <2>2. ASSUME NEW c \in calls, c.op = "create",
               AnswerThen(c, Loading([view EXCEPT !.text = NoRow, !.open = FALSE]), [List("none") EXCEPT !.cap = c.got])
        PROVE PageInv'
    <3>1. SameFlags(page, view, [view EXCEPT !.text = NoRow, !.open = FALSE])
      BY <1>1, PageIs DEF SameFlags
    <3>2. PICK d : d = [List("none") EXCEPT !.cap = c.got]
      OBVIOUS
    <3>3. d.tail = c.tail /\ d.op \in LoadOps /\ d.do \in Reads /\ DOMAIN d = CallFields /\ TailOK(page, d.op, d.tail)
      BY <1>2, <2>2, <3>2, PageIs DEF List, Call, Request, CallFields, LoadOps, Reads
    <3>4. Sent(page, d)
      BY <3>3 DEF Sent, CallFields
    <3>. QED
      BY <1>1, <2>2, <3>1, <3>2, <3>3, <3>4, ThenLoadKept
  <2>3. ASSUME NEW c \in calls, c.op = "create", Answer(c, view) PROVE PageInv'
    BY <1>1, <1>2, <2>3, PageIs, PlainKept DEF LoadOps
  <2>. QED
    BY <1>6, <2>1, <2>2, <2>3 DEF MemoryPost, Answered
<1>7. CASE MemorySave
  <2>1. ASSUME Ask([Call("save", "put", view.sel) EXCEPT !.cap = view.text], view) PROVE PageInv'
    <3>1. SameFlags(page, view, view)
      BY DEF SameFlags
    <3>2. PICK d : d = [Call("save", "put", view.sel) EXCEPT !.cap = view.text]
      OBVIOUS
    <3>3. DOMAIN d = CallFields /\ d.tail = "none" /\ TailOK(page, d.op, "none")
      BY <1>2, <3>2 DEF Call, Request, CallFields
    <3>4. Sent(page, d) /\ ~Marked(d)
      BY <1>1, <3>3 DEF Sent, Marked, CallFields
    <3>. QED
      BY <1>1, <2>1, <3>1, <3>2, <3>4, ReadKept
  <2>2. ASSUME NEW c \in calls, c.op = "save",
               AnswerThen(c, Loading([view EXCEPT !.sel = c.got]), List("none"))
        PROVE PageInv'
    <3>1. SameFlags(page, view, [view EXCEPT !.sel = c.got])
      BY <1>1, PageIs DEF SameFlags
    <3>2. PICK d : d = List("none")
      OBVIOUS
    <3>3. d.tail = c.tail /\ d.op \in LoadOps /\ d.do \in Reads /\ DOMAIN d = CallFields /\ TailOK(page, d.op, d.tail)
      BY <1>2, <2>2, <3>2, PageIs DEF List, Call, Request, CallFields, LoadOps, Reads
    <3>4. Sent(page, d)
      BY <3>3 DEF Sent, CallFields
    <3>. QED
      BY <1>1, <2>2, <3>1, <3>2, <3>3, <3>4, ThenLoadKept
  <2>3. ASSUME NEW c \in calls, c.op = "save", Answer(c, view) PROVE PageInv'
    BY <1>1, <1>2, <2>3, PageIs, PlainKept DEF LoadOps
  <2>. QED
    BY <1>7, <2>1, <2>2, <2>3 DEF MemorySave, Answered
<1>8. CASE MemoryRemove
  <2>1. ASSUME NEW i, Ask(Call("delete", "delete", i), view) PROVE PageInv'
    BY <1>1, <1>2, <2>1, PlainAskKept DEF SameFlags
  <2>2. ASSUME NEW c \in calls, c.op = "delete",
               AnswerThen(c, Loading([view EXCEPT !.sel = NoRow, !.text = NoRow]), List("none"))
        PROVE PageInv'
    <3>1. SameFlags(page, view, [view EXCEPT !.sel = NoRow, !.text = NoRow])
      BY <1>1, PageIs DEF SameFlags
    <3>2. PICK d : d = List("none")
      OBVIOUS
    <3>3. d.tail = c.tail /\ d.op \in LoadOps /\ d.do \in Reads /\ DOMAIN d = CallFields /\ TailOK(page, d.op, d.tail)
      BY <1>2, <2>2, <3>2, PageIs DEF List, Call, Request, CallFields, LoadOps, Reads
    <3>4. Sent(page, d)
      BY <3>3 DEF Sent, CallFields
    <3>. QED
      BY <1>1, <2>2, <3>1, <3>2, <3>3, <3>4, ThenLoadKept
  <2>3. ASSUME NEW c \in calls, c.op = "delete", Answer(c, view) PROVE PageInv'
    BY <1>1, <1>2, <2>3, PageIs, PlainKept DEF LoadOps
  <2>. QED
    BY <1>8, <2>1, <2>2, <2>3 DEF MemoryRemove, Answered
<1>9. CASE RefreshWhen(~view.loading)
  BY <1>1, <1>2, <1>9, RefreshKept
<1>. QED
  BY <1>3, <1>4, <1>5, <1>6, <1>7, <1>8, <1>9 DEF MemoryNext

LEMMA KgKept ==
  ASSUME PageInv, page = "kg", KgNext
  PROVE  PageInv'
<1>1. page \notin NumberedPages /\ page \notin OneAtATime /\ page \in Detailed /\ page # "overview"
  BY DEF NumberedPages, OneAtATime, Detailed
<1>2. \A op, tail : TailOK(page, op, tail) <=> (op = "graph" => tail = "graph")
  BY DEF TailOK, Untagged
<1>3. CASE ListArrives
  BY <1>1, <1>2, <1>3, ListArrivesKept
<1>4. CASE KgSelect
  <2>1. ASSUME NEW q, Local([NoGraph(view) EXCEPT !.q = q]) PROVE PageInv'
    <3>1. PICK v, w : v = NoGraph(view) /\ w = [v EXCEPT !.q = q]
      OBVIOUS
    <3>2. DOMAIN v = DOMAIN view /\ v.loading = view.loading /\ v.busy \subseteq view.busy
      BY <3>1, PageIs DEF NoGraph, Ends
    <3>3. DOMAIN w = DOMAIN view /\ w.loading = view.loading /\ w.busy \subseteq view.busy
      BY <3>1, <3>2, PageIs
    <3>. QED
      BY <1>1, <2>1, <3>1, <3>3, ForgetKept
  <2>2. ASSUME NEW q, Ask([GraphCall EXCEPT !.arg = q], GraphLoading([view EXCEPT !.q = q])) PROVE PageInv'
    <3>1. SameFlags(page, view, [view EXCEPT !.q = q])
      BY <1>1, PageIs DEF SameFlags
    <3>2. PICK d : d = [GraphCall EXCEPT !.arg = q]
      OBVIOUS
    <3>3. DOMAIN d = CallFields /\ d.tail = "graph" /\ TailOK(page, d.op, "graph")
      BY <1>2, <3>2 DEF GraphCall, Call, Request, CallFields
    <3>4. Sent(page, d)
      BY <1>1, <3>3 DEF Sent, CallFields
    <3>. QED
      BY <1>1, <2>2, <3>1, <3>2, <3>3, <3>4, FlagKept DEF SameFlags, GraphLoading
  <2>. QED
    BY <1>4, <2>1, <2>2 DEF KgSelect
<1>5. CASE KgRefresh
  <2>1. ASSUME Ask(List("none"), Loading(view)) PROVE PageInv'
    <3>1. SameFlags(page, view, view)
      BY DEF SameFlags
    <3>2. PICK d : d = List("none")
      OBVIOUS
    <3>3. DOMAIN d = CallFields /\ d.tail = "none" /\ d.op \in LoadOps /\ d.do \in Reads /\ TailOK(page, d.op, "none")
      BY <1>2, <3>2 DEF List, Call, Request, CallFields, LoadOps, Reads
    <3>4. Sent(page, d) /\ ~Marked(d)
      BY <3>3 DEF Sent, Marked, CallFields
    <3>. QED
      BY <1>1, <2>1, <3>1, <3>2, <3>3, <3>4, LoadKept
  <2>2. ASSUME AskBoth(List("none"), GraphCall, GraphLoading(Loading(view))) PROVE PageInv'
    <3>1. PICK c, d : c = List("none") /\ d = GraphCall
      OBVIOUS
    <3>2. /\ DOMAIN c = CallFields /\ c.op \in LoadOps /\ TailOK(page, c.op, c.tail)
          /\ DOMAIN d = CallFields /\ d.tail = "graph" /\ TailOK(page, d.op, d.tail)
      BY <1>2, <3>1 DEF GraphCall, List, Call, Request, CallFields, LoadOps
    <3>3. Sent(page, c) /\ Sent(page, d)
      BY <1>1, <3>2 DEF Sent, CallFields
    <3>. QED
      BY <1>1, <2>2, <3>1, <3>2, <3>3, BothKept DEF GraphLoading
  <2>3. ASSUME Ask(GraphCall, GraphLoading(view)) PROVE PageInv'
    <3>1. SameFlags(page, view, view)
      BY DEF SameFlags
    <3>2. PICK d : d = GraphCall
      OBVIOUS
    <3>3. DOMAIN d = CallFields /\ d.tail = "graph" /\ TailOK(page, d.op, "graph")
      BY <1>2, <3>2 DEF GraphCall, Call, Request, CallFields
    <3>4. Sent(page, d)
      BY <1>1, <3>3 DEF Sent, CallFields
    <3>. QED
      BY <1>1, <2>3, <3>1, <3>2, <3>3, <3>4, FlagKept DEF SameFlags, GraphLoading
  <2>4. ASSUME Local(NoGraph(view)) PROVE PageInv'
    <3>1. PICK v, w : v = NoGraph(view) /\ w = v
      OBVIOUS
    <3>2. DOMAIN v = DOMAIN view /\ v.loading = view.loading /\ v.busy \subseteq view.busy
      BY <3>1, PageIs DEF NoGraph, Ends
    <3>3. DOMAIN w = DOMAIN view /\ w.loading = view.loading /\ w.busy \subseteq view.busy
      BY <3>1, <3>2, PageIs
    <3>. QED
      BY <1>1, <2>4, <3>1, <3>3, ForgetKept
  <2>. QED
    BY <1>5, <2>1, <2>2, <2>3, <2>4 DEF KgRefresh
<1>6. CASE KgArrives
  <2>1. ASSUME NEW c \in calls, c.op = "graph",
               Answer(c, Ends(IF Ok(c) THEN [view EXCEPT !.of = c.got, !.gErr = "none"] ELSE [view EXCEPT !.gErr = c.st], "graph"))
        PROVE PageInv'
    <3>1. PICK v : v = IF Ok(c) THEN [view EXCEPT !.of = c.got, !.gErr = "none"] ELSE [view EXCEPT !.gErr = c.st]
      OBVIOUS
    <3>2. DOMAIN v = DOMAIN view /\ v.busy = view.busy /\ v.loading = view.loading
      BY <3>1, PageIs
    <3>3. c.tail = "graph"
      BY <1>2, <2>1, PageIs
    <3>. QED
      BY <1>1, <2>1, <3>1, <3>2, <3>3, EndKept DEF LoadOps
  <2>. QED
    BY <1>6, <2>1 DEF KgArrives, Answered
<1>7. CASE KgOpen
  <2>1. ASSUME NEW i, Ask(Details(i, "none"), DetailsLoading([view EXCEPT !.node = i], i)) PROVE PageInv'
    <3>1. PICK v, d, w, t : /\ v = [view EXCEPT !.node = i] /\ d = Details(i, "none")
                            /\ w = DetailsLoading(v, i) /\ t = <<"detail", "detail", i>>
      OBVIOUS
    <3>2. DOMAIN v = DOMAIN view /\ v.busy = view.busy /\ v.loading = view.loading
      BY <3>1, PageIs
    <3>3. DOMAIN w = DOMAIN view /\ w.busy = {b \in view.busy : b[1] # "detail"} \cup {t} /\ w.loading = view.loading
      BY <3>1, <3>2, PageIs DEF DetailsLoading, Flag
    <3>4. DOMAIN d = CallFields /\ d.op = "detail" /\ d.tail = "none" /\ TailOK(page, "detail", "none")
      BY <1>2, <3>1 DEF Details, Call, Request, CallFields
    <3>5. Sent(page, d) /\ Holds(page, d, "detail") /\ t[1] = "detail"
      BY <1>1, <3>1, <3>4 DEF Sent, Holds, CallFields
    <3>6. Asks(page, d, view, w)
      BY <1>1, <3>3, <3>5, PageIs DEF Asks, Shape, StillWaits, Waits
    <3>. QED
      BY <1>1, <2>1, <3>1, <3>6, AskKept
  <2>2. ASSUME NEW c \in calls, c.op = "detail",
               Answer(c, EndsDetails(c, IF Ok(c) THEN [view EXCEPT !.det = c.got] ELSE view))
        PROVE PageInv'
    <3>1. PICK v : v = IF Ok(c) THEN [view EXCEPT !.det = c.got] ELSE view
      OBVIOUS
    <3>2. SameFlags(page, view, v)
      BY <1>1, <3>1, PageIs DEF SameFlags
    <3>. QED
      BY <2>2, <3>1, <3>2, <1>1, DetailsKept
  <2>. QED
    BY <1>7, <2>1, <2>2 DEF KgOpen, Answered
<1>. QED
  BY <1>3, <1>4, <1>5, <1>6, <1>7 DEF KgNext

LEMMA StorageKept ==
  ASSUME PageInv, page = "storage", StorageNext
  PROVE  PageInv'
<1>1. page \notin NumberedPages /\ page \notin OneAtATime /\ page \notin Detailed /\ page # "overview"
  BY DEF NumberedPages, OneAtATime, Detailed
<1>2. \A op, tail : TailOK(page, op, tail) <=> 
        /\ tail \in {"none", "busy"}
        /\ op # "list" => tail = "busy"
  BY DEF TailOK, Untagged
<1>3. CASE StorageLoaded
  <2>1. ASSUME NEW c \in calls, NEW use, c.op = "list",
               Answer(c, Ends(IF Ok(c) THEN [Loaded(view, c) EXCEPT !.at = c.arg, !.use = use] ELSE Loaded(view, c), c.tail))
        PROVE PageInv'
    <3>1. PICK v, u : v = Loaded(view, c) /\ u = IF Ok(c) THEN [v EXCEPT !.at = c.arg, !.use = use] ELSE v
      OBVIOUS
    <3>2. DOMAIN v = DOMAIN view /\ v.busy = view.busy /\ v.loading = FALSE
      BY <3>1, LoadedIs
    <3>3. DOMAIN u = DOMAIN view /\ u.busy = view.busy /\ u.loading = FALSE
      BY <3>1, <3>2, PageIs
    <3>. QED
      BY <1>1, <1>2, <2>1, <3>1, <3>3, PageIs, EndKept
  <2>. QED
    BY <1>3, <2>1 DEF StorageLoaded, Answered
<1>4. CASE StorageOpenDir
  <2>1. ASSUME NEW dir,
               Ask(DirList(dir, "none"), Loading([CloseDialog(view) EXCEPT !.path = dir, !.sel = NoRow, !.pre = NoRow]))
        PROVE PageInv'
    <3>1. SameFlags(page, view, [CloseDialog(view) EXCEPT !.path = dir, !.sel = NoRow, !.pre = NoRow])
      BY <1>1, PageIs DEF SameFlags, CloseDialog
    <3>2. PICK d : d = DirList(dir, "none")
      OBVIOUS
    <3>3. DOMAIN d = CallFields /\ d.tail = "none" /\ d.op \in LoadOps /\ d.do \in Reads /\ TailOK(page, d.op, "none")
      BY <1>2, <3>2 DEF DirList, List, Call, Request, CallFields, LoadOps, Reads
    <3>4. Sent(page, d) /\ ~Marked(d)
      BY <3>3 DEF Sent, Marked, CallFields
    <3>. QED
      BY <1>1, <2>1, <3>1, <3>2, <3>3, <3>4, LoadKept
  <2>. QED
    BY <1>4, <2>1 DEF StorageOpenDir
<1>5. CASE StorageOpenFile
  <2>1. ASSUME NEW i,
               Ask([Call("preview", "get", i) EXCEPT !.tail = "busy"], Flag([CloseDialog(view) EXCEPT !.sel = i], "busy", "preview", i))
        PROVE PageInv'
    <3>1. SameFlags(page, view, [CloseDialog(view) EXCEPT !.sel = i])
      BY <1>1, PageIs DEF SameFlags, CloseDialog
    <3>2. PICK d : d = [Call("preview", "get", i) EXCEPT !.tail = "busy"]
      OBVIOUS
    <3>3. DOMAIN d = CallFields /\ d.tail = "busy" /\ TailOK(page, d.op, "busy")
      BY <1>2, <3>2 DEF Call, Request, CallFields
    <3>4. Sent(page, d)
      BY <1>1, <3>3 DEF Sent, CallFields
    <3>. QED
      BY <1>1, <2>1, <3>1, <3>2, <3>3, <3>4, FlagKept DEF SameFlags
  <2>2. ASSUME NEW c \in calls, NEW k, c.op = "preview", Answer(c, Ends([view EXCEPT !.pre = k], "busy")) PROVE PageInv'
    <3>1. SameFlags(page, view, [view EXCEPT !.pre = k])
      BY <1>1, PageIs DEF SameFlags
    <3>2. c.tail = "busy" /\ c.op \notin LoadOps
      BY <1>2, <2>2, PageIs DEF LoadOps
    <3>. QED
      BY <1>1, <2>2, <3>1, <3>2, EndKept DEF SameFlags
  <2>. QED
    BY <1>5, <2>1, <2>2 DEF StorageOpenFile, Answered
<1>6. CASE StorageTransfer
  <2>1. ASSUME Ask([Call("upload", "create", NoRow) EXCEPT !.q = view.path, !.tail = "busy"], Flag(view, "busy", "upload", NoRow))
        PROVE PageInv'
    <3>1. SameFlags(page, view, view)
      BY DEF SameFlags
    <3>2. PICK d : d = [Call("upload", "create", NoRow) EXCEPT !.q = view.path, !.tail = "busy"]
      OBVIOUS
    <3>3. DOMAIN d = CallFields /\ d.tail = "busy" /\ TailOK(page, d.op, "busy")
      BY <1>2, <3>2 DEF Call, Request, CallFields
    <3>4. Sent(page, d)
      BY <1>1, <3>3 DEF Sent, CallFields
    <3>. QED
      BY <1>1, <2>1, <3>1, <3>2, <3>3, <3>4, FlagKept DEF SameFlags
  <2>2. ASSUME NEW i, Write("download", "run", i, "busy") PROVE PageInv'
    BY <1>1, <1>2, <2>2, WriteKept
  <2>3. ASSUME NEW c \in calls, c.op = "upload",
               AnswerThen(c, Loading(view), DirList(c.q, "busy"))
        PROVE PageInv'
    <3>1. SameFlags(page, view, view)
      BY DEF SameFlags
    <3>2. PICK d : d = DirList(c.q, "busy")
      OBVIOUS
    <3>3. d.tail = c.tail /\ d.op \in LoadOps /\ d.do \in Reads /\ DOMAIN d = CallFields /\ TailOK(page, d.op, d.tail)
      BY <1>2, <2>3, <3>2, PageIs DEF DirList, List, Call, Request, CallFields, LoadOps, Reads
    <3>4. Sent(page, d)
      BY <3>3 DEF Sent, CallFields
    <3>. QED
      BY <1>1, <2>3, <3>1, <3>2, <3>3, <3>4, ThenLoadKept
  <2>4. ASSUME NEW c \in calls, c.op \in {"upload", "download"}, Answer(c, Ends(view, "busy")) PROVE PageInv'
    BY <1>1, <1>2, <2>4, PageIs, EndKept DEF LoadOps
  <2>. QED
    BY <1>6, <2>1, <2>2, <2>3, <2>4 DEF StorageTransfer, Answered
<1>7. CASE StorageRemove
  <2>1. ASSUME Local(CloseDialog(view)) PROVE PageInv'
    <3>1. SameFlags(page, view, CloseDialog(view))
      BY <1>1, PageIs DEF SameFlags, CloseDialog
    <3>. QED
      BY <2>1, <3>1, LocalKept
  <2>2. ASSUME Ask([Call("delete", "delete", view.ask) EXCEPT !.cap = view.sel, !.q = view.path, !.tail = "busy"], Flag(view, "busy", "delete", view.ask))
        PROVE PageInv'
    <3>1. SameFlags(page, view, view)
      BY DEF SameFlags
    <3>2. PICK d : d = [Call("delete", "delete", view.ask) EXCEPT !.cap = view.sel, !.q = view.path, !.tail = "busy"]
      OBVIOUS
    <3>3. DOMAIN d = CallFields /\ d.tail = "busy" /\ TailOK(page, d.op, "busy")
      BY <1>2, <3>2 DEF Call, Request, CallFields
    <3>4. Sent(page, d)
      BY <1>1, <3>3 DEF Sent, CallFields
    <3>. QED
      BY <1>1, <2>2, <3>1, <3>2, <3>3, <3>4, FlagKept DEF SameFlags
  <2>3. ASSUME NEW c \in calls, c.op = "delete", Answer(c, Ends(view, "busy")) PROVE PageInv'
    BY <1>1, <1>2, <2>3, PageIs, EndKept DEF LoadOps
  <2>4. ASSUME NEW c \in calls, NEW v, c.op = "delete",
               v = IF c.cap = c.arg THEN [view EXCEPT !.sel = NoRow, !.pre = NoRow] ELSE view,
               AnswerThen(c, Loading(CloseDialog(v)), DirList(c.q, "busy"))
        PROVE PageInv'
    <3>1. SameFlags(page, view, v)
      BY <1>1, <2>4, PageIs DEF SameFlags
    <3>2. SameFlags(page, view, CloseDialog(v))
      BY <1>1, <3>1, PageIs DEF SameFlags, CloseDialog
    <3>3. PICK d : d = DirList(c.q, "busy")
      OBVIOUS
    <3>4. d.tail = c.tail /\ d.op \in LoadOps /\ DOMAIN d = CallFields /\ TailOK(page, d.op, d.tail)
      BY <1>2, <2>4, <3>3, PageIs DEF DirList, List, Call, Request, CallFields, LoadOps
    <3>5. Sent(page, d)
      BY <1>1, <3>4 DEF Sent, CallFields
    <3>. QED
      BY <1>1, <2>4, <3>2, <3>3, <3>4, <3>5, ThenLoadKept
  <2>. QED
    BY <1>7, <2>1, <2>2, <2>3, <2>4, DialogKept DEF StorageRemove, Answered
<1>8. CASE Ask(DirList(view.path, "none"), Loading(view))
  <2>1. ASSUME Ask(DirList(view.path, "none"), Loading(view)) PROVE PageInv'
    <3>1. SameFlags(page, view, view)
      BY DEF SameFlags
    <3>2. PICK d : d = DirList(view.path, "none")
      OBVIOUS
    <3>3. DOMAIN d = CallFields /\ d.tail = "none" /\ d.op \in LoadOps /\ d.do \in Reads /\ TailOK(page, d.op, "none")
      BY <1>2, <3>2 DEF DirList, List, Call, Request, CallFields, LoadOps, Reads
    <3>4. Sent(page, d) /\ ~Marked(d)
      BY <3>3 DEF Sent, Marked, CallFields
    <3>. QED
      BY <1>1, <2>1, <3>1, <3>2, <3>3, <3>4, LoadKept
  <2>. QED
    BY <1>8, <2>1 DEF LoadOps
<1>. QED
  BY <1>3, <1>4, <1>5, <1>6, <1>7, <1>8 DEF StorageNext

LEMMA ImpExpKept ==
  ASSUME PageInv, page = "impexp", ImpExpNext
  PROVE  PageInv'
<1>1. page \notin NumberedPages /\ page \notin OneAtATime /\ page \notin Detailed /\ page # "overview"
  BY DEF NumberedPages, OneAtATime, Detailed
<1>2. \A op, tail : TailOK(page, op, tail) <=> (op \in {"export", "preview"} => tail = "busy")
  BY DEF TailOK, Untagged
<1>3. CASE ListArrives \/ RefreshWhen(~view.loading /\ Idle)
  BY <1>1, <1>2, <1>3, ListArrivesKept, RefreshKept
<1>4. CASE ImpExpPick
  <2>1. ASSUME NEW s, Local([view EXCEPT !.sel = s]) PROVE PageInv'
    <3>1. SameFlags(page, view, [view EXCEPT !.sel = s])
      BY <1>1, PageIs DEF SameFlags
    <3>. QED
      BY <2>1, <3>1, LocalKept
  <2>2. ASSUME Local([view EXCEPT !.sure = ~@]) PROVE PageInv'
    <3>1. SameFlags(page, view, [view EXCEPT !.sure = ~@])
      BY <1>1, PageIs DEF SameFlags
    <3>. QED
      BY <2>2, <3>1, LocalKept
  <2>. QED
    BY <1>4, <2>1, <2>2 DEF ImpExpPick
<1>5. CASE ImpExpExport
  <2>1. ASSUME NEW i, Write("export", "run", i, "busy") PROVE PageInv'
    BY <1>1, <1>2, <2>1, WriteKept
  <2>2. ASSUME NEW c \in calls, c.op = "export",
               Answer(c, Ends([view EXCEPT !.export = @ \/ Ok(c)], "busy"))
        PROVE PageInv'
    <3>1. SameFlags(page, view, [view EXCEPT !.export = @ \/ Ok(c)])
      BY <1>1, PageIs DEF SameFlags
    <3>. QED
      BY <1>1, <1>2, <2>2, <3>1, PageIs, EndKept DEF LoadOps, SameFlags
  <2>. QED
    BY <1>5, <2>1, <2>2 DEF ImpExpExport, Answered
<1>6. CASE ImpExpFile
  <2>1. ASSUME NEW i, Write("preview", "run", i, "busy") PROVE PageInv'
    BY <1>1, <1>2, <2>1, WriteKept
  <2>2. ASSUME NEW c \in calls, NEW k, NEW v, c.op = "preview", v = [view EXCEPT !.pre = k],
               Answer(c, Ends(IF Ok(c) THEN [v EXCEPT !.job = NoRow] ELSE v, "busy"))
        PROVE PageInv'
    <3>1. PICK w : w = IF Ok(c) THEN [v EXCEPT !.job = NoRow] ELSE v
      OBVIOUS
    <3>2. DOMAIN v = DOMAIN view /\ v.busy = view.busy /\ v.loading = view.loading
      BY <2>2, PageIs
    <3>3. DOMAIN w = DOMAIN view /\ w.busy = view.busy /\ w.loading = view.loading
      BY <3>1, <3>2, PageIs
    <3>4. c.tail = "busy" /\ c.op \notin LoadOps
      BY <1>2, <2>2, PageIs DEF LoadOps
    <3>. QED
      BY <1>1, <2>2, <3>1, <3>3, <3>4, EndKept
  <2>. QED
    BY <1>6, <2>1, <2>2 DEF ImpExpFile, Answered
<1>7. CASE ImpExpImport
  <2>1. ASSUME NEW i, Write("rehearse", "run", i, "busy") PROVE PageInv'
    BY <1>1, <1>2, <2>1, WriteKept
  <2>2. ASSUME NEW i, Write("import", "upsert", i, "busy") PROVE PageInv'
    BY <1>1, <1>2, <2>2, WriteKept
  <2>3. ASSUME NEW c \in calls, c.op = "rehearse",
               WroteThenLoads(c, [view EXCEPT !.job = NoRow])
        PROVE PageInv'
    <3>1. SameFlags(page, view, [view EXCEPT !.job = NoRow])
      BY <1>1, PageIs DEF SameFlags
    <3>. QED
      BY <1>1, <1>2, <2>3, <3>1, PageIs, WroteKept DEF LoadOps
  <2>4. ASSUME NEW c \in calls, c.op = "import",
               WroteThenLoads(c, [view EXCEPT !.job = c.arg, !.sure = FALSE])
        PROVE PageInv'
    <3>1. SameFlags(page, view, [view EXCEPT !.job = c.arg, !.sure = FALSE])
      BY <1>1, PageIs DEF SameFlags
    <3>. QED
      BY <1>1, <1>2, <2>4, <3>1, PageIs, WroteKept DEF LoadOps
  <2>. QED
    BY <1>7, <2>1, <2>2, <2>3, <2>4 DEF ImpExpImport, Answered
<1>8. CASE ImpExpRollback
  <2>1. ASSUME NEW i, Write("rollback", "delete", i, "busy") PROVE PageInv'
    BY <1>1, <1>2, <2>1, WriteKept
  <2>2. ASSUME NEW c \in calls, c.op = "rollback",
               WroteThenLoads(c, [view EXCEPT !.job = NoRow])
        PROVE PageInv'
    <3>1. SameFlags(page, view, [view EXCEPT !.job = NoRow])
      BY <1>1, PageIs DEF SameFlags
    <3>. QED
      BY <1>1, <1>2, <2>2, <3>1, PageIs, WroteKept DEF LoadOps
  <2>. QED
    BY <1>8, <2>1, <2>2 DEF ImpExpRollback, Answered
<1>. QED
  BY <1>3, <1>4, <1>5, <1>6, <1>7, <1>8 DEF ImpExpNext

LEMMA BackupKept ==
  ASSUME PageInv, page = "backup", BackupNext
  PROVE  PageInv'
<1>1. page \notin NumberedPages /\ page \in OneAtATime /\ page \notin Detailed /\ page # "overview"
  BY DEF NumberedPages, OneAtATime, Detailed
<1>2. \A op, tail : TailOK(page, op, tail) <=> 
        /\ tail \in {"none", "busy"}
        /\ op = "try" => tail = "none"
        /\ op \notin {"list", "try"} => tail = "busy"
  BY DEF TailOK, Untagged
<1>3. Idle => \A d \in calls : ~Marked(d)
  BY <1>1, IdleIsFree
<1>4. CASE BackupLoaded
  <2>1. ASSUME NEW c \in calls, NEW can, c.op = "list",
               Answer(c, Ends(IF Ok(c) THEN [Loaded(view, c) EXCEPT !.can = can, !.keys = FALSE] ELSE Loaded(view, c), c.tail))
        PROVE PageInv'
    <3>1. PICK v, u : v = Loaded(view, c) /\ u = IF Ok(c) THEN [v EXCEPT !.can = can, !.keys = FALSE] ELSE v
      OBVIOUS
    <3>2. DOMAIN v = DOMAIN view /\ v.busy = view.busy /\ v.loading = FALSE
      BY <3>1, LoadedIs
    <3>3. DOMAIN u = DOMAIN view /\ u.busy = view.busy /\ u.loading = FALSE
      BY <3>1, <3>2, PageIs
    <3>. QED
      BY <1>1, <1>2, <2>1, <3>1, <3>3, PageIs, EndKept
  <2>. QED
    BY <1>4, <2>1 DEF BackupLoaded, Answered
<1>5. CASE BackupType
  <2>1. ASSUME NEW i, Local([view EXCEPT !.sel = i]) PROVE PageInv'
    <3>1. SameFlags(page, view, [view EXCEPT !.sel = i])
      BY <1>1, PageIs DEF SameFlags
    <3>. QED
      BY <2>1, <3>1, LocalKept
  <2>2. ASSUME NEW i, Local([view EXCEPT !.typed = i]) PROVE PageInv'
    <3>1. SameFlags(page, view, [view EXCEPT !.typed = i])
      BY <1>1, PageIs DEF SameFlags
    <3>. QED
      BY <2>2, <3>1, LocalKept
  <2>3. ASSUME Local([view EXCEPT !.keys = TRUE]) PROVE PageInv'
    <3>1. SameFlags(page, view, [view EXCEPT !.keys = TRUE])
      BY <1>1, PageIs DEF SameFlags
    <3>. QED
      BY <2>3, <3>1, LocalKept
  <2>. QED
    BY <1>5, <2>1, <2>2, <2>3 DEF BackupType
<1>6. CASE BackupCreate
  <2>1. ASSUME NEW i, Idle, Write("create", "create", i, "busy") PROVE PageInv'
    BY <1>1, <1>2, <1>3, <2>1, WriteKept DEF Reads
  <2>2. ASSUME NEW c \in calls, c.op = "create", WroteThenLoads(c, view) PROVE PageInv'
    <3>1. SameFlags(page, view, view)
      BY DEF SameFlags
    <3>. QED
      BY <1>1, <1>2, <2>2, <3>1, PageIs, WroteKept DEF LoadOps
  <2>. QED
    BY <1>6, <2>1, <2>2 DEF BackupCreate, Answered
<1>7. CASE BackupPlan
  <2>1. ASSUME NEW i, Idle, Write("plan", "get", i, "busy") PROVE PageInv'
    BY <1>1, <1>2, <1>3, <2>1, WriteKept DEF Reads
  <2>2. ASSUME NEW c \in calls, c.op = "plan",
               Answer(c, Ends(IF Ok(c) THEN [view EXCEPT !.plan = c.got, !.sel = c.got] ELSE view, "busy"))
        PROVE PageInv'
    <3>1. SameFlags(page, view, [view EXCEPT !.plan = c.got, !.sel = c.got])
      BY <1>1, PageIs DEF SameFlags
    <3>. QED
      BY <1>1, <1>2, <2>2, <3>1, PageIs, EndIfKept DEF LoadOps
  <2>. QED
    BY <1>7, <2>1, <2>2 DEF BackupPlan, Answered
<1>8. CASE BackupRun
  <2>1. ASSUME NEW i, Idle, Write("run", "run", i, "busy") PROVE PageInv'
    BY <1>1, <1>2, <1>3, <2>1, WriteKept DEF Reads
  <2>2. ASSUME NEW i, Idle, Write("run", "get", i, "busy") PROVE PageInv'
    BY <1>1, <1>2, <1>3, <2>2, WriteKept DEF Reads
  <2>3. ASSUME NEW c \in calls, c.op = "run", Answer(c, Ends(view, "busy")) PROVE PageInv'
    BY <1>1, <1>2, <2>3, PageIs, EndKept DEF LoadOps
  <2>. QED
    BY <1>8, <2>1, <2>2, <2>3 DEF BackupRun, Answered
<1>9. CASE BackupS3
  <2>1. ASSUME NEW i, Idle, Write("s3", "run", i, "busy") PROVE PageInv'
    BY <1>1, <1>2, <1>3, <2>1, WriteKept DEF Reads
  <2>2. ASSUME NEW i, Ask(Call("try", "run", i), view) PROVE PageInv'
    BY <1>1, <1>2, <2>2, PlainAskKept DEF SameFlags, Reads
  <2>3. ASSUME NEW c \in calls, c.op = "s3",
               Answer(c, Ends(IF Ok(c) THEN [view EXCEPT !.keys = FALSE] ELSE view, "busy"))
        PROVE PageInv'
    <3>1. SameFlags(page, view, [view EXCEPT !.keys = FALSE])
      BY <1>1, PageIs DEF SameFlags
    <3>. QED
      BY <1>1, <1>2, <2>3, <3>1, PageIs, EndIfKept DEF LoadOps
  <2>4. ASSUME NEW c \in calls, c.op = "try", Answer(c, view) PROVE PageInv'
    BY <1>1, <1>2, <2>4, PageIs, PlainKept DEF LoadOps
  <2>. QED
    BY <1>9, <2>1, <2>2, <2>3, <2>4 DEF BackupS3, Answered
<1>10. CASE RefreshWhen(~view.loading /\ Idle)
  BY <1>1, <1>2, <1>10, RefreshKept
<1>. QED
  BY <1>4, <1>5, <1>6, <1>7, <1>8, <1>9, <1>10 DEF BackupNext

----------------------------------------------------------------------------
(* The pages of PagesTools.  Those that number their loads wait for the newest one: *)
(* a handler raises the number with its request, and an older answer shows nothing. *)

LEMMA NextSeqIs ==
  ASSUME PageInv, page \in NumberedPages, NEW v, SameFlags(page, view, v)
  PROVE  /\ DOMAIN NextSeq(v) = DOMAIN view /\ NextSeq(v).busy = view.busy
         /\ NextSeq(v).seq = view.seq + 1
<1>1. PICK u : u = [v EXCEPT !.seq = @ + 1]
  OBVIOUS
<1>2. {"loading", "busy", "seq"} \subseteq DOMAIN v /\ DOMAIN v = DOMAIN view /\ v.busy = view.busy /\ v.seq = view.seq
  BY PageIs DEF SameFlags, Shape
<1>3. DOMAIN u = DOMAIN view /\ u.busy = view.busy /\ u.seq = view.seq + 1
  BY <1>1, <1>2
<1>. QED
  BY <1>1, <1>2, <1>3 DEF NextSeq, Loading

LEMMA NumberedAskKept ==
  ASSUME PageInv, page \in NumberedPages, page # "overview", NEW op \in LoadOps, NEW do, NEW q, NEW v,
         SameFlags(page, view, v), TailOK(page, op, "none"), Ask(Numbered(op, do, q), NextSeq(v))
  PROVE  PageInv'
<1>1. PICK c, w : c = Numbered(op, do, q) /\ w = NextSeq(v)
  OBVIOUS
<1>2. DOMAIN c = CallFields /\ c.op = op /\ c.tail = "none" /\ c.gen = view.seq + 1
  BY <1>1 DEF Numbered, Call, Request, CallFields
<1>3. page \notin OneAtATime
  BY DEF NumberedPages, OneAtATime
<1>4. Sent(page, c)
  BY <1>2, <1>3 DEF Sent, CallFields
<1>5. DOMAIN w = DOMAIN view /\ w.busy = view.busy /\ w.seq = view.seq + 1
  BY <1>1, NextSeqIs
<1>6. Asks(page, c, view, w)
  BY <1>2, <1>3, <1>4, <1>5, PageIs DEF Asks, Shape, Carries
<1>. QED
  BY <1>1, <1>3, <1>6, AskKept

LEMMA NumberedThenKept ==
  ASSUME PageInv, page \in NumberedPages, page # "overview", NEW c \in calls, c.tail = "none",
         NEW op \in LoadOps, NEW do, NEW q, NEW v,
         SameFlags(page, view, v), TailOK(page, op, "none"), AnswerThen(c, NextSeq(v), Numbered(op, do, q))
  PROVE  PageInv'
<1>1. PICK d, w : d = Numbered(op, do, q) /\ w = NextSeq(v)
  OBVIOUS
<1>2. DOMAIN d = CallFields /\ d.op = op /\ d.tail = "none" /\ d.gen = view.seq + 1
  BY <1>1 DEF Numbered, Call, Request, CallFields
<1>3. page \notin OneAtATime /\ page \notin Detailed
  BY DEF NumberedPages, OneAtATime, Detailed
<1>4. Sent(page, d)
  BY <1>2, <1>3 DEF Sent, CallFields
<1>5. DOMAIN w = DOMAIN view /\ w.busy = view.busy /\ w.seq = view.seq + 1
  BY <1>1, NextSeqIs
<1>6. Passes(page, c, d, view, w)
  BY <1>2, <1>3, <1>4, <1>5, PageIs DEF Passes, Shape, Carries, Holds
<1>. QED
  BY <1>1, <1>6, AnswerThenKept

\* An answer that changes nothing, being no load, or not the newest one.
LEMMA NumberedIdleKept ==
  ASSUME PageInv, page \in NumberedPages, page # "overview", NEW c \in calls, c.tail = "none", NEW w, Answer(c, w),
         SameFlags(page, view, w), c.op \notin LoadOps \/ c.gen # view.seq
  PROVE  PageInv'
<1>1. ~Carries(page, c, view) /\ page \notin OneAtATime /\ page \notin Detailed
  BY DEF Carries, NumberedPages, OneAtATime, Detailed
<1>2. Quits(page, c, view, w)
  BY <1>1, PageIs DEF Quits, SameFlags, Shape, StillWaits, Waits, Holds
<1>. QED
  BY <1>2, AnswerKept

\* The answer of the newest one, which is shown.
LEMMA NumberedShownKept ==
  ASSUME PageInv, page \in NumberedPages, page # "overview", NEW c \in calls, c.tail = "none", NEW w, Answer(c, w),
         DOMAIN w = DOMAIN view, w.busy = view.busy, w.loading = FALSE, w.seq = view.seq, w.shown = view.seq
  PROVE  PageInv'
<1>1. ~Waits(page, w) /\ page \notin OneAtATime /\ page \notin Detailed
  BY DEF Waits, NumberedPages, OneAtATime, Detailed
<1>2. Quits(page, c, view, w)
  BY <1>1, PageIs DEF Quits, Shape, Holds
<1>. QED
  BY <1>2, AnswerKept

LEMMA NumberedArrivesKept ==
  ASSUME PageInv, page \in NumberedPages, page # "overview", \A op, tail : TailOK(page, op, tail) <=> tail = "none",
         NumberedArrives
  PROVE  PageInv'
<1>1. PICK c \in calls :
        /\ c.op = "list"
        /\ Answer(c, IF c.gen # view.seq THEN view
                     ELSE [Loaded(view, c) EXCEPT !.shown = c.gen, !.of = IF Ok(c) THEN c.arg ELSE @])
  BY DEF NumberedArrives, Answered
<1>2. c.tail = "none"
  BY PageIs
<1>3. CASE c.gen # view.seq
  BY <1>1, <1>2, <1>3, NumberedIdleKept DEF SameFlags
<1>4. CASE c.gen = view.seq
  <2>1. PICK v, o : v = Loaded(view, c) /\ o = IF Ok(c) THEN c.arg ELSE v.of
    OBVIOUS
  <2>2. PICK w : w = [v EXCEPT !.shown = c.gen, !.of = o]
    OBVIOUS
  <2>3. DOMAIN v = DOMAIN view /\ v.busy = view.busy /\ v.loading = FALSE /\ v.seq = view.seq
    BY <2>1, PageIs DEF Loaded, Heard, Shape
  <2>4. DOMAIN w = DOMAIN view /\ w.busy = view.busy /\ w.loading = FALSE /\ w.seq = view.seq /\ w.shown = view.seq
    BY <1>4, <2>2, <2>3, PageIs DEF Shape
  <2>5. Answer(c, w)
    BY <1>1, <1>4, <2>1, <2>2
  <2>. QED
    BY <1>2, <2>4, <2>5, NumberedShownKept
<1>. QED
  BY <1>3, <1>4

LEMMA SkillsKept ==
  ASSUME PageInv, page = "skills", SkillsNext
  PROVE  PageInv'
<1>1. page \in NumberedPages /\ page \notin OneAtATime /\ page \notin Detailed /\ page # "overview"
  BY DEF NumberedPages, OneAtATime, Detailed
<1>2. \A op, tail : TailOK(page, op, tail) <=> tail = "none"
  BY DEF TailOK, Untagged
<1>3. \A k : SameFlags(page, view, [view EXCEPT !.q = k]) /\ SameFlags(page, view, [view EXCEPT !.open = k])
  BY <1>1, PageIs DEF SameFlags
<1>4. SameFlags(page, view, view) /\ "list" \in LoadOps /\ "health" \in LoadOps
  BY DEF SameFlags, LoadOps
<1>5. CASE NumberedArrives
  BY <1>1, <1>2, <1>5, NumberedArrivesKept
<1>6. CASE SkillsLoad
  BY <1>1, <1>2, <1>3, <1>4, <1>6, NumberedAskKept DEF SkillsLoad
<1>7. CASE SkillsForm
  BY <1>3, <1>7, LocalKept DEF SkillsForm
<1>8. CASE SkillsWrite
  <2>1. ASSUME NEW op \in {"create", "archive"}, NEW do, NEW i, Ask([Call(op, do, i) EXCEPT !.q = view.q], view) PROVE PageInv'
    <3>1. PICK c : c = [Call(op, do, i) EXCEPT !.q = view.q]
      OBVIOUS
    <3>2. DOMAIN c = CallFields /\ c.op = op /\ c.tail = "none"
      BY <3>1 DEF Call, Request, CallFields
    <3>3. Sent(page, c) /\ ~Marked(c)
      BY <1>1, <1>2, <3>2 DEF Sent, Marked, CallFields
    <3>. QED
      BY <1>1, <1>4, <2>1, <3>1, <3>3, ReadKept
  <2>2. ASSUME NEW c \in calls, c.op \in {"create", "archive"}, NEW v, v \in {[view EXCEPT !.open = FALSE], view},
               AnswerThen(c, NextSeq(v), Numbered("list", "list", c.q))
        PROVE PageInv'
    BY <1>1, <1>2, <1>3, <1>4, <2>2, PageIs, NumberedThenKept
  <2>3. ASSUME NEW c \in calls, c.op \in {"create", "archive"}, Answer(c, view) PROVE PageInv'
    <3>1. c.tail = "none" /\ c.op \notin LoadOps
      BY <1>2, <2>3, PageIs DEF LoadOps
    <3>. QED
      BY <1>1, <1>4, <2>3, <3>1, NumberedIdleKept
  <2>. QED
    BY <1>8, <2>1, <2>2, <2>3 DEF SkillsWrite, Answered
<1>. QED
  BY <1>5, <1>6, <1>7, <1>8 DEF SkillsNext

LEMMA MarketingKept ==
  ASSUME PageInv, page = "marketing", MarketingNext
  PROVE  PageInv'
<1>1. page \in NumberedPages /\ page \notin OneAtATime /\ page \notin Detailed /\ page # "overview"
  BY DEF NumberedPages, OneAtATime, Detailed
<1>2. \A op, tail : TailOK(page, op, tail) <=> tail = "none"
  BY DEF TailOK, Untagged
<1>3. \A k : SameFlags(page, view, [view EXCEPT !.q = k]) /\ SameFlags(page, view, [view EXCEPT !.open = k])
  BY <1>1, PageIs DEF SameFlags
<1>4. SameFlags(page, view, view) /\ "list" \in LoadOps /\ "health" \in LoadOps
  BY DEF SameFlags, LoadOps
<1>5. CASE NumberedArrives
  BY <1>1, <1>2, <1>5, NumberedArrivesKept
<1>6. CASE MarketingLoad
  BY <1>1, <1>2, <1>3, <1>4, <1>6, NumberedAskKept DEF MarketingLoad
<1>7. CASE MarketingForm
  BY <1>3, <1>7, LocalKept DEF MarketingForm
<1>8. CASE MarketingWrite
  <2>1. ASSUME NEW op \in {"create", "done"}, NEW do, NEW i, Ask([Call(op, do, i) EXCEPT !.q = view.q], view) PROVE PageInv'
    <3>1. PICK c : c = [Call(op, do, i) EXCEPT !.q = view.q]
      OBVIOUS
    <3>2. DOMAIN c = CallFields /\ c.op = op /\ c.tail = "none"
      BY <3>1 DEF Call, Request, CallFields
    <3>3. Sent(page, c) /\ ~Marked(c)
      BY <1>1, <1>2, <3>2 DEF Sent, Marked, CallFields
    <3>. QED
      BY <1>1, <1>4, <2>1, <3>1, <3>3, ReadKept
  <2>2. ASSUME NEW c \in calls, c.op \in {"create", "done"}, NEW v, v \in {[view EXCEPT !.open = FALSE], view},
               AnswerThen(c, NextSeq(v), Numbered("health", "run", c.q))
        PROVE PageInv'
    BY <1>1, <1>2, <1>3, <1>4, <2>2, PageIs, NumberedThenKept
  <2>3. ASSUME NEW c \in calls, c.op \in {"create", "done"}, Answer(c, view) PROVE PageInv'
    <3>1. c.tail = "none" /\ c.op \notin LoadOps
      BY <1>2, <2>3, PageIs DEF LoadOps
    <3>. QED
      BY <1>1, <1>4, <2>3, <3>1, NumberedIdleKept
  <2>. QED
    BY <1>8, <2>1, <2>2, <2>3 DEF MarketingWrite, Answered
<1>9. CASE MarketingHealth
  <2>1. PICK c \in calls :
          /\ c.op = "health"
          /\ IF c.gen # view.seq THEN Answer(c, view)
             ELSE IF Ok(c)
             THEN AnswerThen(c, [view EXCEPT !.online = "yes"], [Call("list", "list", c.arg) EXCEPT !.gen = c.gen])
             ELSE Answer(c, [view EXCEPT !.online = "no", !.err = "fail", !.loading = FALSE, !.shown = c.gen])
    BY <1>9 DEF MarketingHealth, Answered
  <2>2. c.tail = "none"
    BY <1>2, PageIs
  <2>3. CASE c.gen # view.seq
    BY <1>1, <1>4, <2>1, <2>2, <2>3, NumberedIdleKept
  <2>4. CASE c.gen = view.seq /\ Ok(c)
    <3>1. PICK w, d : w = [view EXCEPT !.online = "yes"] /\ d = [Call("list", "list", c.arg) EXCEPT !.gen = c.gen]
      OBVIOUS
    <3>2. DOMAIN d = CallFields /\ d.op = "list" /\ d.tail = "none" /\ d.gen = view.seq
      BY <2>4, <3>1 DEF Call, Request, CallFields
    <3>3. Sent(page, d)
      BY <1>1, <1>2, <3>2 DEF Sent, CallFields
    <3>4. DOMAIN w = DOMAIN view /\ w.busy = view.busy /\ w.seq = view.seq
      BY <1>1, <3>1, PageIs DEF Shape
    <3>5. Carries(page, d, w)
      BY <1>4, <3>2, <3>4 DEF Carries
    <3>6. Passes(page, c, d, view, w)
      BY <1>1, <2>2, <3>3, <3>4, <3>5, PageIs DEF Passes, Shape, Holds
    <3>. QED
      BY <2>1, <2>4, <3>1, <3>6, AnswerThenKept
  <2>5. CASE c.gen = view.seq /\ ~Ok(c)
    <3>1. PICK w : w = [view EXCEPT !.online = "no", !.err = "fail", !.loading = FALSE, !.shown = c.gen]
      OBVIOUS
    <3>2. DOMAIN w = DOMAIN view /\ w.busy = view.busy /\ w.loading = FALSE /\ w.seq = view.seq /\ w.shown = view.seq
      BY <1>1, <2>5, <3>1, PageIs DEF Shape
    <3>. QED
      BY <1>1, <2>1, <2>2, <2>5, <3>1, <3>2, NumberedShownKept
  <2>. QED
    BY <2>3, <2>4, <2>5
<1>. QED
  BY <1>5, <1>6, <1>7, <1>8, <1>9 DEF MarketingNext

LEMMA ToolsKept ==
  ASSUME PageInv, page = "tools", ToolsNext
  PROVE  PageInv'
<1>1. page \notin NumberedPages /\ page \notin OneAtATime /\ page \notin Detailed /\ page # "overview"
  BY DEF NumberedPages, OneAtATime, Detailed
<1>2. \A op, tail : TailOK(page, op, tail) <=> 
        /\ op = "tools" => tail = "tools"
        /\ op = "toggle" => tail = "none"
  BY DEF TailOK, Untagged
<1>3. CASE ListArrives
  BY <1>1, <1>2, <1>3, ListArrivesKept
<1>4. CASE ToolsSelect
  <2>1. ASSUME NEW q, Local(NoTools([view EXCEPT !.q = q])) PROVE PageInv'
    <3>1. PICK u, v, w : u = [view EXCEPT !.q = q] /\ v = [u EXCEPT !.of = NoRow, !.tErr = "none"] /\ w = NoTools(u)
      OBVIOUS
    <3>2. DOMAIN u = DOMAIN view /\ u.loading = view.loading /\ u.busy = view.busy
      BY <3>1, PageIs
    <3>3. DOMAIN v = DOMAIN view /\ v.loading = view.loading /\ v.busy = view.busy
      BY <3>1, <3>2, PageIs
    <3>4. DOMAIN w = DOMAIN view /\ w.loading = view.loading /\ w.busy \subseteq view.busy
      BY <3>1, <3>3, PageIs DEF NoTools, Ends
    <3>. QED
      BY <1>1, <2>1, <3>1, <3>4, ForgetKept
  <2>2. ASSUME NEW q, Ask(ToolsCall(q), ToolsLoading([view EXCEPT !.q = q])) PROVE PageInv'
    <3>1. SameFlags(page, view, [view EXCEPT !.q = q])
      BY <1>1, PageIs DEF SameFlags
    <3>2. PICK d : d = ToolsCall(q)
      OBVIOUS
    <3>3. DOMAIN d = CallFields /\ d.tail = "tools" /\ TailOK(page, d.op, "tools")
      BY <1>2, <3>2 DEF ToolsCall, Call, Request, CallFields
    <3>4. Sent(page, d)
      BY <1>1, <3>3 DEF Sent, CallFields
    <3>. QED
      BY <1>1, <2>2, <3>1, <3>2, <3>3, <3>4, FlagKept DEF SameFlags, ToolsLoading
  <2>. QED
    BY <1>4, <2>1, <2>2 DEF ToolsSelect
<1>5. CASE ToolsRefresh
  <2>1. ASSUME Ask(List("none"), NoTools(Loading(view))) PROVE PageInv'
    <3>1. PICK u, v, w, c : /\ u = Loading(view) /\ v = [u EXCEPT !.of = NoRow, !.tErr = "none"]
                            /\ w = NoTools(u) /\ c = List("none")
      OBVIOUS
    <3>2. DOMAIN u = DOMAIN view /\ u.busy = view.busy
      BY <3>1, PageIs DEF Loading
    <3>3. DOMAIN v = DOMAIN view /\ v.busy = view.busy
      BY <3>1, <3>2, PageIs
    <3>4. DOMAIN w = DOMAIN view /\ w.busy \subseteq view.busy
      BY <3>1, <3>3, PageIs DEF NoTools, Ends
    <3>5. DOMAIN c = CallFields /\ c.op \in LoadOps /\ TailOK(page, c.op, c.tail)
      BY <1>2, <3>1 DEF List, Call, Request, CallFields, LoadOps
    <3>6. Sent(page, c)
      BY <1>1, <3>5 DEF Sent, CallFields
    <3>7. Asks(page, c, view, w)
      BY <1>1, <3>4, <3>5, <3>6, PageIs DEF Asks, Shape, Carries
    <3>. QED
      BY <1>1, <2>1, <3>1, <3>7, AskKept
  <2>2. ASSUME NEW q, AskBoth(List("none"), ToolsCall(q), ToolsLoading(Loading(view))) PROVE PageInv'
    <3>1. PICK c, d : c = List("none") /\ d = ToolsCall(q)
      OBVIOUS
    <3>2. /\ DOMAIN c = CallFields /\ c.op \in LoadOps /\ TailOK(page, c.op, c.tail)
          /\ DOMAIN d = CallFields /\ d.tail = "tools" /\ TailOK(page, d.op, d.tail)
      BY <1>2, <3>1 DEF ToolsCall, List, Call, Request, CallFields, LoadOps
    <3>3. Sent(page, c) /\ Sent(page, d)
      BY <1>1, <3>2 DEF Sent, CallFields
    <3>. QED
      BY <1>1, <2>2, <3>1, <3>2, <3>3, BothKept DEF ToolsLoading
  <2>. QED
    BY <1>5, <2>1, <2>2 DEF ToolsRefresh
<1>6. CASE ToolsArrive
  <2>1. ASSUME NEW c \in calls, c.op = "tools",
               Answer(c, Ends(IF Ok(c) THEN [view EXCEPT !.of = c.got, !.tErr = "none"] ELSE [view EXCEPT !.tErr = c.st], "tools"))
        PROVE PageInv'
    <3>1. PICK v : v = IF Ok(c) THEN [view EXCEPT !.of = c.got, !.tErr = "none"] ELSE [view EXCEPT !.tErr = c.st]
      OBVIOUS
    <3>2. DOMAIN v = DOMAIN view /\ v.busy = view.busy /\ v.loading = view.loading
      BY <3>1, PageIs
    <3>3. c.tail = "tools"
      BY <1>2, <2>1, PageIs
    <3>. QED
      BY <1>1, <2>1, <3>1, <3>2, <3>3, EndKept DEF LoadOps
  <2>. QED
    BY <1>6, <2>1 DEF ToolsArrive, Answered
<1>7. CASE ToolsToggle
  <2>1. ASSUME Ask([Call("toggle", "put", view.q) EXCEPT !.cap = view.of], view) PROVE PageInv'
    <3>1. SameFlags(page, view, view)
      BY DEF SameFlags
    <3>2. PICK d : d = [Call("toggle", "put", view.q) EXCEPT !.cap = view.of]
      OBVIOUS
    <3>3. DOMAIN d = CallFields /\ d.tail = "none" /\ TailOK(page, d.op, "none")
      BY <1>2, <3>2 DEF Call, Request, CallFields
    <3>4. Sent(page, d) /\ ~Marked(d)
      BY <1>1, <3>3 DEF Sent, Marked, CallFields
    <3>. QED
      BY <1>1, <2>1, <3>1, <3>2, <3>4, ReadKept
  <2>2. ASSUME NEW c \in calls, c.op = "toggle", AnswerThen(c, ToolsLoading(view), ToolsCall(c.arg)) PROVE PageInv'
    <3>1. PICK d : d = ToolsCall(c.arg)
      OBVIOUS
    <3>2. DOMAIN d = CallFields /\ d.op = "tools" /\ d.tail = "tools" /\ TailOK(page, d.op, d.tail)
      BY <1>2, <3>1 DEF ToolsCall, Call, Request, CallFields
    <3>3. c.tail = "none" /\ c.op \notin LoadOps
      BY <1>2, <2>2, PageIs DEF LoadOps
    <3>4. Sent(page, d) /\ (\A t : Holds(page, c, t) => Holds(page, d, t)) /\ Holds(page, d, "tools")
      BY <1>1, <3>2, <3>3 DEF Sent, Holds, CallFields
    <3>. QED
      BY <1>1, <2>2, <3>1, <3>3, <3>4, ThenFlagKept DEF ToolsLoading
  <2>3. ASSUME NEW c \in calls, c.op = "toggle", Answer(c, view) PROVE PageInv'
    BY <1>1, <1>2, <2>3, PageIs, PlainKept DEF LoadOps
  <2>. QED
    BY <1>7, <2>1, <2>2, <2>3 DEF ToolsToggle, Answered
<1>. QED
  BY <1>3, <1>4, <1>5, <1>6, <1>7 DEF ToolsNext

LEMMA CronKept ==
  ASSUME PageInv, page = "cron", CronNext
  PROVE  PageInv'
<1>1. page \notin NumberedPages /\ page \notin OneAtATime /\ page \notin Detailed /\ page # "overview"
  BY DEF NumberedPages, OneAtATime, Detailed
<1>2. \A op, tail : TailOK(page, op, tail) <=> tail = "none"
  BY DEF TailOK, Untagged
<1>3. CASE CronLoaded
  <2>1. ASSUME NEW c \in calls, NEW s, c.op = "list",
               Answer(c, [Loaded(view, c) EXCEPT !.sess = s])
        PROVE PageInv'
    <3>1. PICK v, u : v = Loaded(view, c) /\ u = [v EXCEPT !.sess = s]
      OBVIOUS
    <3>2. DOMAIN v = DOMAIN view /\ v.busy = view.busy /\ v.loading = FALSE
      BY <3>1, LoadedIs
    <3>3. DOMAIN u = DOMAIN view /\ u.busy = view.busy /\ u.loading = FALSE
      BY <3>1, <3>2, PageIs
    <3>. QED
      BY <1>1, <1>2, <2>1, <3>1, <3>3, PageIs, PlainKept
  <2>. QED
    BY <1>3, <2>1 DEF CronLoaded, Answered
<1>4. CASE CronForm
  <2>1. ASSUME NEW o, Local([view EXCEPT !.open = o]) PROVE PageInv'
    <3>1. SameFlags(page, view, [view EXCEPT !.open = o])
      BY <1>1, PageIs DEF SameFlags
    <3>. QED
      BY <2>1, <3>1, LocalKept
  <2>. QED
    BY <1>4, <2>1 DEF CronForm
<1>5. CASE CronWrite
  <2>1. ASSUME NEW op, NEW do, NEW i, Ask(Call(op, do, i), view) PROVE PageInv'
    BY <1>1, <1>2, <2>1, PlainAskKept DEF SameFlags
  <2>2. ASSUME NEW c \in calls, c.op \in {"create", "toggle", "delete"}, NEW v, v \in {[view EXCEPT !.open = FALSE], view},
               AnswerThen(c, Loading(v), List("none"))
        PROVE PageInv'
    <3>1. SameFlags(page, view, v)
      BY <1>1, <2>2, PageIs DEF SameFlags
    <3>2. PICK d : d = List("none")
      OBVIOUS
    <3>3. d.tail = c.tail /\ d.op \in LoadOps /\ DOMAIN d = CallFields /\ TailOK(page, d.op, d.tail)
      BY <1>2, <2>2, <3>2, PageIs DEF List, Call, Request, CallFields, LoadOps
    <3>4. Sent(page, d)
      BY <1>1, <3>3 DEF Sent, CallFields
    <3>. QED
      BY <1>1, <2>2, <3>1, <3>2, <3>3, <3>4, ThenLoadKept
  <2>3. ASSUME NEW c \in calls, c.op \in {"create", "toggle", "delete"}, Answer(c, view) PROVE PageInv'
    BY <1>1, <1>2, <2>3, PageIs, PlainKept DEF LoadOps
  <2>. QED
    BY <1>5, <2>1, <2>2, <2>3 DEF CronWrite, Answered
<1>6. CASE RefreshWhen(~view.loading)
  BY <1>1, <1>2, <1>6, RefreshKept
<1>. QED
  BY <1>3, <1>4, <1>5, <1>6 DEF CronNext

LEMMA ConnectorsKept ==
  ASSUME PageInv, page = "connectors", ConnectorsNext
  PROVE  PageInv'
<1>1. page \notin NumberedPages /\ page \notin OneAtATime /\ page \notin Detailed /\ page # "overview"
  BY DEF NumberedPages, OneAtATime, Detailed
<1>2. \A op, tail : TailOK(page, op, tail) <=> (op = "test" => tail = "testing")
  BY DEF TailOK, Untagged
<1>3. ASSUME NEW w, DOMAIN w = DOMAIN view
      PROVE  /\ DOMAIN Chosen(view, w) = DOMAIN view
             /\ Chosen(view, w).busy = w.busy /\ Chosen(view, w).loading = w.loading
  BY <1>3, PageIs DEF Chosen
<1>4. CASE ConnectorsLoaded
  <2>1. ASSUME NEW c \in calls, c.op = "list", Answer(c, Chosen(view, Ends(Loaded(view, c), c.tail))) PROVE PageInv'
    <3>1. PICK u, v, w : u = Loaded(view, c) /\ v = Ends(u, c.tail) /\ w = Chosen(view, v)
      OBVIOUS
    <3>2. DOMAIN u = DOMAIN view /\ u.busy = view.busy /\ u.loading = FALSE
      BY <3>1, LoadedIs
    <3>3. DOMAIN v = DOMAIN view /\ v.busy = {b \in view.busy : b[1] # c.tail} /\ v.loading = FALSE
      BY <3>1, <3>2, PageIs DEF Ends
    <3>4. DOMAIN w = DOMAIN view /\ w.busy = {b \in view.busy : b[1] # c.tail} /\ w.loading = FALSE
      BY <1>3, <3>1, <3>3
    <3>. QED
      BY <1>1, <2>1, <3>1, <3>4, LowerKept
  <2>. QED
    BY <1>4, <2>1 DEF ConnectorsLoaded, Answered
<1>5. CASE ConnectorsPick
  <2>1. ASSUME NEW i, Local(Chosen(view, [view EXCEPT !.sel = i, !.open = FALSE])) PROVE PageInv'
    <3>1. PICK u, v, w : u = [view EXCEPT !.sel = i, !.open = FALSE] /\ v = Chosen(view, u) /\ w = v
      OBVIOUS
    <3>2. DOMAIN u = DOMAIN view /\ u.busy = view.busy /\ u.loading = view.loading
      BY <3>1, PageIs
    <3>3. DOMAIN v = DOMAIN view /\ v.busy = view.busy /\ v.loading = view.loading
      BY <1>3, <3>1, <3>2
    <3>4. SameFlags(page, view, w)
      BY <1>1, <3>1, <3>3, PageIs DEF SameFlags
    <3>. QED
      BY <1>1, <1>2, <2>1, <3>1, <3>4, PageIs, LocalKept
  <2>2. ASSUME Local([Chosen(view, [view EXCEPT !.sel = NoRow, !.open = TRUE]) EXCEPT !.try = NoRow]) PROVE PageInv'
    <3>1. PICK u, v, w : u = [view EXCEPT !.sel = NoRow, !.open = TRUE] /\ v = Chosen(view, u) /\ w = [v EXCEPT !.try = NoRow]
      OBVIOUS
    <3>2. DOMAIN u = DOMAIN view /\ u.busy = view.busy /\ u.loading = view.loading
      BY <3>1, PageIs
    <3>3. DOMAIN v = DOMAIN view /\ v.busy = view.busy /\ v.loading = view.loading
      BY <1>3, <3>1, <3>2
    <3>4. SameFlags(page, view, w)
      BY <1>1, <3>1, <3>3, PageIs DEF SameFlags
    <3>. QED
      BY <1>1, <1>2, <2>2, <3>1, <3>4, PageIs, LocalKept
  <2>3. ASSUME Local([view EXCEPT !.open = FALSE]) PROVE PageInv'
    <3>1. SameFlags(page, view, [view EXCEPT !.open = FALSE])
      BY <1>1, PageIs DEF SameFlags
    <3>. QED
      BY <2>3, <3>1, LocalKept
  <2>4. ASSUME Local([view EXCEPT !.draft = TRUE]) PROVE PageInv'
    <3>1. SameFlags(page, view, [view EXCEPT !.draft = TRUE])
      BY <1>1, PageIs DEF SameFlags
    <3>. QED
      BY <2>4, <3>1, LocalKept
  <2>. QED
    BY <1>5, <2>1, <2>2, <2>3, <2>4 DEF ConnectorsPick
<1>6. CASE ConnectorsCreate
  <2>1. ASSUME NEW i, Write("create", "create", i, "busy") PROVE PageInv'
    BY <1>1, <1>2, <2>1, WriteKept
  <2>2. ASSUME NEW c \in calls, c.op = "create",
               WroteThenLoads(c, [Chosen(view, [view EXCEPT !.sel = c.got, !.open = FALSE]) EXCEPT !.draft = FALSE])
        PROVE PageInv'
    <3>1. PICK u, v, w : u = [view EXCEPT !.sel = c.got, !.open = FALSE] /\ v = Chosen(view, u) /\ w = [v EXCEPT !.draft = FALSE]
      OBVIOUS
    <3>2. DOMAIN u = DOMAIN view /\ u.busy = view.busy /\ u.loading = view.loading
      BY <3>1, PageIs
    <3>3. DOMAIN v = DOMAIN view /\ v.busy = view.busy /\ v.loading = view.loading
      BY <1>3, <3>1, <3>2
    <3>4. SameFlags(page, view, w)
      BY <1>1, <3>1, <3>3, PageIs DEF SameFlags
    <3>. QED
      BY <1>1, <1>2, <2>2, <3>1, <3>4, PageIs, WroteKept DEF LoadOps
  <2>. QED
    BY <1>6, <2>1, <2>2 DEF ConnectorsCreate, Answered
<1>7. CASE ConnectorsSave
  <2>1. ASSUME NEW i, Write("save", "put", i, "busy") PROVE PageInv'
    BY <1>1, <1>2, <2>1, WriteKept
  <2>2. ASSUME NEW c \in calls, c.op = "save", WroteThenLoads(c, [view EXCEPT !.draft = FALSE]) PROVE PageInv'
    <3>1. SameFlags(page, view, [view EXCEPT !.draft = FALSE])
      BY <1>1, PageIs DEF SameFlags
    <3>. QED
      BY <1>1, <1>2, <2>2, <3>1, PageIs, WroteKept DEF LoadOps
  <2>. QED
    BY <1>7, <2>1, <2>2 DEF ConnectorsSave, Answered
<1>8. CASE ConnectorsChange
  <2>1. ASSUME NEW op \in {"toggle", "assign"}, NEW do, NEW i, Write(op, do, i, "busy") PROVE PageInv'
    BY <1>1, <1>2, <2>1, WriteKept
  <2>2. ASSUME NEW c \in calls, c.op \in {"toggle", "assign"}, WroteThenLoads(c, view) PROVE PageInv'
    <3>1. SameFlags(page, view, view)
      BY DEF SameFlags
    <3>. QED
      BY <1>1, <1>2, <2>2, <3>1, PageIs, WroteKept DEF LoadOps
  <2>. QED
    BY <1>8, <2>1, <2>2 DEF ConnectorsChange, Answered
<1>9. CASE ConnectorsTest
  <2>1. ASSUME NEW i, Write("test", "run", i, "testing") PROVE PageInv'
    BY <1>1, <1>2, <2>1, WriteKept
  <2>2. ASSUME NEW c \in calls, NEW k, c.op = "test", Answer(c, Ends([view EXCEPT !.try = k], "testing")) PROVE PageInv'
    <3>1. SameFlags(page, view, [view EXCEPT !.try = k])
      BY <1>1, PageIs DEF SameFlags
    <3>2. c.tail = "testing" /\ c.op \notin LoadOps
      BY <1>2, <2>2, PageIs DEF LoadOps
    <3>. QED
      BY <1>1, <2>2, <3>1, <3>2, EndKept DEF SameFlags
  <2>. QED
    BY <1>9, <2>1, <2>2 DEF ConnectorsTest, Answered
<1>10. CASE RefreshWhen(~view.loading)
  BY <1>1, <1>2, <1>10, RefreshKept
<1>. QED
  BY <1>4, <1>5, <1>6, <1>7, <1>8, <1>9, <1>10 DEF ConnectorsNext

LEMMA PackagesKept ==
  ASSUME PageInv, page = "packages", PackagesNext
  PROVE  PageInv'
<1>1. page \notin NumberedPages /\ page \in OneAtATime /\ page \notin Detailed /\ page # "overview"
  BY DEF NumberedPages, OneAtATime, Detailed
<1>2. \A op, tail : TailOK(page, op, tail) <=> 
        /\ tail \in {"none", "busy"}
        /\ op \notin {"list", "quiet"} => tail = "busy"
  BY DEF TailOK, Untagged
<1>3. Idle => \A d \in calls : ~Marked(d)
  BY <1>1, IdleIsFree
<1>4. CASE PackagesLoaded
  <2>1. ASSUME NEW c \in calls, NEW active, c.op = "list",
               Answer(c, Ends(IF Ok(c) THEN [Loaded(view, c) EXCEPT !.active = active] ELSE Loaded(view, c), c.tail))
        PROVE PageInv'
    <3>1. PICK v, u : v = Loaded(view, c) /\ u = IF Ok(c) THEN [v EXCEPT !.active = active] ELSE v
      OBVIOUS
    <3>2. DOMAIN v = DOMAIN view /\ v.busy = view.busy /\ v.loading = FALSE
      BY <3>1, LoadedIs
    <3>3. DOMAIN u = DOMAIN view /\ u.busy = view.busy /\ u.loading = FALSE
      BY <3>1, <3>2, PageIs
    <3>. QED
      BY <1>1, <1>2, <2>1, <3>1, <3>3, PageIs, EndKept
  <2>2. ASSUME NEW c \in calls, NEW active, NEW v, c.op = "quiet", v = Heard(view, c),
               Answer(c, Ends(IF Ok(c) THEN [v EXCEPT !.active = active] ELSE v, c.tail))
        PROVE PageInv'
    <3>1. PICK w : w = IF Ok(c) THEN [v EXCEPT !.active = active] ELSE v
      OBVIOUS
    <3>2. DOMAIN v = DOMAIN view /\ v.busy = view.busy /\ v.loading = view.loading
      BY <2>2, LoadedIs
    <3>3. DOMAIN w = DOMAIN view /\ w.busy = view.busy /\ w.loading = view.loading
      BY <3>1, <3>2, PageIs
    <3>. QED
      BY <1>1, <2>2, <3>1, <3>3, EndKept DEF LoadOps
  <2>. QED
    BY <1>4, <2>1, <2>2 DEF PackagesLoaded, Answered
<1>5. CASE PackagesPoll
  <2>1. ASSUME Ask(Quiet("none"), view) PROVE PageInv'
    <3>1. SameFlags(page, view, view)
      BY DEF SameFlags
    <3>2. PICK d : d = Quiet("none")
      OBVIOUS
    <3>3. DOMAIN d = CallFields /\ d.tail = "none" /\ d.do \in Reads /\ TailOK(page, d.op, "none")
      BY <1>2, <3>2 DEF Quiet, List, Call, Request, CallFields, Reads
    <3>4. Sent(page, d) /\ ~Marked(d)
      BY <1>1, <3>3 DEF Sent, Marked, CallFields
    <3>. QED
      BY <1>1, <2>1, <3>1, <3>2, <3>4, ReadKept
  <2>. QED
    BY <1>5, <2>1 DEF PackagesPoll
<1>6. CASE PackagesWrite
  <2>1. ASSUME NEW i, Idle, Write("allow", "run", i, "busy") PROVE PageInv'
    BY <1>1, <1>2, <1>3, <2>1, WriteKept DEF Reads
  <2>2. ASSUME NEW i, Idle, Write("install", "create", i, "busy") PROVE PageInv'
    BY <1>1, <1>2, <1>3, <2>2, WriteKept DEF Reads
  <2>3. ASSUME NEW c \in calls, c.op \in {"allow", "install"},
               AnswerThen(c, view, Quiet("busy"))
        PROVE PageInv'
    <3>1. SameFlags(page, view, view)
      BY DEF SameFlags
    <3>2. PICK d : d = Quiet("busy")
      OBVIOUS
    <3>3. DOMAIN d = CallFields /\ d.tail = c.tail /\ TailOK(page, d.op, d.tail) /\ d.do \in Reads /\ (c.op \notin LoadOps \/ d.op \in LoadOps)
      BY <1>2, <2>3, <3>2, PageIs DEF Quiet, List, Call, Request, CallFields, LoadOps, Reads
    <3>4. Sent(page, d)
      BY <1>1, <3>3 DEF Sent, CallFields
    <3>. QED
      BY <1>1, <2>3, <3>1, <3>2, <3>3, <3>4, ThenKept
  <2>4. ASSUME NEW c \in calls, c.op \in {"allow", "install"}, Answer(c, Ends(view, "busy")) PROVE PageInv'
    BY <1>1, <1>2, <2>4, PageIs, EndKept DEF LoadOps
  <2>. QED
    BY <1>6, <2>1, <2>2, <2>3, <2>4 DEF PackagesWrite, Answered
<1>7. CASE PackagesAsk
  <2>1. ASSUME Local(CloseDialog(view)) PROVE PageInv'
    <3>1. SameFlags(page, view, CloseDialog(view))
      BY <1>1, PageIs DEF SameFlags, CloseDialog
    <3>. QED
      BY <2>1, <3>1, LocalKept
  <2>. QED
    BY <1>7, <2>1, DialogKept DEF PackagesAsk
<1>8. CASE PackagesConfirm
  <2>1. ASSUME Idle, NEW do, Write(view.kind, do, view.ask, "busy") PROVE PageInv'
    BY <1>1, <1>2, <1>3, <2>1, WriteKept
  <2>2. ASSUME NEW c \in calls, c.op \in {"uninstall", "recover", "unpin"},
               AnswerThen(c, CloseDialog(view), Quiet("busy"))
        PROVE PageInv'
    <3>1. SameFlags(page, view, CloseDialog(view))
      BY <1>1, PageIs DEF SameFlags, CloseDialog
    <3>2. PICK d : d = Quiet("busy")
      OBVIOUS
    <3>3. DOMAIN d = CallFields /\ d.tail = c.tail /\ TailOK(page, d.op, d.tail) /\ d.do \in Reads /\ (c.op \notin LoadOps \/ d.op \in LoadOps)
      BY <1>2, <2>2, <3>2, PageIs DEF Quiet, List, Call, Request, CallFields, LoadOps, Reads
    <3>4. Sent(page, d)
      BY <1>1, <3>3 DEF Sent, CallFields
    <3>. QED
      BY <1>1, <2>2, <3>1, <3>2, <3>3, <3>4, ThenKept
  <2>3. ASSUME NEW c \in calls, c.op \in {"uninstall", "recover", "unpin"},
               Answer(c, Ends(view, "busy"))
        PROVE PageInv'
    BY <1>1, <1>2, <2>3, PageIs, EndKept DEF LoadOps
  <2>. QED
    BY <1>8, <2>1, <2>2, <2>3 DEF PackagesConfirm, Answered
<1>9. CASE RefreshWhen(~view.loading /\ Idle)
  BY <1>1, <1>2, <1>9, RefreshKept
<1>. QED
  BY <1>4, <1>5, <1>6, <1>7, <1>8, <1>9 DEF PackagesNext

LEMMA WorkstationsKept ==
  ASSUME PageInv, page = "workstations", WorkstationsNext
  PROVE  PageInv'
<1>1. page \notin NumberedPages /\ page \notin OneAtATime /\ page \notin Detailed /\ page # "overview"
  BY DEF NumberedPages, OneAtATime, Detailed
<1>2. \A op, tail : TailOK(page, op, tail)
  BY DEF TailOK, Untagged
<1>3. CASE ListArrives \/ RefreshWhen(~view.loading /\ Idle)
  BY <1>1, <1>2, <1>3, ListArrivesKept, RefreshKept
<1>4. CASE WorkstationsForm
  <2>1. ASSUME Local([CloseDialog(view) EXCEPT !.sel = NoRow, !.form = NoRow, !.editing = FALSE, !.open = TRUE, !.try = NoRow])
        PROVE PageInv'
    <3>1. SameFlags(page, view, [CloseDialog(view) EXCEPT !.sel = NoRow, !.form = NoRow, !.editing = FALSE, !.open = TRUE, !.try = NoRow])
      BY <1>1, PageIs DEF SameFlags, CloseDialog
    <3>. QED
      BY <2>1, <3>1, LocalKept
  <2>2. ASSUME NEW i,
               Local([CloseDialog(view) EXCEPT !.sel = i, !.form = i, !.editing = TRUE, !.open = TRUE, !.try = NoRow])
        PROVE PageInv'
    <3>1. SameFlags(page, view, [CloseDialog(view) EXCEPT !.sel = i, !.form = i, !.editing = TRUE, !.open = TRUE, !.try = NoRow])
      BY <1>1, PageIs DEF SameFlags, CloseDialog
    <3>. QED
      BY <2>2, <3>1, LocalKept
  <2>3. ASSUME Local([view EXCEPT !.open = FALSE, !.editing = FALSE]) PROVE PageInv'
    <3>1. SameFlags(page, view, [view EXCEPT !.open = FALSE, !.editing = FALSE])
      BY <1>1, PageIs DEF SameFlags
    <3>. QED
      BY <2>3, <3>1, LocalKept
  <2>. QED
    BY <1>4, <2>1, <2>2, <2>3 DEF WorkstationsForm
<1>5. CASE WorkstationsSave
  <2>1. ASSUME Ask([Call("save", "put", view.sel) EXCEPT !.cap = view.form, !.tail = "busy"], Flag(view, "busy", "save", NoRow))
        PROVE PageInv'
    <3>1. SameFlags(page, view, view)
      BY DEF SameFlags
    <3>2. PICK d : d = [Call("save", "put", view.sel) EXCEPT !.cap = view.form, !.tail = "busy"]
      OBVIOUS
    <3>3. DOMAIN d = CallFields /\ d.tail = "busy" /\ TailOK(page, d.op, "busy")
      BY <1>2, <3>2 DEF Call, Request, CallFields
    <3>4. Sent(page, d)
      BY <1>1, <3>3 DEF Sent, CallFields
    <3>. QED
      BY <1>1, <2>1, <3>1, <3>2, <3>3, <3>4, FlagKept DEF SameFlags
  <2>2. ASSUME NEW i, Write("create", "create", i, "busy") PROVE PageInv'
    BY <1>1, <1>2, <2>2, WriteKept
  <2>3. ASSUME NEW c \in calls, c.op = "save", WroteThenLoads(c, view) PROVE PageInv'
    <3>1. SameFlags(page, view, view)
      BY DEF SameFlags
    <3>. QED
      BY <1>1, <1>2, <2>3, <3>1, PageIs, WroteKept DEF LoadOps
  <2>4. ASSUME NEW c \in calls, c.op = "create",
               WroteThenLoads(c, [view EXCEPT !.sel = c.got, !.editing = TRUE])
        PROVE PageInv'
    <3>1. SameFlags(page, view, [view EXCEPT !.sel = c.got, !.editing = TRUE])
      BY <1>1, PageIs DEF SameFlags
    <3>. QED
      BY <1>1, <1>2, <2>4, <3>1, PageIs, WroteKept DEF LoadOps
  <2>. QED
    BY <1>5, <2>1, <2>2, <2>3, <2>4 DEF WorkstationsSave, Answered
<1>6. CASE WorkstationsTest
  <2>1. ASSUME NEW i, Write("test", "run", i, "busy") PROVE PageInv'
    BY <1>1, <1>2, <2>1, WriteKept
  <2>2. ASSUME NEW c \in calls, c.op = "test", WroteThenLoads(c, [view EXCEPT !.try = c.arg]) PROVE PageInv'
    <3>1. SameFlags(page, view, [view EXCEPT !.try = c.arg])
      BY <1>1, PageIs DEF SameFlags
    <3>. QED
      BY <1>1, <1>2, <2>2, <3>1, PageIs, WroteKept DEF LoadOps
  <2>. QED
    BY <1>6, <2>1, <2>2 DEF WorkstationsTest, Answered
<1>7. CASE WorkstationsDialog
  <2>1. ASSUME NEW do,
               Ask([Call(view.kind, do, view.ask) EXCEPT !.cap = view.sel, !.tail = "busy"], Flag(view, "busy", view.kind, view.ask))
        PROVE PageInv'
    <3>1. SameFlags(page, view, view)
      BY DEF SameFlags
    <3>2. PICK d : d = [Call(view.kind, do, view.ask) EXCEPT !.cap = view.sel, !.tail = "busy"]
      OBVIOUS
    <3>3. DOMAIN d = CallFields /\ d.tail = "busy" /\ TailOK(page, d.op, "busy")
      BY <1>2, <3>2 DEF Call, Request, CallFields
    <3>4. Sent(page, d)
      BY <1>1, <3>3 DEF Sent, CallFields
    <3>. QED
      BY <1>1, <2>1, <3>1, <3>2, <3>3, <3>4, FlagKept DEF SameFlags
  <2>2. ASSUME NEW c \in Answered("disconnect") \cup Answered("delete"),
               LET v == [CloseDialog(view) EXCEPT !.try = NoRow] IN
               WroteThenLoads(c, IF c.op = "delete" /\ c.cap = c.arg
                                 THEN [v EXCEPT !.sel = NoRow, !.form = NoRow, !.editing = FALSE, !.open = FALSE] ELSE v)
        PROVE PageInv'
    <3>1. PICK u, v, w : /\ u = CloseDialog(view) /\ v = [u EXCEPT !.try = NoRow]
                         /\ w = IF c.op = "delete" /\ c.cap = c.arg
                                THEN [v EXCEPT !.sel = NoRow, !.form = NoRow, !.editing = FALSE, !.open = FALSE] ELSE v
      OBVIOUS
    <3>2. SameFlags(page, view, u)
      BY <1>1, <3>1, PageIs DEF SameFlags, CloseDialog
    <3>3. SameFlags(page, view, v)
      BY <1>1, <3>1, <3>2, PageIs DEF SameFlags
    <3>4. SameFlags(page, view, w)
      BY <1>1, <3>1, <3>3, PageIs DEF SameFlags
    <3>5. c \in calls /\ c.op \notin LoadOps /\ c.op # "detail"
      BY DEF Answered, LoadOps
    <3>6. WroteThenLoads(c, w)
      BY <2>2, <3>1
    <3>. QED
      BY <1>1, <1>2, <3>4, <3>5, <3>6, WroteKept
  <2>. QED
    BY <1>7, <2>1, <2>2, DialogKept DEF WorkstationsDialog
<1>. QED
  BY <1>3, <1>4, <1>5, <1>6, <1>7 DEF WorkstationsNext

LEMMA ProvidersKept ==
  ASSUME PageInv, page = "providers", ProvidersNext
  PROVE  PageInv'
<1>1. page \notin NumberedPages /\ page \notin OneAtATime /\ page \notin Detailed /\ page # "overview"
  BY DEF NumberedPages, OneAtATime, Detailed
<1>2. \A op, tail : TailOK(page, op, tail) <=> (op = "test" => tail = "testing")
  BY DEF TailOK, Untagged
<1>3. CASE ListArrives \/ RefreshWhen(TRUE)
  BY <1>1, <1>2, <1>3, ListArrivesKept, RefreshKept
<1>4. CASE ProvidersForm
  <2>1. ASSUME NEW i, Local([view EXCEPT !.sel = i, !.form = i, !.key = FALSE, !.try = NoRow]) PROVE PageInv'
    <3>1. SameFlags(page, view, [view EXCEPT !.sel = i, !.form = i, !.key = FALSE, !.try = NoRow])
      BY <1>1, PageIs DEF SameFlags
    <3>. QED
      BY <2>1, <3>1, LocalKept
  <2>2. ASSUME Local([view EXCEPT !.key = TRUE]) PROVE PageInv'
    <3>1. SameFlags(page, view, [view EXCEPT !.key = TRUE])
      BY <1>1, PageIs DEF SameFlags
    <3>. QED
      BY <2>2, <3>1, LocalKept
  <2>. QED
    BY <1>4, <2>1, <2>2 DEF ProvidersForm
<1>5. CASE ProvidersSave
  <2>1. ASSUME NEW i, Write("create", "create", i, "saving") PROVE PageInv'
    BY <1>1, <1>2, <2>1, WriteKept
  <2>2. ASSUME Ask([Call("save", "put", view.sel) EXCEPT !.cap = view.form, !.tail = "saving"], Flag(view, "saving", "save", view.sel))
        PROVE PageInv'
    <3>1. SameFlags(page, view, view)
      BY DEF SameFlags
    <3>2. PICK d : d = [Call("save", "put", view.sel) EXCEPT !.cap = view.form, !.tail = "saving"]
      OBVIOUS
    <3>3. DOMAIN d = CallFields /\ d.tail = "saving" /\ TailOK(page, d.op, "saving")
      BY <1>2, <3>2 DEF Call, Request, CallFields
    <3>4. Sent(page, d)
      BY <1>1, <3>3 DEF Sent, CallFields
    <3>. QED
      BY <1>1, <2>2, <3>1, <3>2, <3>3, <3>4, FlagKept DEF SameFlags
  <2>3. ASSUME NEW c \in calls, c.op = "save", WroteThenLoads(c, [view EXCEPT !.key = FALSE]) PROVE PageInv'
    <3>1. SameFlags(page, view, [view EXCEPT !.key = FALSE])
      BY <1>1, PageIs DEF SameFlags
    <3>. QED
      BY <1>1, <1>2, <2>3, <3>1, PageIs, WroteKept DEF LoadOps
  <2>4. ASSUME NEW c \in calls, c.op = "create",
               WroteThenLoads(c, [view EXCEPT !.sel = c.got, !.form = c.got, !.key = FALSE])
        PROVE PageInv'
    <3>1. SameFlags(page, view, [view EXCEPT !.sel = c.got, !.form = c.got, !.key = FALSE])
      BY <1>1, PageIs DEF SameFlags
    <3>. QED
      BY <1>1, <1>2, <2>4, <3>1, PageIs, WroteKept DEF LoadOps
  <2>. QED
    BY <1>5, <2>1, <2>2, <2>3, <2>4 DEF ProvidersSave, Answered
<1>6. CASE ProvidersClear
  <2>1. ASSUME NEW i, Write("clear", "put", i, "clearing") PROVE PageInv'
    BY <1>1, <1>2, <2>1, WriteKept
  <2>2. ASSUME NEW c \in calls, c.op = "clear", WroteThenLoads(c, [view EXCEPT !.key = FALSE]) PROVE PageInv'
    <3>1. SameFlags(page, view, [view EXCEPT !.key = FALSE])
      BY <1>1, PageIs DEF SameFlags
    <3>. QED
      BY <1>1, <1>2, <2>2, <3>1, PageIs, WroteKept DEF LoadOps
  <2>. QED
    BY <1>6, <2>1, <2>2 DEF ProvidersClear, Answered
<1>7. CASE ProvidersTest
  <2>1. ASSUME NEW i, Write("test", "run", i, "testing") PROVE PageInv'
    BY <1>1, <1>2, <2>1, WriteKept
  <2>2. ASSUME NEW c \in calls, NEW k, c.op = "test", Answer(c, Ends([view EXCEPT !.try = k], "testing")) PROVE PageInv'
    <3>1. SameFlags(page, view, [view EXCEPT !.try = k])
      BY <1>1, PageIs DEF SameFlags
    <3>2. c.tail = "testing" /\ c.op \notin LoadOps
      BY <1>2, <2>2, PageIs DEF LoadOps
    <3>. QED
      BY <1>1, <2>2, <3>1, <3>2, EndKept DEF SameFlags
  <2>. QED
    BY <1>7, <2>1, <2>2 DEF ProvidersTest, Answered
<1>. QED
  BY <1>3, <1>4, <1>5, <1>6, <1>7 DEF ProvidersNext

LEMMA TtsKept ==
  ASSUME PageInv, page = "tts", TtsNext
  PROVE  PageInv'
<1>1. page \notin NumberedPages /\ page \in OneAtATime /\ page \notin Detailed /\ page # "overview"
  BY DEF NumberedPages, OneAtATime, Detailed
<1>2. \A op, tail : TailOK(page, op, tail) <=> tail = IF op = "list" THEN "none" ELSE "busy"
  BY DEF TailOK, Untagged
<1>3. Idle => \A d \in calls : ~Marked(d)
  BY <1>1, IdleIsFree
<1>4. CASE TtsLoaded
  <2>1. ASSUME NEW c \in calls, c.op = "list",
               Answer(c, IF Ok(c) THEN [Loaded(view, c) EXCEPT !.edit = FALSE] ELSE Loaded(view, c))
        PROVE PageInv'
    <3>1. PICK v, u : v = Loaded(view, c) /\ u = IF Ok(c) THEN [v EXCEPT !.edit = FALSE] ELSE v
      OBVIOUS
    <3>2. DOMAIN v = DOMAIN view /\ v.busy = view.busy /\ v.loading = FALSE
      BY <3>1, LoadedIs
    <3>3. DOMAIN u = DOMAIN view /\ u.busy = view.busy /\ u.loading = FALSE
      BY <3>1, <3>2, PageIs
    <3>. QED
      BY <1>1, <1>2, <2>1, <3>1, <3>3, PageIs, PlainKept
  <2>. QED
    BY <1>4, <2>1 DEF TtsLoaded, Answered
<1>5. CASE TtsForm
  <2>1. ASSUME Local([view EXCEPT !.edit = TRUE]) PROVE PageInv'
    <3>1. SameFlags(page, view, [view EXCEPT !.edit = TRUE])
      BY <1>1, PageIs DEF SameFlags
    <3>. QED
      BY <2>1, <3>1, LocalKept
  <2>2. ASSUME Local([view EXCEPT !.open = TRUE]) PROVE PageInv'
    <3>1. SameFlags(page, view, [view EXCEPT !.open = TRUE])
      BY <1>1, PageIs DEF SameFlags
    <3>. QED
      BY <2>2, <3>1, LocalKept
  <2>3. ASSUME Local([view EXCEPT !.open = FALSE]) PROVE PageInv'
    <3>1. SameFlags(page, view, [view EXCEPT !.open = FALSE])
      BY <1>1, PageIs DEF SameFlags
    <3>. QED
      BY <2>3, <3>1, LocalKept
  <2>. QED
    BY <1>5, <2>1, <2>2, <2>3 DEF TtsForm
<1>6. CASE TtsWrite
  <2>1. ASSUME NEW i, Idle,
               Ask([Call("save", "put", i) EXCEPT !.base = view.rows[i].ver, !.tail = "busy"], Flag(view, "busy", "save", i))
        PROVE PageInv'
    <3>1. SameFlags(page, view, view)
      BY DEF SameFlags
    <3>2. PICK d : d = [Call("save", "put", i) EXCEPT !.base = view.rows[i].ver, !.tail = "busy"]
      OBVIOUS
    <3>3. DOMAIN d = CallFields /\ d.tail = "busy" /\ TailOK(page, d.op, "busy")
      BY <1>2, <3>2 DEF Call, Request, CallFields
    <3>4. Sent(page, d)
      BY <3>3 DEF Sent, Marked, CallFields
    <3>. QED
      BY <1>1, <1>3, <2>1, <3>1, <3>2, <3>3, <3>4, FlagKept DEF SameFlags
  <2>2. ASSUME NEW i, Idle, Write("clear", "put", i, "busy") PROVE PageInv'
    BY <1>1, <1>2, <1>3, <2>2, WriteKept DEF Reads
  <2>3. ASSUME NEW i, Idle, Write("test", "run", i, "busy") PROVE PageInv'
    BY <1>1, <1>2, <1>3, <2>3, WriteKept DEF Reads
  <2>4. ASSUME NEW c \in calls, c.op = "test", Answer(c, Ends(view, "busy")) PROVE PageInv'
    BY <1>1, <1>2, <2>4, PageIs, EndKept DEF LoadOps
  <2>5. ASSUME NEW c \in Answered("save") \cup Answered("clear"),
               LET v == [ChangeRow(view, c.arg, c.ver) EXCEPT !.edit = FALSE, !.open = @ /\ c.op = "save"] IN
               Answer(c, Ends(IF Ok(c) THEN v ELSE view, "busy"))
        PROVE PageInv'
    <3>1. PICK u, v, w : /\ u = ChangeRow(view, c.arg, c.ver)
                         /\ v = [u EXCEPT !.edit = FALSE, !.open = @ /\ c.op = "save"]
                         /\ w = IF Ok(c) THEN v ELSE view
      OBVIOUS
    <3>2. SameFlags(page, view, u)
      BY <1>1, <3>1, PageIs DEF SameFlags, ChangeRow
    <3>3. SameFlags(page, view, v)
      BY <1>1, <3>1, <3>2, PageIs DEF SameFlags
    <3>4. SameFlags(page, view, w)
      BY <1>1, <3>1, <3>3 DEF SameFlags
    <3>5. c \in calls /\ c.op \in {"save", "clear"}
      BY DEF Answered
    <3>6. c.tail = "busy" /\ c.op \notin LoadOps
      BY <1>2, <3>5, PageIs DEF LoadOps
    <3>7. Answer(c, Ends(w, "busy"))
      BY <2>5, <3>1
    <3>. QED
      BY <1>1, <3>4, <3>5, <3>6, <3>7, EndKept DEF SameFlags
  <2>. QED
    BY <1>6, <2>1, <2>2, <2>3, <2>4, <2>5 DEF TtsWrite, Answered
<1>7. CASE RefreshWhen(~view.loading /\ Idle)
  BY <1>1, <1>2, <1>7, RefreshKept
<1>. QED
  BY <1>4, <1>5, <1>6, <1>7 DEF TtsNext

----------------------------------------------------------------------------
(* All pages. *)

LEMMA ExtendedIs ==
  ASSUME NEW f, NEW g
  PROVE  /\ DOMAIN Extended(f, g) = DOMAIN f \cup DOMAIN g
         /\ \A x \in DOMAIN f : Extended(f, g)[x] = f[x]
         /\ \A x \in DOMAIN g \ DOMAIN f : Extended(f, g)[x] = g[x]
BY DEF Extended

\* A page is mounted with its load under way, and nothing else.
LEMMA BlankIs ==
  ASSUME NEW p \in DOMAIN Blank
  PROVE  /\ {"loading", "loaded", "err", "rows", "busy"} \subseteq DOMAIN Blank[p]
         /\ Blank[p].busy = {}
         /\ p \in NumberedPages => {"seq", "shown"} \subseteq DOMAIN Blank[p] /\ Blank[p].seq = 1
<1>1. DOMAIN BlankList = {"loading", "loaded", "err", "rows", "busy"} /\ BlankList["busy"] = {}
  BY DEF BlankList
<1>2. ASSUME NEW r PROVE /\ {"loading", "loaded", "err", "rows", "busy"} \subseteq DOMAIN Extended(BlankList, r)
                         /\ Extended(BlankList, r)["busy"] = {}
  <2>1. DOMAIN Extended(BlankList, r) = DOMAIN BlankList \cup DOMAIN r
    BY ExtendedIs
  <2>2. "busy" \in DOMAIN BlankList
    BY <1>1
  <2>3. Extended(BlankList, r)["busy"] = BlankList["busy"]
    BY <2>2, ExtendedIs
  <2>. QED
    BY <1>1, <2>1, <2>3
<1>3. ASSUME NEW r, {"seq", "shown"} \subseteq DOMAIN r, r["seq"] = 1
      PROVE  {"seq", "shown"} \subseteq DOMAIN Extended(BlankList, r) /\ Extended(BlankList, r)["seq"] = 1
  <2>1. DOMAIN Extended(BlankList, r) = DOMAIN BlankList \cup DOMAIN r
    BY ExtendedIs
  <2>2. "seq" \in DOMAIN r \ DOMAIN BlankList
    BY <1>1, <1>3
  <2>3. Extended(BlankList, r)["seq"] = r["seq"]
    BY <2>2 DEF Extended
  <2>. QED
    BY <1>3, <2>1, <2>3
<1>4. /\ {"loading", "loaded", "err", "rows", "busy", "seq", "shown"} \subseteq DOMAIN NumberedView
      /\ NumberedView["busy"] = {} /\ NumberedView["seq"] = 1
  BY <1>2, <1>3 DEF NumberedView
<1>5. /\ {"loading", "loaded", "err", "rows", "busy", "seq", "shown"} \subseteq DOMAIN MarketingView
      /\ MarketingView["busy"] = {} /\ MarketingView["seq"] = 1
  <2>1. DOMAIN MarketingView = DOMAIN NumberedView \cup DOMAIN [online |-> "?"]
    BY ExtendedIs DEF MarketingView
  <2>2. "busy" \in DOMAIN NumberedView /\ "seq" \in DOMAIN NumberedView
    BY <1>4
  <2>3. MarketingView["busy"] = NumberedView["busy"] /\ MarketingView["seq"] = NumberedView["seq"]
    BY <2>2, ExtendedIs DEF MarketingView
  <2>. QED
    BY <1>4, <2>1, <2>3
<1>6. CASE p \in NumberedPages
  <2>1. Blank["overview"] = OverviewView /\ Blank["skills"] = NumberedView /\ Blank["marketing"] = MarketingView
    BY DEF Blank, SkillsView
  <2>2. /\ {"loading", "loaded", "err", "rows", "busy", "seq", "shown"} \subseteq DOMAIN OverviewView
        /\ OverviewView["busy"] = {} /\ OverviewView["seq"] = 1
    BY <1>2, <1>3 DEF OverviewView
  <2>. QED
    BY <1>4, <1>5, <1>6, <2>1, <2>2 DEF NumberedPages
<1>7. CASE p \notin NumberedPages
  <2>1. \E r : Blank[p] = Extended(BlankList, r)
    BY <1>7 DEF NumberedPages, Blank,
       ActivityView, AgentsView, ApiKeysView, ApprovalsView, BackupView, ChannelsView, ConnectorsView,
       ContactsView, CronView, ImpExpView, KgView, MemoryView, NodesView, PackagesView, PairingView,
       PendingView, ProvidersView, ReportView, SessionsView, SettingsView, StorageView, TeamsView,
       TenantsView, ToolsView, TracesView, TtsView, VaultView, WebhooksView, WorkstationsView
  <2>. QED
    BY <1>2, <1>7, <2>1
<1>. QED
  BY <1>6, <1>7

LEMMA InitKept ==
  ASSUME Init
  PROVE  PageInv
<1>1. page \in DOMAIN Blank /\ view = Blank[page]
  BY PagesAssumption DEF Init
<1>2. PICK c : c = FirstCall(page) /\ calls = {c}
  BY DEF Init
<1>3. /\ {"op", "do", "tail", "gen", "st"} \subseteq DOMAIN c
      /\ c.tail = "none" /\ c.do \in Reads
      /\ c.op = CASE page = "overview" -> "pull"
                [] page \in {"marketing", "metrics", "heatmap"} -> "health"
                [] page = "settings" -> "users"
                [] OTHER -> "list"
      /\ page \in NumberedPages => c.gen = 1
  BY <1>2 DEF FirstCall, Request, Reads, NumberedPages
<1>4. c.op \in LoadOps
  BY <1>3 DEF LoadOps
<1>5. TailOK(page, c.op, c.tail)
  BY <1>3 DEF TailOK, Untagged
<1>6. Sent(page, c) /\ ~Marked(c)
  BY <1>3, <1>5 DEF Sent, Marked
<1>7. Shape(page, view) /\ view.busy = {} /\ Carries(page, c, view)
  BY <1>1, <1>3, <1>4, BlankIs DEF Shape, Carries
<1>. QED
  BY <1>2, <1>6, <1>7 DEF PageInv, Sound, OneMarked

LEMMA NextKept ==
  ASSUME PageInv, [Next]_vars
  PROVE  PageInv'
<1>1. CASE UNCHANGED vars
  BY <1>1 DEF vars, PageInv
<1>2. CASE Outside
  BY <1>2, OutsideKept
<1>3. CASE page = "sessions" /\ SessionsNext
  BY <1>3, SessionsKept
<1>4. CASE page = "agents" /\ AgentsNext
  BY <1>4, AgentsKept
<1>5. CASE page = "channels" /\ ChannelsNext
  BY <1>5, ChannelsKept
<1>6. CASE page = "pairing" /\ PairingNext
  BY <1>6, PairingKept
<1>7. CASE page = "pending" /\ PendingNext
  BY <1>7, PendingKept
<1>8. CASE page = "contacts" /\ ContactsNext
  BY <1>8, ContactsKept
<1>9. CASE page = "teams" /\ TeamsNext
  BY <1>9, TeamsKept
<1>10. CASE page = "approvals" /\ ApprovalsNext
  BY <1>10, ApprovalsKept
<1>11. CASE page = "nodes" /\ NodesNext
  BY <1>11, NodesKept
<1>12. CASE page = "activity" /\ ActivityNext
  BY <1>12, ActivityKept
<1>13. CASE page = "traces" /\ TracesNext
  BY <1>13, TracesKept
<1>14. CASE page = "overview" /\ OverviewNext
  BY <1>14, OverviewKept
<1>15. CASE page = "metrics" /\ MetricsNext
  BY <1>15, MetricsKept
<1>16. CASE page = "heatmap" /\ HeatmapNext
  BY <1>16, HeatmapKept
<1>17. CASE page = "apikeys" /\ ApiKeysNext
  BY <1>17, ApiKeysKept
<1>18. CASE page = "webhooks" /\ WebhooksNext
  BY <1>18, WebhooksKept
<1>19. CASE page = "tenants" /\ TenantsNext
  BY <1>19, TenantsKept
<1>20. CASE page = "settings" /\ SettingsNext
  BY <1>20, SettingsKept
<1>21. CASE page = "vault" /\ VaultNext
  BY <1>21, VaultKept
<1>22. CASE page = "memory" /\ MemoryNext
  BY <1>22, MemoryKept
<1>23. CASE page = "kg" /\ KgNext
  BY <1>23, KgKept
<1>24. CASE page = "storage" /\ StorageNext
  BY <1>24, StorageKept
<1>25. CASE page = "impexp" /\ ImpExpNext
  BY <1>25, ImpExpKept
<1>26. CASE page = "backup" /\ BackupNext
  BY <1>26, BackupKept
<1>27. CASE page = "skills" /\ SkillsNext
  BY <1>27, SkillsKept
<1>28. CASE page = "tools" /\ ToolsNext
  BY <1>28, ToolsKept
<1>29. CASE page = "cron" /\ CronNext
  BY <1>29, CronKept
<1>30. CASE page = "connectors" /\ ConnectorsNext
  BY <1>30, ConnectorsKept
<1>31. CASE page = "packages" /\ PackagesNext
  BY <1>31, PackagesKept
<1>32. CASE page = "workstations" /\ WorkstationsNext
  BY <1>32, WorkstationsKept
<1>33. CASE page = "providers" /\ ProvidersNext
  BY <1>33, ProvidersKept
<1>34. CASE page = "tts" /\ TtsNext
  BY <1>34, TtsKept
<1>35. CASE page = "marketing" /\ MarketingNext
  BY <1>35, MarketingKept
<1>. QED
  BY <1>1, <1>2, <1>3, <1>4, <1>5, <1>6, <1>7, <1>8, <1>9, <1>10, <1>11, <1>12, <1>13, <1>14, <1>15, <1>16,
     <1>17, <1>18, <1>19, <1>20, <1>21, <1>22, <1>23, <1>24, <1>25, <1>26, <1>27, <1>28, <1>29, <1>30, <1>31,
     <1>32, <1>33, <1>34, <1>35 DEF Next

\* Whatever a page of the control plane has raised, a request under way lowers: each busy
\* flag and each spinner has its handler still to end, for any inventory, any number of
\* clicks and any order of the answers.  And a page that means to write one thing at a
\* time has one marked request at most.
THEOREM PagesAreSound == Spec => []PageInv
<1>1. Init => PageInv
  BY InitKept
<1>2. PageInv /\ [Next]_vars => PageInv'
  BY NextKept
<1>. QED
  BY <1>1, <1>2, PTL DEF Spec

\* No control of the 33 pages stays disabled and no spinner stays for good: a page with no
\* request under way is idle.
THEOREM QuietPagesAreIdle == Spec => []QuietPageIsIdle
<1>1. PageInv => QuietPageIsIdle
  BY DEF PageInv, Sound, Waits, QuietPageIsIdle
<1>. QED
  BY <1>1, PagesAreSound, PTL

\* On the pages that disable their controls while they write, two writes are never under
\* way at once, whatever is loaded, opened or answered meanwhile.
THEOREM WritesComeOneAtATime == Spec => []OneWriteAtATime
<1>1. ASSUME PageInv, page \in OneAtATime
      PROVE  Cardinality({c \in calls : c.st = "sent" /\ c.do \notin Reads}) <= 1
  <2>1. PICK S : S = {c \in calls : c.st = "sent" /\ c.do \notin Reads}
    OBVIOUS
  <2>2. \A c, d \in S : c = d
    BY <1>1, <2>1 DEF PageInv, Sound, Sent, OneMarked
  <2>3. CASE S = {}
    BY <2>1, <2>3, FS_EmptySet
  <2>4. CASE S # {}
    <3>1. PICK c : S = {c}
      BY <2>2, <2>4
    <3>. QED
      BY <2>1, <3>1, FS_Singleton
  <2>. QED
    BY <2>3, <2>4
<1>2. PageInv => OneWriteAtATime
  BY <1>1 DEF OneWriteAtATime
<1>. QED
  BY <1>2, PagesAreSound, PTL

\* What an overview, a list of skills or a campaign page shows once all is answered is the
\* outcome of its newest load, however the answers of overlapping loads were ordered.
THEOREM NewestLoadsAreShown == Spec => []NewestLoadShown
<1>1. PageInv => NewestLoadShown
  BY DEF PageInv, Sound, Waits, NumberedPages, NewestLoadShown
<1>. QED
  BY <1>1, PagesAreSound, PTL

----------------------------------------------------------------------------
(* The secret of an API key.  While all goes in order, the secret on the page opens    *)
(* something, or the answer of the revocation that took it away is still on its way    *)
(* and knows whose secret was shown: no other key can have been made since, for one    *)
(* thing is written at a time.                                                         *)

Live(i) == i \in DOMAIN gw /\ gw[i].on

KeyFields ==
  {"loading", "loaded", "err", "rows", "busy", "sel", "q", "of", "last", "secret", "ask", "kind"}

KeyCall(c) ==
  /\ {"op", "do", "tail", "st", "arg", "cap", "got", "ver", "rows"} \subseteq DOMAIN c
  /\ c.op \in {"list", "create", "revoke"}
  /\ c.op = "list" => c.do = "list"
  /\ c.op = "create" => c.do = "create"
  /\ c.op = "revoke" => c.do = "close"

Revoked(c, i) == c.op = "revoke" /\ c.st = "ok" /\ c.arg = i

SecretInv ==
  page = "apikeys" =>
    /\ DOMAIN view = KeyFields
    /\ \A c \in calls : KeyCall(c)
    /\ calm => /\ \A c \in calls : c.op = "revoke" => c.cap = view.last
               /\ \A c \in calls : c.op = "create" /\ c.st = "ok" => Live(c.got)
               /\ view.secret => Live(view.last) \/ \E c \in calls : Revoked(c, view.last)

\* A step that leaves the secret, the keys and the answers of revocations alone.
LEMMA SecretUntouched ==
  ASSUME SecretInv, page = "apikeys", page' = page, gw' = gw, calm' => calm,
         DOMAIN view' = DOMAIN view, view'.last = view.last, view'.secret => view.secret,
         \A c \in calls' : c \in calls \/ (KeyCall(c) /\ c.st = "sent" /\ (c.op = "revoke" => c.cap = view.last)),
         \A c \in calls : c \in calls' \/ ~(c.op = "revoke" /\ c.st = "ok")
  PROVE  SecretInv'
<1>1. \A c \in calls' : KeyCall(c)
  BY DEF SecretInv
<1>2. \A i : Live(i)' <=> Live(i)
  BY DEF Live
<1>3. ASSUME calm'
      PROVE  /\ \A c \in calls' : c.op = "revoke" => c.cap = view'.last
             /\ \A c \in calls' : c.op = "create" /\ c.st = "ok" => Live(c.got)'
             /\ view'.secret => Live(view.last)' \/ \E c \in calls' : Revoked(c, view'.last)
  BY <1>2, <1>3 DEF SecretInv, Revoked
<1>. QED
  BY <1>1, <1>2, <1>3 DEF SecretInv, Live, KeyCall, Revoked

\* One request sent, or one answered that is no success.
LEMMA SecretAskKept ==
  ASSUME SecretInv, page = "apikeys", NEW c, NEW w, Ask(c, w),
         DOMAIN w = DOMAIN view, w.last = view.last, w.secret = view.secret,
         KeyCall(c), c.st = "sent", c.op = "revoke" => c.cap = view.last
  PROVE  SecretInv'
BY SecretUntouched DEF Ask, AskAll

LEMMA SecretLocalKept ==
  ASSUME SecretInv, page = "apikeys", NEW w, Local(w),
         DOMAIN w = DOMAIN view, w.last = view.last, w.secret => view.secret
  PROVE  SecretInv'
BY SecretUntouched DEF Local

LEMMA SecretAnswerKept ==
  ASSUME SecretInv, page = "apikeys", NEW c \in calls, NEW w, Answer(c, w),
         DOMAIN w = DOMAIN view, w.last = view.last, w.secret = view.secret,
         c.op # "revoke" \/ c.st # "ok"
  PROVE  SecretInv'
<1>1. calm' => calm
  BY DEF Answer, Ending
<1>. QED
  BY <1>1, SecretUntouched DEF Answer, Ending

\* Making a key and revoking one exclude each other.
LEMMA OneKeyWrite ==
  ASSUME PageInv, SecretInv, page = "apikeys", NEW c \in calls, NEW d \in calls, c.op # "list", d.op # "list"
  PROVE  c = d
<1>1. page \in OneAtATime
  BY DEF OneAtATime
<1>2. c.do \notin Reads /\ d.do \notin Reads
  BY DEF SecretInv, KeyCall, Reads
<1>3. Sent(page, c) /\ Sent(page, d)
  BY DEF PageInv, Sound
<1>4. Marked(c) /\ Marked(d)
  BY <1>1, <1>2, <1>3 DEF Sent
<1>. QED
  BY <1>1, <1>4 DEF PageInv, OneMarked

\* A request that was served.
LEMMA SecretBecomeKept ==
  ASSUME PageInv, SecretInv, page = "apikeys", page' = page, view' = view, calm' => calm,
         NEW c \in calls, NEW d, Become(c, d), c.st = "sent",
         DOMAIN d = DOMAIN c, d.op = c.op, d.do = c.do, d.arg = c.arg, d.cap = c.cap,
         \A i : Live(i) => Live(i)' \/ Revoked(d, i),
         d.op = "create" /\ d.st = "ok" => Live(d.got)'
  PROVE  SecretInv'
<1>1. calls' = (calls \ {c}) \cup {d}
  BY DEF Become
<1>2. \A e \in calls' : KeyCall(e)
  BY <1>1 DEF SecretInv, KeyCall
<1>3. ASSUME calm', NEW e \in calls', e.op = "revoke" PROVE e.cap = view'.last
  BY <1>1, <1>3 DEF SecretInv
<1>4. ASSUME calm', NEW e \in calls', e.op = "create", e.st = "ok" PROVE Live(e.got)'
  <2>1. CASE e = d
    BY <1>4, <2>1
  <2>2. CASE e # d
    <3>1. e \in calls /\ e # c
      BY <1>1, <2>2
    <3>2. Live(e.got)
      BY <1>4, <3>1 DEF SecretInv
    <3>3. c.op = "list"
      BY <1>4, <3>1, OneKeyWrite
    <3>. QED
      BY <3>2, <3>3 DEF Revoked
  <2>. QED
    BY <2>1, <2>2
<1>5. ASSUME calm', view'.secret PROVE Live(view.last)' \/ \E e \in calls' : Revoked(e, view'.last)
  <2>1. CASE Live(view.last)
    BY <1>1, <2>1
  <2>2. CASE ~Live(view.last)
    <3>1. PICK e \in calls : Revoked(e, view.last)
      BY <1>5, <2>2 DEF SecretInv
    <3>2. e # c
      BY <3>1 DEF Revoked
    <3>. QED
      BY <1>1, <3>1, <3>2
  <2>. QED
    BY <2>1, <2>2
<1>6. DOMAIN view' = KeyFields
  BY DEF SecretInv
<1>7. page' = "apikeys" /\ view'.last = view.last
  OBVIOUS
<1>8. calm' => /\ \A e \in calls' : e.op = "revoke" => e.cap = view'.last
               /\ \A e \in calls' : e.op = "create" /\ e.st = "ok" => Live(e.got)'
               /\ view'.secret => Live(view.last)' \/ \E e \in calls' : Revoked(e, view'.last)
  BY <1>3, <1>4, <1>5
<1>. QED
  BY <1>2, <1>6, <1>8 DEF SecretInv, Live, KeyCall, Revoked, KeyFields

\* A step that is trouble leaves nothing to show.
LEMMA SecretTroubleKept ==
  ASSUME SecretInv, page = "apikeys", calm' = FALSE, view' = view, \A c \in calls' : KeyCall(c)
  PROVE  SecretInv'
BY DEF SecretInv, KeyCall, KeyFields

LEMMA SecretOutsideKept ==
  ASSUME PageInv, SecretInv, page = "apikeys", Outside
  PROVE  SecretInv'
<1>1. \A c \in calls : KeyCall(c)
  BY DEF SecretInv
<1>2. CASE Served
  <2>1. PICK c \in calls : c.st = "sent" /\ Serve(c) /\ (calm' => calm)
    BY <1>2 DEF Served
  <2>2. page' = page /\ view' = view
    BY <1>2 DEF Served
  <2>3. KeyCall(c)
    BY <1>1
  <2>4. CASE ServeList(c)
    <3>1. PICK rows : Become(c, [c EXCEPT !.st = "ok", !.rows = rows]) /\ gw' = gw
      BY <2>4 DEF ServeList
    <3>2. PICK d : d = [c EXCEPT !.st = "ok", !.rows = rows]
      OBVIOUS
    <3>3. DOMAIN d = DOMAIN c /\ d.op = c.op /\ d.do = c.do /\ d.arg = c.arg /\ d.cap = c.cap /\ c.op = "list"
      BY <2>3, <2>4, <3>2 DEF KeyCall, ServeList
    <3>4. \A i : Live(i) => Live(i)'
      BY <3>1 DEF Live
    <3>. QED
      BY <2>1, <2>2, <3>1, <3>2, <3>3, <3>4, SecretBecomeKept
  <2>5. CASE ServeCreate(c) /\ DOMAIN gw = Ids
    <3>1. PICK d : d = [c EXCEPT !.st = "fail"] /\ Become(c, d) /\ gw' = gw
      BY <2>5 DEF ServeCreate
    <3>2. DOMAIN d = DOMAIN c /\ d.op = c.op /\ d.do = c.do /\ d.arg = c.arg /\ d.cap = c.cap /\ d.st = "fail"
      BY <2>3, <3>1 DEF KeyCall
    <3>3. \A i : Live(i) => Live(i)'
      BY <3>1 DEF Live
    <3>. QED
      BY <2>1, <2>2, <3>1, <3>2, <3>3, SecretBecomeKept
  <2>6. CASE ServeCreate(c) /\ DOMAIN gw # Ids
    <3>1. PICK k \in Ids \ DOMAIN gw : gw' = PutRow(gw, k, NewRow) /\ Become(c, [c EXCEPT !.st = "ok", !.got = k])
      BY <2>6 DEF ServeCreate
    <3>2. PICK d : d = [c EXCEPT !.st = "ok", !.got = k]
      OBVIOUS
    <3>3. DOMAIN d = DOMAIN c /\ d.op = c.op /\ d.do = c.do /\ d.arg = c.arg /\ d.cap = c.cap /\ d.got = k
      BY <2>3, <3>2 DEF KeyCall
    <3>4. k \in DOMAIN gw' /\ gw'[k] = NewRow /\ \A i \in DOMAIN gw : i \in DOMAIN gw' /\ gw'[i] = gw[i]
      BY <3>1 DEF PutRow
    <3>5. (\A i : Live(i) => Live(i)') /\ Live(k)'
      BY <3>4 DEF Live, NewRow
    <3>. QED
      BY <2>1, <2>2, <3>1, <3>2, <3>3, <3>5, SecretBecomeKept
  <2>7. CASE ServePut(c) /\ PutRefused(c)
    <3>1. PICK d : d = [c EXCEPT !.st = "fail"] /\ Become(c, d) /\ gw' = gw
      BY <2>7 DEF ServePut
    <3>2. DOMAIN d = DOMAIN c /\ d.op = c.op /\ d.do = c.do /\ d.arg = c.arg /\ d.cap = c.cap /\ d.st = "fail"
      BY <2>3, <3>1 DEF KeyCall
    <3>3. \A i : Live(i) => Live(i)'
      BY <3>1 DEF Live
    <3>. QED
      BY <2>1, <2>2, <3>1, <3>2, <3>3, SecretBecomeKept
  <2>8. CASE ServePut(c) /\ ~PutRefused(c)
    <3>1. PICK n, row : /\ gw' = [gw EXCEPT ![c.arg] = row]
                        /\ Become(c, [c EXCEPT !.st = "ok", !.got = c.arg, !.ver = n])
      BY <2>8 DEF ServePut
    <3>2. PICK d : d = [c EXCEPT !.st = "ok", !.got = c.arg, !.ver = n]
      OBVIOUS
    <3>3. DOMAIN d = DOMAIN c /\ d.op = c.op /\ d.do = c.do /\ d.arg = c.arg /\ d.cap = c.cap /\ d.st = "ok"
      BY <2>3, <3>2 DEF KeyCall
    <3>4. c.op = "revoke"
      BY <2>3, <2>8 DEF KeyCall, ServePut
    <3>5. \A i : Live(i) => Live(i)' \/ Revoked(d, i)
      BY <3>1, <3>3, <3>4 DEF Live, Revoked
    <3>. QED
      BY <2>1, <2>2, <3>1, <3>2, <3>3, <3>4, <3>5, SecretBecomeKept
  <2>9. ~ServeGet(c) /\ ~ServeUpsert(c) /\ ~ServeDelete(c) /\ ~ServeRun(c) /\ ~ServeMerge(c)
    BY <2>3 DEF KeyCall, ServeGet, ServeUpsert, ServeDelete, ServeRun, ServeMerge
  <2>. QED
    BY <2>1, <2>4, <2>5, <2>6, <2>7, <2>8, <2>9 DEF Serve
<1>3. CASE Refused
  <2>1. PICK c, st : c \in calls /\ Become(c, [c EXCEPT !.st = st])
    BY <1>3 DEF Refused
  <2>2. PICK d : d = [c EXCEPT !.st = st]
    OBVIOUS
  <2>3. KeyCall(d)
    BY <1>1, <2>1, <2>2 DEF KeyCall
  <2>. QED
    BY <1>1, <1>3, <2>1, <2>2, <2>3, SecretTroubleKept DEF Refused, Trouble, Become
<1>4. CASE AnswerLost
  <2>1. PICK c \in calls : Become(c, [c EXCEPT !.st = "fail", !.got = NoRow, !.ver = 0])
    BY <1>4 DEF AnswerLost
  <2>2. PICK d : d = [c EXCEPT !.st = "fail", !.got = NoRow, !.ver = 0]
    OBVIOUS
  <2>3. KeyCall(d)
    BY <1>1, <2>2 DEF KeyCall
  <2>. QED
    BY <1>1, <1>4, <2>1, <2>2, <2>3, SecretTroubleKept DEF AnswerLost, Trouble, Become
<1>5. CASE Elsewhere
  BY <1>1, <1>5, SecretTroubleKept DEF Elsewhere, Trouble
<1>. QED
  BY <1>2, <1>3, <1>4, <1>5 DEF Outside

\* What the handlers of the page do to the secret: nothing, but for two answers.
LEMMA SecretFieldsKept ==
  ASSUME NEW v, DOMAIN v = KeyFields
  PROVE  /\ DOMAIN Loading(v) = KeyFields /\ Loading(v).last = v.last /\ Loading(v).secret = v.secret
         /\ DOMAIN CloseDialog(v) = KeyFields
         /\ CloseDialog(v).last = v.last /\ CloseDialog(v).secret = v.secret
         /\ \A tag : /\ DOMAIN Ends(v, tag) = KeyFields
                     /\ Ends(v, tag).last = v.last /\ Ends(v, tag).secret = v.secret
         /\ \A tag, what, i : /\ DOMAIN Flag(v, tag, what, i) = KeyFields
                              /\ Flag(v, tag, what, i).last = v.last /\ Flag(v, tag, what, i).secret = v.secret
<1>1. DOMAIN Loading(v) = KeyFields /\ Loading(v).last = v.last /\ Loading(v).secret = v.secret
  BY DEF KeyFields, Loading
<1>2. DOMAIN CloseDialog(v) = KeyFields /\ CloseDialog(v).last = v.last /\ CloseDialog(v).secret = v.secret
  BY DEF KeyFields, CloseDialog
<1>3. \A tag : /\ DOMAIN Ends(v, tag) = KeyFields
               /\ Ends(v, tag).last = v.last /\ Ends(v, tag).secret = v.secret
  BY DEF KeyFields, Ends
<1>4. \A tag, what, i : /\ DOMAIN Flag(v, tag, what, i) = KeyFields
                        /\ Flag(v, tag, what, i).last = v.last /\ Flag(v, tag, what, i).secret = v.secret
  BY DEF KeyFields, Flag
<1>. QED
  BY <1>1, <1>2, <1>3, <1>4

LEMMA FilteredIs ==
  ASSUME NEW q, NEW keep, NEW tail
  PROVE  KeyCall(Filtered(q, keep, tail)) /\ Filtered(q, keep, tail).op = "list" /\ Filtered(q, keep, tail).st = "sent"
BY DEF Filtered, List, Call, Request, KeyCall

LEMMA SecretKeysKept ==
  ASSUME PageInv, SecretInv, page = "apikeys", ApiKeysNext
  PROVE  SecretInv'
<1>1. DOMAIN view = KeyFields /\ \A c \in calls : KeyCall(c)
  BY DEF SecretInv
<1>2. ASSUME NEW q, NEW keep, NEW v, DOMAIN v = KeyFields, v.last = view.last, v.secret = view.secret,
             Ask(Filtered(q, keep, "none"), Loading(v))
      PROVE  SecretInv'
  BY <1>1, <1>2, FilteredIs, SecretFieldsKept, SecretAskKept
<1>3. CASE ApiKeysLoaded
  <2>1. PICK c, i : LET v == Ends(Loaded(view, c), c.tail) IN
          c \in calls /\ c.op = "list" /\ Answer(c, IF Ok(c) THEN [v EXCEPT !.sel = i, !.of = c.arg] ELSE v)
    BY <1>3 DEF ApiKeysLoaded, Answered
  <2>2. PICK u, v, w : /\ u = Loaded(view, c) /\ v = Ends(u, c.tail)
                       /\ w = IF Ok(c) THEN [v EXCEPT !.sel = i, !.of = c.arg] ELSE v
    OBVIOUS
  <2>3. DOMAIN u = KeyFields /\ u.last = view.last /\ u.secret = view.secret
    BY <1>1, <2>2 DEF Loaded, Heard, KeyFields
  <2>4. DOMAIN v = KeyFields /\ v.last = view.last /\ v.secret = view.secret
    BY <2>2, <2>3, SecretFieldsKept
  <2>5. DOMAIN w = KeyFields /\ w.last = view.last /\ w.secret = view.secret
    BY <2>2, <2>4 DEF KeyFields
  <2>6. c.op = "list" /\ Answer(c, w)
    BY <2>1, <2>2
  <2>. QED
    BY <1>1, <2>1, <2>5, <2>6, SecretAnswerKept
<1>4. CASE ApiKeysSearch
  <2>1. PICK q : Ask(Filtered(q, NoRow, "none"), Loading([view EXCEPT !.q = q]))
    BY <1>4 DEF ApiKeysSearch
  <2>2. PICK v : v = [view EXCEPT !.q = q]
    OBVIOUS
  <2>3. DOMAIN v = KeyFields /\ v.last = view.last /\ v.secret = view.secret
    BY <1>1, <2>2 DEF KeyFields
  <2>. QED
    BY <1>2, <2>1, <2>2, <2>3
<1>5. ASSUME NEW c \in calls, NEW tag, Answer(c, Ends(view, tag)), c.st # "ok" PROVE SecretInv'
  BY <1>1, <1>5, SecretFieldsKept, SecretAnswerKept
<1>6. CASE ApiKeysCreate
  <2>1. ASSUME Ask([Call("create", "create", NoRow) EXCEPT !.q = view.q, !.tail = "busy"],
                   Flag(view, "busy", "create", NoRow))
        PROVE  SecretInv'
    <3>1. PICK c : c = [Call("create", "create", NoRow) EXCEPT !.q = view.q, !.tail = "busy"]
      OBVIOUS
    <3>2. KeyCall(c) /\ c.op = "create" /\ c.st = "sent"
      BY <3>1 DEF Call, Request, KeyCall
    <3>3. PICK w : w = Flag(view, "busy", "create", NoRow)
      OBVIOUS
    <3>4. DOMAIN w = KeyFields /\ w.last = view.last /\ w.secret = view.secret
      BY <1>1, <3>3, SecretFieldsKept
    <3>5. Ask(c, w)
      BY <2>1, <3>1, <3>3
    <3>. QED
      BY <1>1, <3>2, <3>4, <3>5, SecretAskKept
  <2>2. ASSUME NEW c \in calls, c.op = "create", Ok(c),
               AnswerThen(c, Loading([view EXCEPT !.last = c.got, !.secret = TRUE]), Filtered(c.q, c.got, "busy"))
        PROVE  SecretInv'
    <3>1. PICK v, d, w : /\ v = [view EXCEPT !.last = c.got, !.secret = TRUE]
                         /\ d = Filtered(c.q, c.got, "busy") /\ w = Loading(v)
      OBVIOUS
    <3>2. DOMAIN v = KeyFields /\ v.last = c.got
      BY <1>1, <3>1 DEF KeyFields
    <3>3. DOMAIN w = KeyFields /\ w.last = c.got
      BY <3>1, <3>2, SecretFieldsKept
    <3>4. KeyCall(d) /\ d.op = "list"
      BY <3>1, FilteredIs
    <3>5. /\ view' = w /\ page' = page /\ gw' = gw /\ calls' = (calls \ {c}) \cup {d} /\ (calm' => calm)
      BY <2>2, <3>1 DEF AnswerThen, Ending
    <3>6. \A e \in calls' : e.op = "list"
      BY <2>2, <3>4, <3>5, OneKeyWrite
    <3>7. calm => Live(c.got)
      BY <2>2 DEF SecretInv, Ok
    <3>8. \A e \in calls' : KeyCall(e)
      BY <1>1, <3>4, <3>5
    <3>9. calm' => Live(view.last)'
      BY <3>3, <3>5, <3>7 DEF Live
    <3>10. DOMAIN view' = KeyFields
      BY <3>3, <3>5
    <3>11. calm' => /\ \A e \in calls' : e.op = "revoke" => e.cap = view'.last
                    /\ \A e \in calls' : e.op = "create" /\ e.st = "ok" => Live(e.got)'
                    /\ view'.secret => Live(view.last)' \/ \E e \in calls' : Revoked(e, view'.last)
      BY <3>6, <3>9
    <3>. QED
      BY <3>8, <3>10, <3>11 DEF SecretInv, Live, KeyFields, KeyCall, Revoked
  <2>. QED
    BY <1>5, <1>6, <2>1, <2>2 DEF ApiKeysCreate, Answered, Ok
<1>7. CASE ApiKeysHide
  <2>1. PICK w : w = [view EXCEPT !.secret = FALSE] /\ Local(w)
    BY <1>7 DEF ApiKeysHide
  <2>2. DOMAIN w = KeyFields /\ w.last = view.last /\ w.secret = FALSE
    BY <1>1, <2>1 DEF KeyFields
  <2>. QED
    BY <1>1, <2>1, <2>2, SecretLocalKept
<1>8. CASE ApiKeysRow
  <2>1. ASSUME NEW i, Local([CloseDialog(view) EXCEPT !.sel = i]) PROVE SecretInv'
    <3>1. PICK v, w : v = CloseDialog(view) /\ w = [v EXCEPT !.sel = i]
      OBVIOUS
    <3>2. DOMAIN v = KeyFields /\ v.last = view.last /\ v.secret = view.secret
      BY <1>1, <3>1, SecretFieldsKept
    <3>3. DOMAIN w = KeyFields /\ w.last = view.last /\ w.secret = view.secret
      BY <3>1, <3>2 DEF KeyFields
    <3>. QED
      BY <1>1, <2>1, <3>1, <3>3, SecretLocalKept
  <2>2. ASSUME NEW i, Local([view EXCEPT !.sel = i, !.ask = i, !.kind = "revoke"]) PROVE SecretInv'
    <3>1. PICK w : w = [view EXCEPT !.sel = i, !.ask = i, !.kind = "revoke"]
      OBVIOUS
    <3>2. DOMAIN w = KeyFields /\ w.last = view.last /\ w.secret = view.secret
      BY <1>1, <3>1 DEF KeyFields
    <3>. QED
      BY <1>1, <2>2, <3>1, <3>2, SecretLocalKept
  <2>. QED
    BY <1>8, <2>1, <2>2 DEF ApiKeysRow
<1>9. CASE ApiKeysRevoke
  <2>1. ASSUME Ask([Call("revoke", "close", view.ask) EXCEPT !.cap = view.last, !.q = view.q, !.tail = "busy"],
                   Flag(view, "busy", "revoke", view.ask))
        PROVE  SecretInv'
    <3>1. PICK c : c = [Call("revoke", "close", view.ask) EXCEPT !.cap = view.last, !.q = view.q, !.tail = "busy"]
      OBVIOUS
    <3>2. KeyCall(c) /\ c.cap = view.last /\ c.st = "sent"
      BY <3>1 DEF Call, Request, KeyCall
    <3>3. PICK w : w = Flag(view, "busy", "revoke", view.ask)
      OBVIOUS
    <3>4. DOMAIN w = KeyFields /\ w.last = view.last /\ w.secret = view.secret
      BY <1>1, <3>3, SecretFieldsKept
    <3>5. Ask(c, w)
      BY <2>1, <3>1, <3>3
    <3>. QED
      BY <1>1, <3>2, <3>4, <3>5, SecretAskKept
  <2>2. ASSUME NEW c \in calls, c.op = "revoke", Ok(c),
               AnswerThen(c, Loading(CloseDialog(WithoutSecret(view, c))), Filtered(c.q, c.arg, "busy"))
        PROVE  SecretInv'
    <3>1. PICK u, v, d, w : /\ u = WithoutSecret(view, c) /\ v = CloseDialog(u)
                            /\ d = Filtered(c.q, c.arg, "busy") /\ w = Loading(v)
      OBVIOUS
    <3>2. /\ DOMAIN u = KeyFields
          /\ c.cap = c.arg => u.secret = FALSE
          /\ c.cap # c.arg => u.last = view.last /\ u.secret = view.secret
      BY <1>1, <3>1 DEF WithoutSecret, KeyFields
    <3>3. DOMAIN w = KeyFields /\ w.last = u.last /\ w.secret = u.secret
      BY <3>1, <3>2, SecretFieldsKept
    <3>4. KeyCall(d) /\ d.op = "list"
      BY <3>1, FilteredIs
    <3>5. /\ view' = w /\ page' = page /\ gw' = gw /\ calls' = (calls \ {c}) \cup {d} /\ (calm' => calm)
      BY <2>2, <3>1 DEF AnswerThen, Ending
    <3>6. \A e \in calls' : e.op = "list"
      BY <2>2, <3>4, <3>5, OneKeyWrite
    <3>7. calm /\ w.secret => Live(w.last)
      <4>1. SUFFICES ASSUME calm, w.secret PROVE Live(w.last)
        OBVIOUS
      <4>2. c.cap # c.arg /\ w.last = view.last /\ view.secret
        BY <3>2, <3>3, <4>1
      <4>3. c.cap = view.last
        BY <2>2, <4>1 DEF SecretInv
      <4>4. \A e \in calls : ~Revoked(e, view.last)
        BY <2>2, <4>2, <4>3, OneKeyWrite DEF Revoked
      <4>. QED
        BY <4>1, <4>2, <4>4 DEF SecretInv
    <3>8. \A e \in calls' : KeyCall(e)
      BY <1>1, <3>4, <3>5
    <3>9. calm' /\ view'.secret => Live(view.last)'
      BY <3>5, <3>7 DEF Live
    <3>10. DOMAIN view' = KeyFields
      BY <3>3, <3>5
    <3>11. calm' => /\ \A e \in calls' : e.op = "revoke" => e.cap = view'.last
                    /\ \A e \in calls' : e.op = "create" /\ e.st = "ok" => Live(e.got)'
                    /\ view'.secret => Live(view.last)' \/ \E e \in calls' : Revoked(e, view'.last)
      BY <3>6, <3>9
    <3>. QED
      BY <3>8, <3>10, <3>11 DEF SecretInv, Live, KeyFields, KeyCall, Revoked
  <2>. QED
    BY <1>5, <1>9, <2>1, <2>2 DEF ApiKeysRevoke, Answered, Ok
<1>10. CASE CancelDialog
  BY <1>1, <1>10, SecretFieldsKept, SecretLocalKept DEF CancelDialog
<1>11. CASE Ask(Filtered(view.q, view.sel, "none"), Loading(view))
  BY <1>1, <1>2, <1>11
<1>. QED
  BY <1>3, <1>4, <1>6, <1>7, <1>8, <1>9, <1>10, <1>11 DEF ApiKeysNext

\* The page that is mounted changes only when it is left.
LEMMA PageStays ==
  ASSUME [Next]_vars
  PROVE  page' \in {page, "left"}
<1>1. CASE UNCHANGED vars
  BY <1>1 DEF vars
<1>2. CASE Outside
  BY <1>2 DEF Outside, Served, Refused, AnswerLost, Elsewhere
<1>3. CASE SessionsNext
  BY <1>3 DEF Local, AskAll, Ask, Ending, Answer, Write, RefreshWhen, LeavePage, SessionsLoaded, SessionsForm,
       SessionsCreate, SessionsCreated, SessionsMode, SessionsRemove, SessionsNext
<1>4. CASE AgentsNext
  BY <1>4 DEF Local, AskAll, Ask, Ending, Answer, AnswerThen, Write, WroteThenLoads, RefreshWhen, ListArrives,
       AgentsPick, AgentsForm, AgentsSave, AgentsSaved, AgentsRemove, AgentsNext
<1>5. CASE ChannelsNext
  BY <1>5 DEF Local, AskAll, Ask, Ending, Answer, AnswerThen, Write, WroteThenLoads, RefreshWhen, ChannelsLoaded,
       ChannelsType, ChannelsPolicy, ChannelsAllow, ChannelsSecret, ChannelsTest, ChannelsLogout,
       ChannelsNext
<1>6. CASE PairingNext
  BY <1>6 DEF Local, AskAll, Ask, Ending, Answer, AnswerThen, Write, WroteThenLoads, RefreshWhen, ListArrives,
       OpenDialog, CancelDialog, PairingApprove, PairingDeny, PairingNext
<1>7. CASE PendingNext
  BY <1>7 DEF Local, AskAll, Ask, Ending, Answer, AnswerThen, Write, WroteThenLoads, RefreshWhen, ListArrives,
       OpenDialog, CancelDialog, PendingOpen, PendingSubmit, PendingDone, PendingNext
<1>8. CASE ContactsNext
  BY <1>8 DEF Local, AskAll, Ask, Ending, Answer, AnswerThen, Write, WroteThenLoads, RefreshWhen, ListArrives,
       ContactsSelect, ContactsOpenMerge, ContactsOpenUndo, ContactsDialog, ContactsSubmit,
       ContactsDone, ContactsNext
<1>9. CASE TeamsNext
  BY <1>9 DEF Local, AskAll, Ask, Ending, Answer, AnswerThen, ListArrives, TeamsDetail, TeamsSelect, TeamsCreate,
       TeamsSave, TeamsChange, TeamsDelete, TeamsRefresh, TeamsNext
<1>10. CASE ApprovalsNext
  BY <1>10 DEF Local, AskAll, Ask, Ending, Answer, AnswerThen, Write, RefreshWhen, ListArrives, OpenDialog,
       CancelDialog, ApprovalsPoll, ApprovalsQuiet, ApprovalsOpen, ApprovalsSubmit, ApprovalsDone,
       ApprovalsNext
<1>11. CASE NodesNext
  BY <1>11 DEF Local, AskAll, Ask, Ending, Answer, AnswerThen, Write, WroteThenLoads, RefreshWhen, ListArrives,
       OpenDialog, CancelDialog, NodesOpen, NodesSubmit, NodesDone, NodesNext
<1>12. CASE ActivityNext
  BY <1>12 DEF Local, AskAll, Ask, Ending, Answer, ActivityLoaded, ActivityFilter, ActivityPageTurn, ActivityOpen,
       ActivityNext
<1>13. CASE TracesNext
  BY <1>13 DEF Local, AskAll, Ask, Ending, Answer, TracesLoaded, TracesFilter, TracesPageTurn, TracesOpen,
       TracesDetail, TracesUnhash, TracesNext
<1>14. CASE OverviewNext
  BY <1>14 DEF Ending, Answer, OverviewPull, OverviewPulled, OverviewNext
<1>15. CASE MetricsNext
  BY <1>15 DEF AskAll, Ask, Ending, Answer, AnswerThen, ReportLoad, ReportHealth, MetricsArrive, MetricsNext
<1>16. CASE HeatmapNext
  BY <1>16 DEF AskAll, Ask, Ending, Answer, AnswerThen, ReportLoad, ReportHealth, HeatmapArrives, HeatmapNext
<1>17. CASE ApiKeysNext
  BY <1>17 DEF Local, AskAll, Ask, Ending, Answer, AnswerThen, CancelDialog, ApiKeysLoaded, ApiKeysSearch,
       ApiKeysCreate, ApiKeysHide, ApiKeysRow, ApiKeysRevoke, ApiKeysNext
<1>18. CASE WebhooksNext
  BY <1>18 DEF Local, AskAll, Ask, Ending, Answer, AnswerThen, Write, WroteThenLoads, RefreshWhen, ListArrives,
       WebhooksForm, WebhooksCreate, WebhooksRotate, WebhooksRevoke, WebhooksTry, WebhooksHide,
       WebhooksNext
<1>19. CASE TenantsNext
  BY <1>19 DEF Local, AskAll, Ask, Ending, Answer, AnswerThen, Write, OpenDialog, CancelDialog, TenantsLoaded,
       TenantsSearch, TenantsPick, WriteOf, TenantsWrite, TenantsDialog, TenantsWrote, TenantsNext
<1>20. CASE SettingsNext
  BY <1>20 DEF Local, AskAll, Ask, Ending, Answer, AnswerThen, Write, LeavePage, SettingsLoaded, SettingsSection,
       SettingsSave, SettingsSaved, SettingsPairing, SettingsToken, SettingsNext
<1>21. CASE VaultNext
  BY <1>21 DEF Local, AskAll, Ask, Ending, Answer, AnswerThen, RefreshWhen, VaultLoaded, VaultOpen, VaultSearch,
       VaultForm, VaultPut, VaultSync, VaultNext
<1>22. CASE MemoryNext
  BY <1>22 DEF Local, AskAll, Ask, Ending, Answer, AnswerThen, RefreshWhen, MemoryLoaded, MemoryOpen, MemoryForm,
       MemoryPost, MemorySave, MemoryRemove, MemoryNext
<1>23. CASE KgNext
  BY <1>23 DEF Local, AskAll, Ask, AskBoth, Ending, Answer, ListArrives, KgSelect, KgRefresh, KgArrives, KgOpen,
       KgNext
<1>24. CASE StorageNext
  BY <1>24 DEF Local, AskAll, Ask, Ending, Answer, AnswerThen, Write, OpenDialog, StorageLoaded, StorageOpenDir,
       StorageOpenFile, StorageTransfer, StorageRemove, StorageNext
<1>25. CASE ImpExpNext
  BY <1>25 DEF Local, AskAll, Ask, Ending, Answer, AnswerThen, Write, WroteThenLoads, RefreshWhen, ListArrives,
       ImpExpPick, ImpExpExport, ImpExpFile, ImpExpImport, ImpExpRollback, ImpExpNext
<1>26. CASE BackupNext
  BY <1>26 DEF Local, AskAll, Ask, Ending, Answer, AnswerThen, Write, WroteThenLoads, RefreshWhen, BackupLoaded,
       BackupType, BackupCreate, BackupPlan, BackupRun, BackupS3, BackupNext
<1>27. CASE SkillsNext
  BY <1>27 DEF Local, AskAll, Ask, Ending, Answer, AnswerThen, NumberedArrives, SkillsLoad, SkillsForm,
       SkillsWrite, SkillsNext
<1>28. CASE ToolsNext
  BY <1>28 DEF Local, AskAll, Ask, AskBoth, Ending, Answer, AnswerThen, ListArrives, ToolsSelect, ToolsRefresh,
       ToolsArrive, ToolsToggle, ToolsNext
<1>29. CASE CronNext
  BY <1>29 DEF Local, AskAll, Ask, Ending, Answer, AnswerThen, RefreshWhen, CronLoaded, CronForm, CronWrite,
       CronNext
<1>30. CASE ConnectorsNext
  BY <1>30 DEF Local, AskAll, Ask, Ending, Answer, AnswerThen, Write, WroteThenLoads, RefreshWhen,
       ConnectorsLoaded, ConnectorsPick, ConnectorsCreate, ConnectorsSave, ConnectorsChange,
       ConnectorsTest, ConnectorsNext
<1>31. CASE PackagesNext
  BY <1>31 DEF Local, AskAll, Ask, Ending, Answer, AnswerThen, Write, RefreshWhen, OpenDialog, PackagesLoaded,
       PackagesPoll, PackagesWrite, PackagesAsk, PackagesConfirm, PackagesNext
<1>32. CASE WorkstationsNext
  BY <1>32 DEF Local, AskAll, Ask, Ending, Answer, AnswerThen, Write, WroteThenLoads, RefreshWhen, ListArrives,
       OpenDialog, CancelDialog, WorkstationsForm, WorkstationsSave, WorkstationsTest,
       WorkstationsDialog, WorkstationsNext
<1>33. CASE ProvidersNext
  BY <1>33 DEF Local, AskAll, Ask, Ending, Answer, AnswerThen, Write, WroteThenLoads, RefreshWhen, ListArrives,
       ProvidersForm, ProvidersSave, ProvidersClear, ProvidersTest, ProvidersNext
<1>34. CASE TtsNext
  BY <1>34 DEF Local, AskAll, Ask, Ending, Answer, Write, RefreshWhen, TtsLoaded, TtsForm, TtsWrite, TtsNext
<1>35. CASE MarketingNext
  BY <1>35 DEF Local, AskAll, Ask, Ending, Answer, AnswerThen, NumberedArrives, MarketingLoad, MarketingHealth,
       MarketingForm, MarketingWrite, MarketingNext
<1>. QED
  BY <1>1, <1>2, <1>3, <1>4, <1>5, <1>6, <1>7, <1>8, <1>9, <1>10, <1>11, <1>12, <1>13, <1>14, <1>15, <1>16,
     <1>17, <1>18, <1>19, <1>20, <1>21, <1>22, <1>23, <1>24, <1>25, <1>26, <1>27, <1>28, <1>29, <1>30, <1>31,
     <1>32, <1>33, <1>34, <1>35 DEF Next

LEMMA SecretInitKept ==
  ASSUME Init
  PROVE  SecretInv
<1>. SUFFICES ASSUME page = "apikeys" PROVE SecretInv
  BY DEF SecretInv
<1>1. view = ApiKeysView /\ calls = {Request("list", "list", NoRow)}
  BY DEF Init, Blank, FirstCall
<1>2. PICK r : r = [sel |-> NoRow, q |-> NoRow, of |-> NoRow, last |-> NoRow, secret |-> FALSE,
                    ask |-> NoRow, kind |-> "none"] /\ view = Extended(BlankList, r)
  BY <1>1 DEF ApiKeysView
<1>3. DOMAIN r = {"sel", "q", "of", "last", "secret", "ask", "kind"} /\ r["secret"] = FALSE
  BY <1>2
<1>4. DOMAIN BlankList = {"loading", "loaded", "err", "rows", "busy"}
  BY DEF BlankList
<1>5. DOMAIN view = KeyFields
  <2>1. DOMAIN view = DOMAIN BlankList \cup DOMAIN r
    BY <1>2, ExtendedIs
  <2>. QED
    BY <1>3, <1>4, <2>1 DEF KeyFields
<1>6. view.secret = FALSE
  BY <1>2, <1>3, <1>4 DEF Extended
<1>7. \A c \in calls : KeyCall(c) /\ c.op = "list"
  BY <1>1 DEF Request, KeyCall
<1>. QED
  BY <1>5, <1>6, <1>7 DEF SecretInv

LEMMA SecretKept ==
  ASSUME PageInv, SecretInv, [Next]_vars
  PROVE  SecretInv'
<1>. SUFFICES ASSUME page' = "apikeys" PROVE SecretInv'
  BY DEF SecretInv
<1>1. page = "apikeys"
  BY PageStays
<1>2. CASE UNCHANGED vars
  BY <1>2 DEF vars, SecretInv, Live, KeyFields, KeyCall, Revoked
<1>3. CASE Outside
  BY <1>1, <1>3, SecretOutsideKept
<1>4. CASE ApiKeysNext
  BY <1>1, <1>4, SecretKeysKept
<1>. QED
  BY <1>1, <1>2, <1>3, <1>4 DEF Next

\* When all went in order and is answered, a secret the API keys page still shows opens
\* something: the key it belongs to is there and was not revoked.  The argument is that one
\* thing is written at a time, so between the revocation of a key and its answer no other
\* secret can have taken the place of the one the handler captured.
THEOREM SecretsAreOfLiveKeys == Spec => []SecretIsOfLiveKey
<1>1. Init => SecretInv
  BY SecretInitKept
<1>2. PageInv /\ SecretInv /\ [Next]_vars => SecretInv'
  BY SecretKept
<1>3. SecretInv => SecretIsOfLiveKey
  BY DEF SecretInv, SecretIsOfLiveKey, Live
<1>. QED
  BY <1>1, <1>2, <1>3, PagesAreSound, PTL DEF Spec
=============================================================================
