------------------------- MODULE PermissionQueueProofs -------------------------
(***************************************************************************)
(* For any number of requests of each kind, with or without claude.ai and  *)
(* a channel: the user's answer agrees with the call's, no settled request *)
(* keeps its dialog, none stays open elsewhere.                            *)
(*                                                                         *)
(* The three follow from `Sound', which relates, request by request, the   *)
(* claim, the decision, what claude.ai was told, the stage and the place   *)
(* in the queue, and says that what is shown, if it still waits, is the    *)
(* head: that is why an answer removes the dialog that was answered.       *)
(* Each helper of the actions (Decide, Tell, Without, Become) is shown to  *)
(* preserve `Sound' on its own; the actions are combinations of them.      *)
(***************************************************************************)
EXTENDS PermissionQueue, TLAPS

\* A request x whose place in the queue is p.
Coherent(r, x, p) ==
    /\ x.claimed => ~x.asking /\ ~x.bridge /\ ~x.channel /\ ~x.classifier /\ ~x.recheck
    /\ x.claimed => x.decision # "none" \/ x.allowing
    /\ x.told # "none" => x.claimed
    /\ x.told = "allow" => x.allowing \/ x.decision = "allow"
    /\ x.told = "deny" => x.decision = "reject"
    /\ x.allowing => x.claimed /\ x.decision = "none"
    /\ x.decision # "none" => x.claimed
    /\ x.stage = "done" => x.decision # "none"
    /\ x.decision # "none" => x.stage = "done" \/ (r \in Workers /\ x.stage = "opening")
    /\ r \notin Mains => x.told = "none" /\ ~x.allowing
    /\ r \notin Workers /\ x.stage \in {"checking", "opening"} => ~x.claimed
    /\ p # 0 => x.stage \in {"open", "done"}
    /\ p # 0 /\ r \notin Workers /\ x.claimed => x.checkmark

\* If s is in the queue q, nothing is before it.
Leads(q, s) == q[s] # 0 => \A x \in Requests : q[x] # 0 => q[s] <= q[x]

Sound(rq, q, s) ==
    /\ rq \in [Requests -> Request] /\ q \in [Requests -> Nat]
    /\ s \in Requests \cup {NoRequest}
    /\ \A r \in Requests : Coherent(r, rq[r], q[r])
    /\ s \in Requests => rq[s].stage \in {"open", "done"} /\ Leads(q, s)

Inv == Sound(req, queue, shown)

\* The variables that `Sound' does not mention.
Rests ==
    /\ typing \in BOOLEAN /\ typings \in 0 .. MaxTypings
    /\ turn \in {"running", "aborted", "released"}
    /\ ruled \in BOOLEAN /\ dropped \subseteq Requests

-----------------------------------------------------------------------------
\* The queue q2 is what is left of q.
Shrinks(q, q2) ==
    /\ q2 \in [Requests -> Nat]
    /\ \A x \in Requests : q2[x] # 0 => q[x] # 0
    /\ \A s \in Requests : Leads(q, s) => Leads(q2, s)

LEMMA SameShrinks == \A q \in [Requests -> Nat] : Shrinks(q, q)
BY DEF Shrinks

LEMMA NobodyShrinks == \A q \in [Requests -> Nat] : Shrinks(q, Nobody)
BY DEF Shrinks, Leads, Nobody

\* Who leaves the queue is out of it, the others stay in their order.
LEMMA WithoutShrinks ==
    ASSUME NEW q \in [Requests -> Nat], NEW r \in Requests
    PROVE  Shrinks(q, Without(q, r)) /\ Without(q, r)[r] = 0
<1> DEFINE w == Without(q, r)
<1>1. w = [x \in Requests |-> IF x = r THEN 0
             ELSE IF q[r] # 0 /\ q[x] > q[r] THEN q[x] - 1 ELSE q[x]]
  BY DEF Without
<1>2. \A x \in Requests : w[x] \in Nat BY <1>1
<1>3. w \in [Requests -> Nat] BY <1>1, <1>2
<1>4. ASSUME NEW s \in Requests, Leads(q, s), w[s] # 0, NEW x \in Requests, w[x] # 0
      PROVE  w[s] <= w[x]
  <2>1. s # r /\ x # r BY <1>1, <1>4
  <2>2. q[s] # 0 /\ q[x] # 0 /\ q[s] <= q[x] BY <1>1, <1>4, <2>1 DEF Leads
  <2> QED BY <1>1, <2>1, <2>2
<1> QED BY <1>1, <1>3, <1>4 DEF Leads, Shrinks

\* An answer takes the head away.
LEMMA RestShrinks ==
    ASSUME queue \in [Requests -> Nat]
    PROVE  /\ Shrinks(queue, Rest)
           /\ \A r \in Requests : Leads(queue, r) => Rest[r] = 0
BY DEF Shrinks, Leads, Rest, First, Queued

\* What was typed of an abort: the checkmarks go, and their dialogs.
LEMMA DeafFacts ==
    ASSUME NEW rq \in [Requests -> Request]
    PROVE  /\ Deaf(rq) \in [Requests -> Request]
           /\ \A r \in Requests :
                /\ Deaf(rq)[r].bridge => rq[r].bridge
                /\ Deaf(rq)[r].channel => rq[r].channel
                /\ Deaf(rq)[r].checkmark => rq[r].checkmark
                /\ Deaf(rq)[r].stage = rq[r].stage /\ Deaf(rq)[r].decision = rq[r].decision
                /\ Deaf(rq)[r].told = rq[r].told
                /\ Deaf(rq)[r].claimed <=> rq[r].claimed
                /\ Deaf(rq)[r].allowing <=> rq[r].allowing
                /\ Deaf(rq)[r].asking <=> rq[r].asking
                /\ Deaf(rq)[r].classifier <=> rq[r].classifier
                /\ Deaf(rq)[r].recheck <=> rq[r].recheck
<1>1. ASSUME NEW x \in Request
      PROVE  [x EXCEPT !.bridge = FALSE, !.channel = FALSE, !.checkmark = FALSE] \in Request
  BY <1>1 DEF Request
<1>2. Deaf(rq) \in [Requests -> Request]
  BY <1>1 DEF Deaf
<1>3. ASSUME NEW r \in Requests
      PROVE  /\ Deaf(rq)[r].bridge => rq[r].bridge
             /\ Deaf(rq)[r].channel => rq[r].channel
             /\ Deaf(rq)[r].checkmark => rq[r].checkmark
             /\ Deaf(rq)[r].stage = rq[r].stage /\ Deaf(rq)[r].decision = rq[r].decision
             /\ Deaf(rq)[r].told = rq[r].told
             /\ Deaf(rq)[r].claimed <=> rq[r].claimed
             /\ Deaf(rq)[r].allowing <=> rq[r].allowing
             /\ Deaf(rq)[r].asking <=> rq[r].asking
             /\ Deaf(rq)[r].classifier <=> rq[r].classifier
             /\ Deaf(rq)[r].recheck <=> rq[r].recheck
  <2>1. rq[r] \in Request BY <1>3
  <2> QED BY <2>1 DEF Deaf, Request
<1> QED BY <1>2, <1>3

\* What a claim and a decision change.
LEMMA ClaimedFacts ==
    ASSUME NEW x \in Request
    PROVE  /\ Claimed(x) \in Request
           /\ LET y == Claimed(x) IN
              /\ y.claimed /\ ~y.asking /\ ~y.bridge /\ ~y.channel
              /\ ~y.classifier /\ ~y.recheck
              /\ y.stage = x.stage /\ y.decision = x.decision /\ y.allowing = x.allowing
              /\ y.told = x.told /\ y.hook = x.hook /\ y.checkmark = x.checkmark
BY DEF Claimed, Request

LEMMA DecidedFacts ==
    ASSUME NEW x \in Request, NEW r, NEW d \in {"allow", "reject"}
    PROVE  /\ Decided(r, x, d) \in Request
           /\ LET y == Decided(r, x, d) IN
              /\ y.claimed /\ ~y.asking /\ ~y.bridge /\ ~y.channel
              /\ ~y.classifier /\ ~y.recheck
              /\ y.stage = (IF r \in Workers /\ x.stage = "opening"
                            THEN "opening" ELSE "done")
              /\ y.decision = d /\ y.allowing = x.allowing
              /\ y.told = x.told /\ y.hook = x.hook /\ y.checkmark = x.checkmark
<1>1. Claimed(x) \in Request BY ClaimedFacts
<1> QED BY <1>1, ClaimedFacts DEF Decided, Request

-----------------------------------------------------------------------------
\* One request changes and the queue may shrink.
LEMMA PutSound ==
    ASSUME NEW rq, NEW q, NEW s, Sound(rq, q, s), NEW q2, Shrinks(q, q2),
           NEW r \in Requests, NEW y \in Request, Coherent(r, y, q2[r]),
           s = r => y.stage \in {"open", "done"}
    PROVE  Sound([rq EXCEPT ![r] = y], q2, s)
<1> DEFINE z == [rq EXCEPT ![r] = y]
<1>1. z \in [Requests -> Request] /\ z[r] = y /\ \A x \in Requests : x # r => z[x] = rq[x]
  BY DEF Sound
<1>2. ASSUME NEW x \in Requests, x # r PROVE Coherent(x, z[x], q2[x])
  BY <1>1, <1>2 DEF Sound, Shrinks, Coherent
<1> QED BY <1>1, <1>2 DEF Sound, Shrinks

\* Only the queue shrinks.
LEMMA ShrinkSound ==
    ASSUME NEW rq, NEW q, NEW s, Sound(rq, q, s), NEW q2, Shrinks(q, q2)
    PROVE  Sound(rq, q2, s)
BY DEF Sound, Shrinks, Coherent

\* The winner of a request decides it; its dialog goes, if it has one.
LEMMA DecideSound ==
    ASSUME NEW rq, NEW q, NEW s, Sound(rq, q, s), NEW q2, Shrinks(q, q2),
           NEW r \in Requests, ~rq[r].claimed, NEW d \in {"allow", "reject"},
           q2[r] = 0 \/ r \in Workers \/ rq[r].checkmark
    PROVE  Sound(Decide(rq, r, d), q2, s)
<1>1. rq[r] \in Request /\ Coherent(r, rq[r], q[r]) BY DEF Sound
<1>2. Coherent(r, Decided(r, rq[r], d), q2[r])
  BY <1>1, DecidedFacts DEF Coherent, Shrinks
<1>3. s = r => Decided(r, rq[r], d).stage \in {"open", "done"}
  BY <1>1, DecidedFacts DEF Sound
<1> QED BY <1>1, <1>2, <1>3, PutSound, DecidedFacts DEF Decide

\* A request that no longer listens, and whose checkmark is gone, stays coherent.
LEMMA MutedCoherent ==
    ASSUME NEW r, NEW x \in Request, NEW y \in Request, NEW p, NEW p2, Coherent(r, x, p),
           p2 # 0 => p # 0 /\ ~x.checkmark,
           y.stage = x.stage, (y.claimed <=> x.claimed), y.decision = x.decision,
           y.told = x.told, (y.allowing <=> x.allowing), (y.asking <=> x.asking),
           (y.classifier <=> x.classifier), (y.recheck <=> x.recheck),
           y.bridge => x.bridge, y.channel => x.channel
    PROVE  Coherent(r, y, p2)
BY DEF Coherent, Request

\* The turn aborts.
LEMMA AbortSound ==
    ASSUME NEW rq, NEW q, NEW s, Sound(rq, q, s),
           NEW q2, q2 = [r \in Requests |-> IF rq[r].checkmark THEN 0 ELSE q[r]]
    PROVE  Sound(Deaf(rq), q2, s)
<1>1. rq \in [Requests -> Request] /\ q \in [Requests -> Nat] BY DEF Sound
<1>2. Shrinks(q, q2)
  BY <1>1 DEF Shrinks, Leads
<1>3. ASSUME NEW r \in Requests PROVE Coherent(r, Deaf(rq)[r], q2[r])
  <2>1. Coherent(r, rq[r], q[r]) /\ rq[r] \in Request /\ Deaf(rq)[r] \in Request
    BY <1>1, DeafFacts DEF Sound
  <2>2. q2[r] # 0 => q[r] # 0 /\ ~rq[r].checkmark OBVIOUS
  <2> QED BY <1>1, <2>1, <2>2, DeafFacts, MutedCoherent
<1>4. \A r \in Requests : Deaf(rq)[r].stage = rq[r].stage BY <1>1, DeafFacts
<1> QED BY <1>1, <1>2, <1>3, <1>4, DeafFacts DEF Sound, Shrinks

\* The end of most actions: the turn may abort.
LEMMA BecomeSound ==
    ASSUME NEW rq, NEW q, Sound(rq, q, shown), NEW abort \in BOOLEAN,
           Become(rq, q, abort), shown' = shown
    PROVE  Inv'
<1>1. CASE abort /\ turn # "aborted"
  <2>1. req' = Deaf(rq) /\ queue' = [x \in Requests |-> IF rq[x].checkmark THEN 0 ELSE q[x]]
    BY <1>1 DEF Become
  <2> QED BY <2>1, AbortSound DEF Inv
<1>2. CASE ~(abort /\ turn # "aborted")
  BY <1>2 DEF Become, Inv
<1> QED BY <1>1, <1>2

-----------------------------------------------------------------------------
\* What holds in the initial state.
LEMMA InitSound == Init => Inv
<1> SUFFICES ASSUME Init PROVE Inv OBVIOUS
<1>1. ASSUME NEW r \in Requests PROVE req[r] \in Request /\ Coherent(r, req[r], queue[r])
  BY <1>1 DEF Init, New, Nobody, Request, Coherent
<1>2. req \in [Requests -> Request] /\ queue \in [Requests -> Nat] /\ shown \notin Requests
  BY <1>1, KindsAssumption DEF Init, Nobody
<1> QED BY <1>1, <1>2 DEF Init, Inv, Sound

\* A request that has not opened its dialog is neither settled nor queued.
LEMMA EarlyFacts ==
    ASSUME Inv, NEW r \in Requests
    PROVE  /\ req[r] \in Request /\ Coherent(r, req[r], queue[r])
           /\ req[r].stage \in {"checking", "opening"} => queue[r] = 0 /\ shown # r
           /\ req[r].stage = "checking" => ~req[r].claimed
           /\ req[r].decision # "none" => req[r].claimed
           /\ queue \in [Requests -> Nat] /\ req \in [Requests -> Request]
           /\ Shrinks(queue, queue) /\ Sound(req, queue, shown)
<1>1. req[r] \in Request /\ Coherent(r, req[r], queue[r]) /\ queue \in [Requests -> Nat]
  BY DEF Inv, Sound
<1>2. req[r].stage = "checking" => ~req[r].claimed
  BY <1>1, KindsAssumption DEF Coherent
<1>3. req[r].stage \in {"checking", "opening"} => queue[r] = 0 /\ shown # r
  BY <1>1 DEF Coherent, Inv, Sound
<1> QED BY <1>1, <1>2, <1>3, SameShrinks DEF Coherent, Inv, Sound

LEMMA CheckPermissionKeeps ==
    ASSUME Inv, NEW r \in Requests, CheckPermission(r)
    PROVE  Inv'
<1>1. req[r].stage = "checking" /\ shown' = shown BY DEF CheckPermission
<1>2. ASSUME Become([req EXCEPT ![r].stage = "opening"], queue, FALSE) PROVE Inv'
  <2> DEFINE y == [req[r] EXCEPT !.stage = "opening"]
  <2>1. y \in Request /\ Coherent(r, y, queue[r])
    BY <1>1, EarlyFacts DEF Coherent, Request
  <2>2. Sound([req EXCEPT ![r] = y], queue, shown)
    BY <1>1, <2>1, EarlyFacts, PutSound
  <2> QED BY <1>1, <1>2, <2>2, BecomeSound
<1>3. ASSUME NEW d \in {"allow", "reject"}, NEW abort \in BOOLEAN,
             Become(Decide(req, r, d), queue, abort)
      PROVE  Inv'
  BY <1>1, <1>3, EarlyFacts, DecideSound, BecomeSound
<1> QED BY <1>2, <1>3 DEF CheckPermission

\* Who is queued comes last.
LEMMA EnqueueFacts ==
    ASSUME NEW r \in Requests, queue \in [Requests -> Nat], Enqueue(r), queue[r] = 0
    PROVE  /\ queue' \in [Requests -> Nat]
           /\ \A x \in Requests : x # r => queue'[x] = queue[x]
           /\ \A s \in Requests : s # r /\ Leads(queue, s) => Leads(queue', s)
<1>1. PICK n \in 1 .. Cardinality(Requests) : AtEnd(n) /\ queue' = [queue EXCEPT ![r] = n]
  BY DEF Enqueue
<1>2. n \in Nat /\ \A x \in Requests : queue[x] < n BY <1>1 DEF AtEnd
<1> QED BY <1>1, <1>2 DEF Leads

LEMMA EnqueueSound ==
    ASSUME Inv, NEW r \in Requests, req[r].stage = "opening", Enqueue(r), shown' = shown,
           NEW y \in Request, req' = [req EXCEPT ![r] = y],
           \A p \in Nat : Coherent(r, y, p)
    PROVE  Inv'
<1>1. queue[r] = 0 /\ shown # r /\ queue \in [Requests -> Nat] /\ req \in [Requests -> Request]
  BY EarlyFacts
<1>2. /\ queue' \in [Requests -> Nat]
      /\ \A x \in Requests : x # r => queue'[x] = queue[x]
      /\ \A s \in Requests : s # r /\ Leads(queue, s) => Leads(queue', s)
  BY <1>1, EnqueueFacts
<1>3. req' \in [Requests -> Request] /\ req'[r] = y /\ \A x \in Requests : x # r => req'[x] = req[x]
  BY <1>1
<1>4. ASSUME NEW x \in Requests PROVE Coherent(x, req'[x], queue'[x])
  <2>1. CASE x = r BY <1>2, <1>3, <2>1
  <2>2. CASE x # r BY <1>2, <1>3, <2>2 DEF Inv, Sound
  <2> QED BY <2>1, <2>2
<1> QED BY <1>1, <1>2, <1>3, <1>4 DEF Inv, Sound

LEMMA OpenedType ==
    ASSUME NEW x \in Request, NEW a \in BOOLEAN, NEW b \in BOOLEAN, NEW c \in BOOLEAN
    PROVE  [x EXCEPT !.asking = a, !.bridge = a, !.channel = b, !.hook = c,
                     !.classifier = c] \in Request
BY DEF Request

LEMMA OpenDialogKeeps ==
    ASSUME Inv, NEW r \in Requests, OpenDialog(r)
    PROVE  Inv'
<1>1. /\ req[r].stage = "opening" /\ r \notin Workers /\ Enqueue(r) /\ shown' = shown
      /\ req[r] \in Request /\ Coherent(r, req[r], queue[r]) /\ req \in [Requests -> Request]
  BY EarlyFacts DEF OpenDialog
<1>2. CASE r \in Teammates
  <2> DEFINE y == [req[r] EXCEPT !.stage = "open"]
  <2>1. y \in Request /\ \A p \in Nat : Coherent(r, y, p) BY <1>1 DEF Coherent, Request
  <2>2. req' = [req EXCEPT ![r] = y] BY <1>2 DEF OpenDialog
  <2> QED BY <1>1, <2>1, <2>2, EnqueueSound
<1>3. CASE r \notin Teammates
  <2> DEFINE open == [req EXCEPT ![r].stage = "open"]
             x == open[r]
  <2>1. PICK races \in BOOLEAN :
          req' = [open EXCEPT ![r].asking = Bridge, ![r].bridge = Bridge,
                    ![r].channel = Channel, ![r].hook = races, ![r].classifier = races]
    BY <1>3 DEF OpenDialog
  <2> DEFINE y == [x EXCEPT !.asking = Bridge, !.bridge = Bridge,
                     !.channel = Channel, !.hook = races, !.classifier = races]
  <2>4. x = [req[r] EXCEPT !.stage = "open"] /\ x \in Request BY <1>1 DEF Request
  <2>5. open \in [Requests -> Request] /\ \A z \in Requests : z # r => open[z] = req[z]
    BY <1>1, <2>4
  <2>6. req' = [open EXCEPT ![r] = y] BY <2>1, <2>5
  <2>7. req' = [req EXCEPT ![r] = y] BY <1>1, <2>5, <2>6
  <2>8. Bridge \in BOOLEAN /\ Channel \in BOOLEAN BY FlagsAssumption
  <2>9. Coherent(r, x, queue[r]) /\ ~x.claimed /\ x.stage = "open"
    BY <1>1, <2>4 DEF Coherent, Request
  <2> HIDE DEF x, open
  <2>2. y \in Request BY <2>4, <2>8, OpenedType
  <2>3. \A p \in Nat : Coherent(r, y, p) BY <1>1, <2>4, <2>9 DEF Coherent, Request
  <2> QED BY <1>1, <2>2, <2>3, <2>7, EnqueueSound
<1> QED BY <1>2, <1>3

LEMMA OpenForWorkerKeeps ==
    ASSUME Inv, NEW r \in Requests, OpenForWorker(r)
    PROVE  Inv'
<1> DEFINE y == [req[r] EXCEPT !.stage = IF req[r].claimed THEN "done" ELSE "open"]
<1>1. /\ req[r].stage = "opening" /\ r \in Workers /\ shown' = shown /\ shown # r
      /\ req[r] \in Request /\ Coherent(r, req[r], queue[r])
      /\ Sound(req, queue, shown) /\ Shrinks(queue, queue) /\ queue[r] \in Nat
      /\ req' = [req EXCEPT ![r] = y]
  BY EarlyFacts DEF OpenForWorker
<1>2. y \in Request /\ \A p \in Nat : Coherent(r, y, p)
  BY <1>1, KindsAssumption DEF Coherent, Request
<1>3. CASE Enqueue(r) BY <1>1, <1>2, <1>3, EnqueueSound
<1>4. CASE queue' = queue BY <1>1, <1>2, <1>4, PutSound DEF Inv
<1> QED BY <1>3, <1>4 DEF OpenForWorker

-----------------------------------------------------------------------------
\* What is shown next is the head.
LEMMA RenderKeeps ==
    ASSUME Inv, Render
    PROVE  Inv'
<1>1. req' = req /\ queue' = queue BY DEF Render
<1>2. shown' = NoRequest \/ (shown' \in Requests /\ First(shown'))
  BY DEF Render, Visible
<1>3. CASE shown' = NoRequest
  BY <1>1, <1>3, KindsAssumption DEF Inv, Sound
<1>4. CASE shown' \in Requests /\ First(shown')
  <2>1. Leads(queue, shown') /\ queue[shown'] # 0 BY <1>4 DEF First, Leads, Queued
  <2>2. req[shown'].stage \in {"open", "done"} BY <1>4, <2>1 DEF Inv, Sound, Coherent
  <2> QED BY <1>1, <1>4, <2>1, <2>2 DEF Inv, Sound
<1> QED BY <1>2, <1>3, <1>4

\* A record changes where no clause of Coherent looks, or only becomes less.
LEMMA PutKeeps ==
    ASSUME Inv, NEW r \in Requests, NEW y \in Request, req' = [req EXCEPT ![r] = y],
           Shrinks(queue, queue'), shown' = shown,
           Coherent(r, y, queue'[r]), shown = r => y.stage \in {"open", "done"}
    PROVE  Inv'
BY PutSound DEF Inv

LEMMA UserAllowsKeeps ==
    ASSUME Inv, NEW r \in Requests, UserAllows(r)
    PROVE  Inv'
<1>1. /\ r \in Mains /\ shown = r /\ shown' = shown /\ queue' = Rest
      /\ req[r] \in Request /\ Coherent(r, req[r], queue[r])
      /\ queue \in [Requests -> Nat] /\ req \in [Requests -> Request]
  BY EarlyFacts DEF UserAllows, Keyed
<1>2. Shrinks(queue, Rest) /\ Rest[r] = 0 BY <1>1, RestShrinks DEF Inv, Sound
<1>3. CASE req[r].claimed
  BY <1>1, <1>2, <1>3, ShrinkSound DEF UserAllows, Inv
<1>4. CASE ~req[r].claimed
  <2> DEFINE c == Claimed(req[r])
             x == IF Bridge THEN [c EXCEPT !.told = "allow"] ELSE c
             y == [x EXCEPT !.allowing = TRUE]
  <2>1. c \in Request BY <1>1, ClaimedFacts
  <2>2. OnAllow(r) = [req EXCEPT ![r] = x] BY <1>1, <2>1 DEF OnAllow, Tell, Claim
  <2>3. req' = [OnAllow(r) EXCEPT ![r].allowing = TRUE] BY <1>4 DEF UserAllows
  <2>4. x \in Request BY <2>1 DEF Request
  <2>5. req' = [req EXCEPT ![r] = y] BY <1>1, <2>2, <2>3, <2>4
  <2>6. /\ x.claimed /\ ~x.asking /\ ~x.bridge /\ ~x.channel /\ ~x.classifier /\ ~x.recheck
        /\ x.stage = req[r].stage /\ x.decision = req[r].decision
        /\ x.told \in {"allow", req[r].told}
    BY <1>1, <2>1, ClaimedFacts DEF Request
  <2>7. y \in Request /\ y.allowing /\ y.claimed /\ ~y.asking /\ ~y.bridge /\ ~y.channel
          /\ ~y.classifier /\ ~y.recheck /\ y.stage = x.stage /\ y.decision = x.decision
          /\ y.told = x.told
    BY <2>4, <2>6 DEF Request
  <2>8. req[r].stage \in {"open", "done"} BY <1>1 DEF Inv, Sound
  <2> HIDE DEF x, y, c
  <2>9. Coherent(r, y, 0) BY <1>1, <1>4, <2>6, <2>7, <2>8 DEF Coherent, Request
  <2> QED BY <1>1, <1>2, <2>5, <2>6, <2>7, <2>8, <2>9, PutKeeps
<1> QED BY <1>3, <1>4

LEMMA AllowEndsKeeps ==
    ASSUME Inv, NEW r \in Requests, AllowEnds(r)
    PROVE  Inv'
<1> DEFINE x == Decided(r, req[r], "allow")
           y == [x EXCEPT !.allowing = FALSE]
<1>1. /\ req[r] \in Request /\ Coherent(r, req[r], queue[r]) /\ req[r].allowing
      /\ queue' = queue /\ shown' = shown /\ Shrinks(queue, queue)
      /\ req \in [Requests -> Request]
  BY EarlyFacts DEF AllowEnds
<1>2. req[r].decision = "none" /\ req[r].claimed /\ r \in Mains BY <1>1 DEF Coherent
<1>3. x \in Request BY <1>1, DecidedFacts
<1>4. req' = [Decide(req, r, "allow") EXCEPT ![r].allowing = FALSE]
  BY <1>2 DEF AllowEnds
<1>5. req' = [req EXCEPT ![r] = y] BY <1>1, <1>3, <1>4 DEF Decide
<1>6. /\ x.claimed /\ ~x.asking /\ ~x.bridge /\ ~x.channel /\ ~x.classifier /\ ~x.recheck
      /\ x.stage = "done" /\ x.decision = "allow" /\ x.told = req[r].told
      /\ x.checkmark = req[r].checkmark
  BY <1>1, <1>2, DecidedFacts, KindsAssumption
<1> HIDE DEF x
<1>7. /\ y \in Request /\ y.claimed /\ ~y.asking /\ ~y.bridge /\ ~y.channel /\ ~y.classifier
      /\ ~y.recheck /\ ~y.allowing
      /\ y.stage = "done" /\ y.decision = "allow" /\ y.told = req[r].told
      /\ (y.checkmark <=> req[r].checkmark)
  BY <1>3, <1>6 DEF Request
<1> HIDE DEF y
<1>8. Coherent(r, y, queue[r]) BY <1>1, <1>2, <1>7 DEF Coherent
<1> QED BY <1>1, <1>5, <1>7, <1>8, PutKeeps

\* claude.ai is told of a rejection.
LEMMA DenySound ==
    ASSUME NEW rq, NEW q, NEW s, Sound(rq, q, s), NEW q2, Shrinks(q, q2),
           NEW r \in Mains, ~rq[r].claimed, q2[r] = 0
    PROVE  Sound(Tell(Decide(rq, r, "reject"), r, "deny"), q2, s)
<1> DEFINE d == Decide(rq, r, "reject")
           y == [d[r] EXCEPT !.told = "deny"]
<1>1. r \in Requests /\ r \notin Workers BY KindsAssumption DEF Requests
<1>2. Sound(d, q2, s) BY <1>1, DecideSound
<1>3. rq[r] \in Request /\ d = [rq EXCEPT ![r] = Decided(r, rq[r], "reject")]
  BY <1>1 DEF Sound, Decide
<1>4. d[r] \in Request /\ d[r].decision = "reject" /\ d[r].claimed /\ Coherent(r, d[r], q2[r])
  BY <1>1, <1>2, <1>3, DecidedFacts DEF Sound
<1> HIDE DEF d
<1>5. CASE ~Bridge BY <1>2, <1>5 DEF Tell, d
<1>6. CASE Bridge
  <2>1. y \in Request /\ Coherent(r, y, q2[r]) BY <1>4 DEF Coherent, Request
  <2>2. s = r => y.stage \in {"open", "done"} BY <1>1, <1>2, <1>4 DEF Sound, Request
  <2>3. Shrinks(q2, q2) BY <1>2, SameShrinks DEF Sound
  <2>4. Sound([d EXCEPT ![r] = y], q2, s) BY <1>1, <1>2, <2>1, <2>2, <2>3, PutSound
  <2> QED BY <1>6, <2>4 DEF Tell, d
<1> QED BY <1>5, <1>6

LEMMA UserRejectsKeeps ==
    ASSUME Inv, NEW r \in Requests, NEW feedback \in BOOLEAN, UserRejects(r, feedback)
    PROVE  Inv'
<1>1. /\ r \in Mains /\ shown = r /\ shown' = shown /\ Sound(req, queue, shown)
      /\ queue \in [Requests -> Nat]
  BY EarlyFacts DEF UserRejects
<1>2. Shrinks(queue, Rest) /\ Rest[r] = 0 BY <1>1, RestShrinks DEF Inv, Sound
<1>3. CASE req[r].claimed
  BY <1>1, <1>2, <1>3, ShrinkSound, BecomeSound DEF UserRejects
<1>4. CASE ~req[r].claimed
  BY <1>1, <1>2, <1>4, DenySound, BecomeSound DEF UserRejects
<1> QED BY <1>3, <1>4

LEMMA UserTouchesKeeps ==
    ASSUME Inv, NEW r \in Requests, UserTouches(r)
    PROVE  Inv'
<1> DEFINE y == [req[r] EXCEPT !.classifier = FALSE]
<1>1. /\ req[r] \in Request /\ Coherent(r, req[r], queue[r]) /\ shown = r
      /\ queue' = queue /\ shown' = shown /\ Shrinks(queue, queue)
      /\ req' = [req EXCEPT ![r] = y]
  BY EarlyFacts DEF UserTouches, Keyed
<1>2. y \in Request /\ Coherent(r, y, queue[r]) BY <1>1 DEF Coherent, Request
<1>3. y.stage \in {"open", "done"} BY <1>1 DEF Inv, Sound, Request
<1> QED BY <1>1, <1>2, <1>3, PutKeeps

\* The leader's answer does not settle the worker's call yet.
LEMMA ReplySound ==
    ASSUME Inv, NEW r \in Requests, NEW d \in {"allow", "reject"}, NEW q2, Shrinks(queue, q2)
    PROVE  Sound(Reply(r, d), q2, shown)
<1> DEFINE y == [req[r] EXCEPT !.reply = d]
<1>1. /\ req[r] \in Request /\ Coherent(r, req[r], queue[r]) /\ Sound(req, queue, shown)
  BY EarlyFacts
<1>2. y \in Request /\ Coherent(r, y, q2[r]) BY <1>1 DEF Coherent, Request, Shrinks
<1>3. shown = r => y.stage \in {"open", "done"} BY <1>1 DEF Sound, Request
<1>4. Sound([req EXCEPT ![r] = y], q2, shown) BY <1>1, <1>2, <1>3, PutSound
<1>5. Sound(req, q2, shown) BY <1>1, ShrinkSound
<1> QED BY <1>4, <1>5 DEF Reply

LEMMA UserAnswersTeamKeeps ==
    ASSUME Inv, NEW r \in Requests, NEW d \in {"allow", "reject"}, UserAnswersTeam(r, d)
    PROVE  Inv'
<1>1. /\ shown = r /\ shown' = shown /\ queue' = Rest /\ Sound(req, queue, shown)
      /\ queue \in [Requests -> Nat]
  BY EarlyFacts DEF UserAnswersTeam, Keyed
<1>2. Shrinks(queue, Rest) /\ Rest[r] = 0 BY <1>1, RestShrinks DEF Inv, Sound
<1>3. CASE req' = Reply(r, d) BY <1>1, <1>2, <1>3, ReplySound DEF Inv
<1>4. CASE req' = req BY <1>1, <1>2, <1>4, ShrinkSound DEF Inv
<1>5. CASE ~req[r].claimed /\ req' = Decide(req, r, d)
  BY <1>1, <1>2, <1>5, DecideSound DEF Inv
<1> QED BY <1>3, <1>4, <1>5 DEF UserAnswersTeam

LEMMA CheckmarkGoesKeeps ==
    ASSUME Inv, NEW r \in Requests, CheckmarkGoes(r)
    PROVE  Inv'
<1> DEFINE y == [req[r] EXCEPT !.checkmark = FALSE]
<1>1. /\ req[r] \in Request /\ Coherent(r, req[r], queue[r]) /\ shown' = shown
      /\ queue' = Without(queue, r) /\ queue \in [Requests -> Nat]
      /\ req' = [req EXCEPT ![r] = y]
  BY EarlyFacts DEF CheckmarkGoes
<1>2. Shrinks(queue, queue') /\ queue'[r] = 0 BY <1>1, WithoutShrinks
<1>3. y \in Request /\ Coherent(r, y, 0) BY <1>1 DEF Coherent, Request
<1>4. shown = r => y.stage \in {"open", "done"} BY <1>1 DEF Inv, Sound, Request
<1> QED BY <1>1, <1>2, <1>3, <1>4, PutKeeps

LEMMA CancelKeeps ==
    ASSUME Inv, Cancel
    PROVE  Inv'
<1>1. /\ shown' = shown /\ Sound(req, queue, shown) /\ queue \in [Requests -> Nat]
      /\ Shrinks(queue, Nobody)
  BY NobodyShrinks DEF Cancel, Inv, Sound
<1>2. \A r \in Requests : Nobody[r] = 0 BY DEF Nobody
<1>3. CASE Become(req, Nobody, TRUE)
  BY <1>1, <1>3, ShrinkSound, BecomeSound
<1>4. CASE /\ shown \in Mains /\ ~req[shown].claimed
           /\ Become(Tell(Decide(req, shown, "reject"), shown, "deny"), Nobody, TRUE)
  <2>1. shown \in Requests BY <1>4 DEF Requests
  <2> QED BY <1>1, <1>2, <1>4, <2>1, DenySound, BecomeSound
<1>5. CASE /\ shown \in Requests /\ queue' = Nobody
           /\ \/ req' = req
              \/ req' = Reply(shown, "reject")
              \/ ~req[shown].claimed /\ req' = Decide(req, shown, "reject")
  <2>1. CASE req' = req BY <1>1, <1>5, <2>1, ShrinkSound DEF Inv
  <2>2. CASE req' = Reply(shown, "reject") BY <1>1, <1>5, <2>2, ReplySound DEF Inv
  <2>3. CASE ~req[shown].claimed /\ req' = Decide(req, shown, "reject")
    BY <1>1, <1>2, <1>5, <2>3, DecideSound DEF Inv
  <2> QED BY <1>5, <2>1, <2>2, <2>3
<1> QED BY <1>3, <1>4, <1>5 DEF Cancel, Requests

-----------------------------------------------------------------------------
\* What runs in the background is over, before it has settled anything.
OverOf(x, y) ==
    /\ x \in Request /\ y \in Request
    /\ y.stage = x.stage /\ y.decision = x.decision /\ y.told = x.told
    /\ (y.claimed <=> x.claimed) /\ (y.allowing <=> x.allowing)
    /\ (y.checkmark <=> x.checkmark)
    /\ (y.asking => x.asking) /\ (y.bridge => x.bridge) /\ (y.channel <=> x.channel)
    /\ (y.classifier => x.classifier) /\ (y.recheck => x.recheck)

LEMMA OverFacts ==
    ASSUME NEW x \in Request
    PROVE  /\ OverOf(x, [x EXCEPT !.hook = FALSE])
           /\ OverOf(x, [x EXCEPT !.classifier = FALSE])
           /\ OverOf(x, [x EXCEPT !.recheck = FALSE])
           /\ OverOf(x, [x EXCEPT !.bridge = FALSE, !.asking = FALSE])
<1>1. OverOf(x, [x EXCEPT !.hook = FALSE]) BY DEF OverOf, Request
<1>2. OverOf(x, [x EXCEPT !.classifier = FALSE]) BY DEF OverOf, Request
<1>3. OverOf(x, [x EXCEPT !.recheck = FALSE]) BY DEF OverOf, Request
<1>4. OverOf(x, [x EXCEPT !.bridge = FALSE, !.asking = FALSE]) BY DEF OverOf, Request
<1> QED BY <1>1, <1>2, <1>3, <1>4

LEMMA OverCoherent ==
    ASSUME NEW r, NEW x, NEW y, NEW p, OverOf(x, y), Coherent(r, x, p)
    PROVE  Coherent(r, y, p)
BY DEF OverOf, Coherent

LEMMA OverSound ==
    ASSUME Inv, NEW r \in Requests, NEW y, OverOf(req[r], y), NEW o, o = [req EXCEPT ![r] = y]
    PROVE  Sound(o, queue, shown) /\ o[r] = y /\ o \in [Requests -> Request]
<1>1. /\ req[r] \in Request /\ Coherent(r, req[r], queue[r]) /\ Sound(req, queue, shown)
      /\ Shrinks(queue, queue) /\ req \in [Requests -> Request]
  BY EarlyFacts
<1>2. y \in Request /\ Coherent(r, y, queue[r]) BY <1>1, OverCoherent DEF OverOf
<1>3. shown = r => y.stage \in {"open", "done"} BY <1>1 DEF Sound, OverOf
<1> QED BY <1>1, <1>2, <1>3, PutSound

\* Hooks, bridge, channel, recheck and kill all settle a request like this.
LEMMA SettleKeeps ==
    ASSUME Inv, NEW r \in Requests, NEW y, OverOf(req[r], y), NEW o, o = [req EXCEPT ![r] = y],
           ~req[r].claimed, NEW d \in {"allow", "reject"}, NEW abort \in BOOLEAN,
           Become(Decide(o, r, d), Without(queue, r), abort), shown' = shown
    PROVE  Inv'
<1>1. Sound(o, queue, shown) /\ o[r] = y BY OverSound
<1>2. ~o[r].claimed BY <1>1 DEF OverOf
<1>3. Shrinks(queue, Without(queue, r)) /\ Without(queue, r)[r] = 0
  BY WithoutShrinks DEF Inv, Sound
<1>4. Sound(Decide(o, r, d), Without(queue, r), shown) BY <1>1, <1>2, <1>3, DecideSound
<1> QED BY <1>4, BecomeSound

LEMMA HookReturnsKeeps ==
    ASSUME Inv, NEW r \in Requests, HookReturns(r)
    PROVE  Inv'
<1> DEFINE y == [req[r] EXCEPT !.hook = FALSE]
           over == [req EXCEPT ![r] = y]
           settled(d) == IF req[r].claimed THEN over ELSE Decide(over, r, d)
           rest == IF req[r].claimed THEN queue ELSE Without(queue, r)
<1>1. OverOf(req[r], y) /\ shown' = shown BY EarlyFacts, OverFacts DEF HookReturns
<1>6. over = [req EXCEPT ![r] = y] OBVIOUS
<1>5. \/ Become(over, queue, FALSE)
      \/ Become(settled("allow"), rest, FALSE)
      \/ \E interrupt \in BOOLEAN : Become(settled("reject"), rest, interrupt)
  BY DEF HookReturns
<1> HIDE DEF y, over
<1>2. Sound(over, queue, shown) BY <1>1, <1>6, OverSound
<1>3. ASSUME Become(over, queue, FALSE) PROVE Inv' BY <1>1, <1>2, <1>3, BecomeSound
<1>4. ASSUME NEW d \in {"allow", "reject"}, NEW abort \in BOOLEAN,
             Become(settled(d), rest, abort)
      PROVE  Inv'
  <2>1. CASE req[r].claimed BY <1>1, <1>2, <1>4, <2>1, BecomeSound
  <2>2. CASE ~req[r].claimed BY <1>1, <1>4, <1>6, <2>2, SettleKeeps
  <2> QED BY <2>1, <2>2
<1> QED BY <1>3, <1>4, <1>5

LEMMA ClassifierReturnsKeeps ==
    ASSUME Inv, NEW r \in Requests, ClassifierReturns(r)
    PROVE  Inv'
<1> DEFINE y == [req[r] EXCEPT !.classifier = FALSE]
           over == [req EXCEPT ![r] = y]
           x == Decided(r, y, "allow")
           z == [x EXCEPT !.checkmark = TRUE]
<1>1. /\ OverOf(req[r], y) /\ shown' = shown /\ queue' = queue /\ Shrinks(queue, queue)
      /\ req \in [Requests -> Request] /\ Coherent(r, req[r], queue[r])
      /\ req[r] \in Request
  BY EarlyFacts, OverFacts DEF ClassifierReturns
<1>2. CASE req' = over BY <1>1, <1>2, OverSound DEF Inv
<1>3. CASE /\ ~req[r].claimed
           /\ req' = [Decide(over, r, "allow") EXCEPT ![r].checkmark = TRUE]
  <2>1. y \in Request /\ ~y.claimed /\ Coherent(r, y, queue[r]) /\ y.stage = req[r].stage
    BY <1>1, <1>3, OverCoherent DEF OverOf
  <2> HIDE DEF y
  <2>2. /\ x \in Request /\ x.claimed /\ ~x.asking /\ ~x.bridge /\ ~x.channel
        /\ ~x.classifier /\ ~x.recheck /\ (x.allowing <=> y.allowing)
        /\ x.stage = (IF r \in Workers /\ y.stage = "opening" THEN "opening" ELSE "done")
        /\ x.decision = "allow" /\ x.told = y.told
    BY <2>1, DecidedFacts
  <2>3. req' = [req EXCEPT ![r] = z] BY <1>1, <1>3, <2>1, <2>2 DEF Decide
  <2> HIDE DEF x
  <2>4. /\ z \in Request /\ z.claimed /\ ~z.asking /\ ~z.bridge /\ ~z.channel
        /\ ~z.classifier /\ ~z.recheck /\ (z.allowing <=> y.allowing)
        /\ z.stage = x.stage /\ z.decision = "allow" /\ z.told = y.told /\ z.checkmark
    BY <2>2 DEF Request
  <2> HIDE DEF z
  <2>5. Coherent(r, z, queue[r]) BY <2>1, <2>2, <2>4 DEF Coherent
  <2>6. shown = r => z.stage \in {"open", "done"} BY <1>1, <2>1, <2>2, <2>4 DEF Inv, Sound
  <2> QED BY <1>1, <2>3, <2>4, <2>5, <2>6, PutKeeps
<1> QED BY <1>2, <1>3 DEF ClassifierReturns

LEMMA BridgeAnswersKeeps ==
    ASSUME Inv, NEW r \in Requests, BridgeAnswers(r)
    PROVE  Inv'
<1> DEFINE y == [req[r] EXCEPT !.bridge = FALSE, !.asking = FALSE]
           over == [req EXCEPT ![r] = y]
<1>1. /\ OverOf(req[r], y) /\ shown' = shown /\ ~req[r].claimed
      /\ req \in [Requests -> Request]
  BY EarlyFacts, OverFacts DEF BridgeAnswers
<1>2. over = [req EXCEPT ![r].bridge = FALSE, ![r].asking = FALSE] BY <1>1
<1>3. \/ Become(over, queue, FALSE)
      \/ Become(Decide(over, r, "allow"), Without(queue, r), FALSE)
      \/ \E message \in BOOLEAN :
            Become(Decide(over, r, "reject"), Without(queue, r), ~message)
  BY <1>2 DEF BridgeAnswers
<1>4. over = [req EXCEPT ![r] = y] OBVIOUS
<1> HIDE DEF y, over
<1>5. ASSUME Become(over, queue, FALSE) PROVE Inv'
  BY <1>1, <1>4, <1>5, OverSound, BecomeSound
<1>6. ASSUME NEW d \in {"allow", "reject"}, NEW abort \in BOOLEAN,
             Become(Decide(over, r, d), Without(queue, r), abort)
      PROVE  Inv'
  BY <1>1, <1>4, <1>6, SettleKeeps
<1> QED BY <1>3, <1>5, <1>6

LEMMA ChannelAnswersKeeps ==
    ASSUME Inv, NEW r \in Requests, ChannelAnswers(r)
    PROVE  Inv'
<1>1. /\ shown' = shown /\ ~req[r].claimed /\ Sound(req, queue, shown)
      /\ queue \in [Requests -> Nat]
  BY EarlyFacts DEF ChannelAnswers
<1>2. PICK d \in {"allow", "reject"} : Become(Decide(req, r, d), Without(queue, r), FALSE)
  BY DEF ChannelAnswers, Settle
<1> QED BY <1>1, <1>2, WithoutShrinks, DecideSound, BecomeSound

LEMMA RecheckKeeps ==
    ASSUME Inv, NEW r \in Requests, RecheckBegins(r) \/ RecheckEnds(r)
    PROVE  Inv'
<1>1. /\ req[r] \in Request /\ Coherent(r, req[r], queue[r]) /\ shown' = shown
      /\ Shrinks(queue, queue) /\ queue \in [Requests -> Nat] /\ Sound(req, queue, shown)
  BY EarlyFacts DEF RecheckBegins, RecheckEnds
<1>2. CASE RecheckBegins(r)
  <2> DEFINE y == [req[r] EXCEPT !.recheck = TRUE]
  <2>1. ~req[r].claimed /\ req' = [req EXCEPT ![r] = y] /\ queue' = queue
        /\ req[r].stage = "open"
    BY <1>2 DEF RecheckBegins, Pending, Open
  <2>2. y \in Request /\ Coherent(r, y, queue[r]) /\ y.stage = "open"
    BY <1>1, <2>1 DEF Coherent, Request
  <2> QED BY <1>1, <2>1, <2>2, PutKeeps
<1>3. CASE RecheckEnds(r)
  <2> DEFINE y == [req[r] EXCEPT !.recheck = FALSE]
             over == [req EXCEPT ![r] = y]
  <2>1. OverOf(req[r], y) BY <1>1, OverFacts
  <2>2. \/ req' = over /\ queue' = queue
        \/ /\ ~req[r].claimed /\ req' = Decide(over, r, "allow")
           /\ queue' = Without(queue, r)
    BY <1>3 DEF RecheckEnds
  <2>3. over = [req EXCEPT ![r] = y] OBVIOUS
  <2> HIDE DEF y, over
  <2>4. Sound(over, queue, shown) /\ over[r] = y BY <2>1, <2>3, OverSound
  <2>5. CASE req' = over /\ queue' = queue BY <1>1, <2>4, <2>5 DEF Inv
  <2>6. CASE /\ ~req[r].claimed /\ req' = Decide(over, r, "allow")
             /\ queue' = Without(queue, r)
    <3>1. ~over[r].claimed BY <2>1, <2>4, <2>6 DEF OverOf
    <3>2. Shrinks(queue, queue') /\ queue'[r] = 0 BY <1>1, <2>6, WithoutShrinks
    <3> QED BY <1>1, <2>4, <2>6, <3>1, <3>2, DecideSound DEF Inv
  <2> QED BY <2>2, <2>5, <2>6
<1> QED BY <1>2, <1>3

LEMMA TurnAbortsKeeps == Inv /\ TurnAborts => Inv'
BY BecomeSound DEF TurnAborts, Inv

LEMMA KillTeammateKeeps ==
    ASSUME Inv, NEW r \in Requests, KillTeammate(r)
    PROVE  Inv'
<1>1. /\ shown' = shown /\ Sound(req, queue, shown) /\ queue \in [Requests -> Nat]
      /\ queue' = Without(queue, r) /\ req' = Decide(req, r, "reject")
  BY EarlyFacts DEF KillTeammate
<1>2. ~req[r].claimed
  BY EarlyFacts, KindsAssumption DEF KillTeammate, Coherent
<1> QED BY <1>1, <1>2, WithoutShrinks, DecideSound DEF Inv

LEMMA WorkerKeeps ==
    ASSUME Inv, NEW r \in Requests, WorkerAborts(r) \/ WorkerHears(r)
    PROVE  Inv'
<1>1. /\ shown' = shown /\ Sound(req, queue, shown) /\ Shrinks(queue, queue)
      /\ r \in Workers /\ ~req[r].claimed /\ queue' = queue /\ req[r] \in Request
  BY EarlyFacts DEF WorkerAborts, WorkerHears, Pending
<1>2. PICK d \in {"allow", "reject"} : req' = Decide(req, r, d)
  BY <1>1 DEF WorkerAborts, WorkerHears, Request
<1> QED BY <1>1, <1>2, DecideSound DEF Inv

LEMMA UnchangedKeeps == Inv /\ UNCHANGED <<req, queue, shown>> => Inv'
BY DEF Inv

LEMMA RequestKeeps ==
    ASSUME Inv, NEW r \in Requests,
           Proceeds(r) \/ User(r) \/ UserTouches(r) \/ Racer(r)
    PROVE  Inv'
<1>1. CASE Proceeds(r)
  BY <1>1, CheckPermissionKeeps, OpenDialogKeeps, OpenForWorkerKeeps, AllowEndsKeeps,
     CheckmarkGoesKeeps, WorkerKeeps DEF Proceeds
<1>2. CASE User(r)
  BY <1>2, UserAllowsKeeps, UserRejectsKeeps, UserAnswersTeamKeeps DEF User
<1>3. CASE Racer(r)
  BY <1>3, HookReturnsKeeps, ClassifierReturnsKeeps, BridgeAnswersKeeps, ChannelAnswersKeeps,
     RecheckKeeps, KillTeammateKeeps, WorkerKeeps DEF Racer
<1> QED BY <1>1, <1>2, <1>3, UserTouchesKeeps

LEMMA NextKeeps == Inv /\ [Next]_vars => Inv'
<1> SUFFICES ASSUME Inv, [Next]_vars PROVE Inv' OBVIOUS
<1>1. CASE \E r \in Requests : Proceeds(r) \/ User(r) \/ UserTouches(r) \/ Racer(r)
  BY <1>1, RequestKeeps
<1>2. CASE Render BY <1>2, RenderKeeps
<1>3. CASE Cancel BY <1>3, CancelKeeps
<1>4. CASE TurnAborts BY <1>4, TurnAbortsKeeps
<1>5. CASE Type \/ StopTyping \/ ModeChanges \/ UNCHANGED vars
  BY <1>5, UnchangedKeeps DEF Type, StopTyping, ModeChanges, NewRules, vars
<1> QED BY <1>1, <1>2, <1>3, <1>4, <1>5 DEF Next

-----------------------------------------------------------------------------
\* The types of the variables that Sound leaves out.
LEMMA RestsKept ==
    ASSUME Rests, [Next]_vars
    PROVE  Rests'
<1>1. ASSUME NEW r \in Requests, Proceeds(r) \/ User(r) \/ UserTouches(r) \/ Racer(r)
      PROVE  Rests'
  <2>1. CASE Proceeds(r)
    BY <1>1, <2>1 DEF Proceeds, CheckPermission, OpenDialog, OpenForWorker, AllowEnds,
       CheckmarkGoes, WorkerHears, Become, NewRules, Rests
  <2>2. CASE User(r)
    BY <1>1, <2>2 DEF User, UserAllows, UserRejects, UserAnswersTeam, Become, NewRules,
       Drop, Queued, Rests
  <2>3. CASE Racer(r)
    BY <1>1, <2>3 DEF Racer, HookReturns, ClassifierReturns, BridgeAnswers, ChannelAnswers,
       Settle, RecheckBegins, RecheckEnds, KillTeammate, WorkerAborts, Become, NewRules, Rests
  <2> QED BY <1>1, <2>1, <2>2, <2>3 DEF UserTouches, Rests
<1>2. ASSUME Render \/ Type \/ StopTyping \/ ModeChanges \/ TurnAborts \/ UNCHANGED vars
      PROVE  Rests'
  <2>1. CASE Type
    <3>1. typings' \in 0 .. MaxTypings BY <2>1, TypingsAssumption DEF Type, Rests
    <3> QED BY <2>1, <3>1, Zenon DEF Type, Rests
  <2>2. CASE StopTyping \/ ModeChanges
    BY <2>2, Zenon DEF StopTyping, ModeChanges, NewRules, Rests
  <2>3. CASE Render \/ TurnAborts \/ UNCHANGED vars
    BY <2>3 DEF Render, TurnAborts, Become, Rests, vars
  <2> QED BY <1>2, <2>1, <2>2, <2>3
<1>3. ASSUME Cancel PROVE Rests'
  BY <1>3 DEF Cancel, Become, Drop, Queued, Rests
<1> QED BY <1>1, <1>2, <1>3 DEF Next

LEMMA SoundMeans ==
    Inv => /\ Rests => TypeOK
           /\ AnswerAgrees /\ NoStaleDialog /\ NoStalePrompt
<1> SUFFICES ASSUME Inv PROVE (Rests => TypeOK) /\ AnswerAgrees /\ NoStaleDialog /\ NoStalePrompt
  OBVIOUS
<1>1. \A r \in Requests : Coherent(r, req[r], queue[r]) BY DEF Inv, Sound
<1>2. Rests => TypeOK BY <1>1 DEF Rests, TypeOK, Inv, Sound, Coherent
<1>3. AnswerAgrees BY <1>1 DEF AnswerAgrees, Coherent
<1>4. NoStaleDialog BY <1>1 DEF NoStaleDialog, Queued, Coherent
<1>5. NoStalePrompt BY <1>1 DEF NoStalePrompt, Requests, Coherent
<1> QED BY <1>2, <1>3, <1>4, <1>5

\* In every behaviour.
LEMMA AlwaysInv == Spec => []Inv
BY InitSound, NextKeeps, PTL DEF Spec

(***************************************************************************)
(* The state is well typed, and a call is over exactly when it was told a  *)
(* decision.                                                               *)
(***************************************************************************)
THEOREM TypeCorrect == Spec => []TypeOK
<1>1. Init => Rests
  <2>1. 0 \in 0 .. MaxTypings BY TypingsAssumption
  <2> QED BY <2>1, Zenon DEF Init, Rests
<1>2. Spec => []Rests BY <1>1, RestsKept, PTL DEF Spec
<1> QED BY <1>2, AlwaysInv, SoundMeans, PTL

(***************************************************************************)
(* A call is never told something else than claude.ai was told about the   *)
(* user's answer, whatever races it.                                       *)
(***************************************************************************)
THEOREM AnswersAgree == Spec => []AnswerAgrees
BY AlwaysInv, SoundMeans, PTL

(***************************************************************************)
(* No settled request of this process keeps a dialog in the queue, but for *)
(* a checkmark.                                                            *)
(***************************************************************************)
THEOREM NoDialogStale == Spec => []NoStaleDialog
BY AlwaysInv, SoundMeans, PTL

(***************************************************************************)
(* No settled request of the main agent still asks on claude.ai or listens *)
(* to the channel.                                                         *)
(***************************************************************************)
THEOREM NoPromptStale == Spec => []NoStalePrompt
BY AlwaysInv, SoundMeans, PTL
=============================================================================
