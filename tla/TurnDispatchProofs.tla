-------------------------- MODULE TurnDispatchProofs --------------------------
(***************************************************************************)
(* Theorems about TurnDispatch, for every set of kinds of command, every   *)
(* bound, and whether or not commands throw and keys race renders.         *)
(***************************************************************************)
EXTENDS TurnDispatch, SequenceTheorems, TLAPS

-----------------------------------------------------------------------------
(***************************************************************************)
(* The part of a turn the guard depends on is typed; what commands it      *)
(* holds does not matter (C is any set they come from).                    *)
(***************************************************************************)
Stages == {"processing", "querying", "attaching", "over"}
TurnOf(C) ==
    [cmds : C, direct : BOOLEAN, stage : Stages, gen : Nat,
     aborted : {"no", "user", "interrupt"}, dialog : BOOLEAN, snapshot : C]
Shaped(ts) == \E C : ts \in Seq(TurnOf(C))

(***************************************************************************)
(* The inductive invariant, of turns ts under a guard of status s and      *)
(* generation g: GuardOwned, and that a turn's generation is one the guard *)
(* has had, and that no two queries under way started with the same.       *)
(***************************************************************************)
Queries(ts, t) == ts[t].stage \in {"querying", "attaching"}
Owned(ts, s, g) ==
    /\ Shaped(ts)
    /\ s \in {"idle", "dispatching", "running"} /\ g \in Nat
    /\ \A t \in DOMAIN ts : ts[t].gen <= g
    /\ \A t, u \in DOMAIN ts :
          Queries(ts, t) /\ Queries(ts, u) /\ ts[t].gen = ts[u].gen => t = u
    /\ s = "dispatching" => \E t \in DOMAIN ts : ts[t].stage = "processing"
    /\ s = "running" <=> \E t \in DOMAIN ts : Queries(ts, t) /\ ts[t].gen = g
GuardInv == Owned(turns, status, generation)

\* Two lists of turns the guard cannot tell apart.
Same(ts, us) ==
    /\ Len(us) = Len(ts) /\ DOMAIN us = DOMAIN ts
    /\ \A t \in DOMAIN ts : /\ us[t].gen = ts[t].gen
                            /\ us[t].stage = "processing" <=> ts[t].stage = "processing"
                            /\ Queries(us, t) <=> Queries(ts, t)

LEMMA ShapedFacts ==
    ASSUME NEW ts, Shaped(ts)
    PROVE  /\ Len(ts) \in Nat /\ DOMAIN ts = 1 .. Len(ts)
           /\ \A t \in DOMAIN ts : /\ ts[t].stage \in Stages /\ ts[t].gen \in Nat
                                   /\ ts[t].direct \in BOOLEAN
<1>1. PICK C : ts \in Seq(TurnOf(C))
  BY DEF Shaped
<1>2. Len(ts) \in Nat /\ DOMAIN ts = 1 .. Len(ts) /\ \A t \in 1 .. Len(ts) : ts[t] \in TurnOf(C)
  BY <1>1, LenProperties, ElementOfSeq
<1> QED
  BY <1>2 DEF TurnOf

LEMMA ShapedElement ==
    ASSUME NEW ts, Shaped(ts), NEW t \in DOMAIN ts
    PROVE  \E C : ts \in Seq(TurnOf(C)) /\ ts[t] \in TurnOf(C)
BY LenProperties, ElementOfSeq DEF Shaped

LEMMA TurnOfGrows ==
    ASSUME NEW C, NEW D, C \subseteq D
    PROVE  TurnOf(C) \subseteq TurnOf(D)
BY DEF TurnOf

LEMMA ShapedGrows ==
    ASSUME NEW C, NEW D, C \subseteq D, NEW ts \in Seq(TurnOf(C))
    PROVE  ts \in Seq(TurnOf(D))
<1>1. TurnOf(C) \subseteq TurnOf(D)
  BY TurnOfGrows
<1>2. ts \in [1 .. Len(ts) -> TurnOf(C)] /\ Len(ts) \in Nat
  BY LenProperties, SeqDef
<1> HIDE DEF TurnOf
<1>3. ts \in [1 .. Len(ts) -> TurnOf(D)]
  BY <1>1, <1>2
<1> QED
  BY <1>2, <1>3, SeqDef

\* Turn t is replaced by another one.
Replaced(ts, t, r) == [ts EXCEPT ![t] = r]

LEMMA ReplaceTurn ==
    ASSUME NEW ts, Shaped(ts), NEW t \in DOMAIN ts, NEW D, NEW r \in TurnOf(D), NEW us,
           us = Replaced(ts, t, r)
    PROVE  /\ Shaped(us) /\ DOMAIN us = DOMAIN ts /\ Len(us) = Len(ts)
           /\ us[t] = r /\ \A u \in DOMAIN ts : u # t => us[u] = ts[u]
<1>1. PICK C : ts \in Seq(TurnOf(C))
  BY DEF Shaped
<1>2. ts \in Seq(TurnOf(C \cup D))
  BY <1>1, ShapedGrows
<1>3. r \in TurnOf(C \cup D)
  BY TurnOfGrows
<1>4. t \in 1 .. Len(ts) /\ DOMAIN ts = 1 .. Len(ts)
  BY ShapedFacts
<1> HIDE DEF TurnOf
<1>5. /\ us \in Seq(TurnOf(C \cup D)) /\ Len(us) = Len(ts)
      /\ \A u \in 1 .. Len(ts) : us[u] = IF u = t THEN r ELSE ts[u]
  BY <1>2, <1>3, <1>4, ExceptSeq DEF Replaced
<1>6. DOMAIN us = 1 .. Len(us)
  BY <1>5, LenProperties
<1> QED
  BY <1>4, <1>5, <1>6 DEF Shaped

\* A turn is added.
Added(ts, r) == Append(ts, r)

LEMMA AddTurn ==
    ASSUME NEW ts, Shaped(ts), NEW D, NEW r \in TurnOf(D), NEW us, us = Added(ts, r)
    PROVE  /\ Shaped(us) /\ DOMAIN us = 1 .. Len(ts) + 1
           /\ us[Len(ts) + 1] = r /\ \A u \in DOMAIN ts : us[u] = ts[u]
<1>1. PICK C : ts \in Seq(TurnOf(C))
  BY DEF Shaped
<1>2. ts \in Seq(TurnOf(C \cup D))
  BY <1>1, ShapedGrows
<1>3. r \in TurnOf(C \cup D)
  BY TurnOfGrows
<1>4. DOMAIN ts = 1 .. Len(ts)
  BY ShapedFacts
<1> HIDE DEF TurnOf
<1>5. /\ us \in Seq(TurnOf(C \cup D)) /\ Len(us) = Len(ts) + 1
      /\ \A u \in 1 .. Len(ts) : us[u] = ts[u]
      /\ us[Len(ts) + 1] = r
  BY <1>2, <1>3, AppendProperties DEF Added
<1>6. DOMAIN us = 1 .. Len(us)
  BY <1>5, LenProperties
<1> QED
  BY <1>4, <1>5, <1>6 DEF Shaped

\* An abort changes nothing the guard depends on.
LEMMA AbortKeeps ==
    ASSUME NEW ts, Shaped(ts), NEW t, NEW reason \in {"user", "interrupt"}
    PROVE  Shaped(AbortIn(ts, t, reason)) /\ Same(ts, AbortIn(ts, t, reason))
<1>1. CASE t \in DOMAIN ts /\ ts[t].aborted = "no"
  <2>1. PICK C : ts[t] \in TurnOf(C)
    BY <1>1, ShapedElement
  <2>2. [ts[t] EXCEPT !.aborted = reason] \in TurnOf(C)
    BY <2>1 DEF TurnOf
  <2>3. \E r \in TurnOf(C) : /\ r.stage = ts[t].stage /\ r.gen = ts[t].gen
                             /\ AbortIn(ts, t, reason) = Replaced(ts, t, r)
    <3>1. AbortIn(ts, t, reason) = [ts EXCEPT ![t] = [ts[t] EXCEPT !.aborted = reason]]
      BY <1>1 DEF AbortIn
    <3> QED
      BY <2>1, <2>2, <3>1 DEF TurnOf, Replaced
  <2>4. PICK r \in TurnOf(C) : /\ r.stage = ts[t].stage /\ r.gen = ts[t].gen
                              /\ AbortIn(ts, t, reason) = Replaced(ts, t, r)
    BY <2>3
  <2>5. PICK us : us = AbortIn(ts, t, reason)
    OBVIOUS
  <2>6. /\ Shaped(us) /\ DOMAIN us = DOMAIN ts /\ Len(us) = Len(ts)
        /\ us[t] = r /\ \A u \in DOMAIN ts : u # t => us[u] = ts[u]
    BY <1>1, <2>4, <2>5, ReplaceTurn
  <2> QED
    BY <2>4, <2>5, <2>6 DEF Same, Queries
<1>2. CASE ~(t \in DOMAIN ts /\ ts[t].aborted = "no")
  BY <1>2 DEF AbortIn, Same, Queries
<1> QED
  BY <1>1, <1>2

-----------------------------------------------------------------------------
(***************************************************************************)
(* What can happen to the guard and to its owners.                         *)
(***************************************************************************)
LEMMA OwnedMeansOwned ==
    GuardInv => GuardOwned
BY DEF GuardInv, Owned, GuardOwned, Turn, Processing, Querying, Current, Queries

\* Nothing the guard depends on has changed.
LEMMA OwnedKept ==
    ASSUME NEW ts, NEW us, NEW s, NEW g, Owned(ts, s, g), Shaped(us), Same(ts, us)
    PROVE  Owned(us, s, g)
BY DEF Owned, Same, Queries

\* A turn is dispatched: reserve() takes an idle guard.
LEMMA OwnedDispatch ==
    ASSUME NEW ts, NEW us, NEW s, NEW g, Owned(ts, s, g), Shaped(us),
           DOMAIN us = 1 .. Len(ts) + 1, us[Len(ts) + 1].stage = "processing",
           us[Len(ts) + 1].gen = 0, \A t \in DOMAIN ts : us[t] = ts[t]
    PROVE  Owned(us, IF s = "idle" THEN "dispatching" ELSE s, g)
<1>1. Len(ts) \in Nat /\ DOMAIN ts = 1 .. Len(ts)
  BY ShapedFacts DEF Owned
<1> QED
  BY <1>1 DEF Owned, Queries

\* A query starts: tryStart takes a guard that is not running.
LEMMA OwnedQuery ==
    ASSUME NEW ts, NEW us, NEW s, NEW g, NEW t \in DOMAIN us,
           Owned(ts, s, g), s # "running", Shaped(us), DOMAIN ts \subseteq DOMAIN us,
           us[t].stage = "querying", us[t].gen = g + 1,
           \A u \in DOMAIN us : u # t => u \in DOMAIN ts /\ us[u] = ts[u]
    PROVE  Owned(us, "running", g + 1)
<1>1. g \in Nat /\ \A u \in DOMAIN ts : ts[u].gen \in Nat /\ ts[u].gen <= g
  BY ShapedFacts DEF Owned
<1>2. ASSUME NEW u \in DOMAIN us
      PROVE  us[u].gen <= g + 1 /\ (us[u].gen = g + 1 => u = t)
  <2>1. CASE u = t
    BY <1>1, <2>1
  <2>2. CASE u # t
    <3>1. u \in DOMAIN ts /\ us[u].gen = ts[u].gen
      BY <2>2
    <3> QED
      BY <1>1, <3>1
  <2> QED
    BY <2>1, <2>2
<1>3. \A u, v \in DOMAIN us :
          Queries(us, u) /\ Queries(us, v) /\ us[u].gen = us[v].gen => u = v
  BY <1>1, <1>2 DEF Owned, Queries
<1> QED
  BY <1>1, <1>2, <1>3 DEF Owned, Queries

\* A turn is over, and the guard, if it is idle now, was not another's.
LEMMA OwnedOver ==
    ASSUME NEW ts, NEW us, NEW s, NEW r, NEW g, NEW t \in DOMAIN ts,
           Owned(ts, s, g), Shaped(us), DOMAIN us = DOMAIN ts,
           us[t].stage = "over", us[t].gen = ts[t].gen,
           \A u \in DOMAIN ts : u # t => us[u] = ts[u],
           \/ r = s /\ (ts[t].stage = "processing" => s # "dispatching")
                    /\ (Queries(ts, t) => s # "running" \/ ts[t].gen # g)
           \/ r = "idle" /\ s # "running"
           \/ r = "idle" /\ Queries(ts, t) /\ ts[t].gen = g
    PROVE  Owned(us, r, g)
BY DEF Owned, Queries

\* The generation is used up: forceEnd, or a guard that ran within the event.
LEMMA OwnedForced ==
    ASSUME NEW ts, NEW us, NEW s, NEW g, Owned(ts, s, g), Shaped(us),
           DOMAIN us = DOMAIN ts,
           \A u \in DOMAIN ts : /\ us[u].gen = ts[u].gen
                                /\ us[u].stage = ts[u].stage \/ us[u].stage = "over"
    PROVE  Owned(us, "idle", g + 1)
<1>1. \A u \in DOMAIN ts : ts[u].gen \in Nat
  BY ShapedFacts DEF Owned
<1> QED
  BY <1>1 DEF Owned, Queries

-----------------------------------------------------------------------------
(***************************************************************************)
(* The actions.                                                            *)
(***************************************************************************)
LEMMA UnchangedStep ==
    ASSUME GuardInv, UNCHANGED <<guard, turns>>
    PROVE  GuardInv'
BY DEF GuardInv, guard

LEMMA NewTurnType ==
    ASSUME NEW cmds, NEW direct \in BOOLEAN, NEW stage \in Stages, NEW gen \in Nat
    PROVE  \E D : NewTurn(cmds, direct, stage, gen) \in TurnOf(D)
<1>1. NewTurn(cmds, direct, stage, gen) \in TurnOf({cmds, <<>>})
  BY DEF NewTurn, TurnOf
<1> QED
  BY <1>1

LEMMA DispatchStep ==
    ASSUME GuardInv, NEW ts, Shaped(ts), Same(turns, ts), NEW cmds,
           ExecuteUserInput(ts, cmds), generation' = generation
    PROVE  GuardInv'
<1>1. Owned(ts, status, generation)
  BY OwnedKept DEF GuardInv
<1>2. PICK D : \E r \in TurnOf(D) : r = NewTurn(cmds, FALSE, "processing", 0)
  BY NewTurnType DEF Stages
<1>7. PICK r \in TurnOf(D) : r = NewTurn(cmds, FALSE, "processing", 0)
  BY <1>2
<1>3. r.stage = "processing" /\ r.gen = 0
  BY <1>7 DEF NewTurn
<1>4. turns' = Added(ts, r)
  BY <1>7 DEF ExecuteUserInput, Added
<1>5. /\ Shaped(turns') /\ DOMAIN turns' = 1 .. Len(ts) + 1
      /\ turns'[Len(ts) + 1] = r /\ \A u \in DOMAIN ts : turns'[u] = ts[u]
  BY <1>4, AddTurn
<1>6. Owned(turns', IF status = "idle" THEN "dispatching" ELSE status, generation)
  BY <1>1, <1>3, <1>5, OwnedDispatch
<1> QED
  BY <1>6 DEF ExecuteUserInput, GuardInv

LEMMA OverStep ==
    ASSUME Shaped(turns), NEW t \in Turn, turns' = Replaced(turns, t, Over(t))
    PROVE  /\ Shaped(turns') /\ DOMAIN turns' = DOMAIN turns
           /\ turns'[t].stage = "over" /\ turns'[t].gen = turns[t].gen
           /\ \A u \in DOMAIN turns : u # t => turns'[u] = turns[u]
<1>1. PICK C : turns[t] \in TurnOf(C)
  BY ShapedElement DEF Turn
<1>2. /\ Over(t) \in TurnOf(C \cup {<<>>})
      /\ Over(t).stage = "over" /\ Over(t).gen = turns[t].gen
  BY <1>1 DEF Over, TurnOf, Stages
<1>3. PICK r \in TurnOf(C \cup {<<>>}) : r = Over(t)
  BY <1>2
<1>4. turns' = Replaced(turns, t, r) /\ t \in DOMAIN turns
  BY <1>3 DEF Turn
<1>5. /\ Shaped(turns') /\ DOMAIN turns' = DOMAIN turns /\ Len(turns') = Len(turns)
      /\ turns'[t] = r /\ \A u \in DOMAIN turns : u # t => turns'[u] = turns[u]
  BY <1>4, ReplaceTurn
<1> QED
  BY <1>2, <1>3, <1>5

\* A turn is over and the guard becomes r.
LEMMA EndStep ==
    ASSUME GuardInv, NEW t \in Turn, turns' = Replaced(turns, t, Over(t)),
           generation' = generation,
           \/ /\ status' = status
              /\ turns[t].stage = "processing" => status # "dispatching"
              /\ Queries(turns, t) => status # "running" \/ turns[t].gen # generation
           \/ status' = "idle" /\ status # "running"
           \/ status' = "idle" /\ Queries(turns, t) /\ turns[t].gen = generation
    PROVE  GuardInv'
<1>1. Shaped(turns) /\ t \in DOMAIN turns
  BY DEF GuardInv, Owned, Turn
<1>2. /\ Shaped(turns') /\ DOMAIN turns' = DOMAIN turns
      /\ turns'[t].stage = "over" /\ turns'[t].gen = turns[t].gen
      /\ \A u \in DOMAIN turns : u # t => turns'[u] = turns[u]
  BY <1>1, OverStep
<1>3. Owned(turns', status', generation)
  BY <1>1, <1>2, OwnedOver DEF GuardInv
<1> QED
  BY <1>3 DEF GuardInv

\* A turn is rewritten, and stays what it is to the guard.
LEMMA RewriteStep ==
    ASSUME GuardInv, UNCHANGED guard, NEW t \in Turn, NEW D, NEW r \in TurnOf(D),
           turns' = Replaced(turns, t, r), r.gen = turns[t].gen,
           r.stage = "processing" <=> turns[t].stage = "processing",
           r.stage \in {"querying", "attaching"} <=> Queries(turns, t)
    PROVE  GuardInv'
<1>1. Shaped(turns) /\ t \in DOMAIN turns
  BY DEF GuardInv, Owned, Turn
<1>2. /\ Shaped(turns') /\ DOMAIN turns' = DOMAIN turns /\ Len(turns') = Len(turns)
      /\ turns'[t] = r /\ \A u \in DOMAIN turns : u # t => turns'[u] = turns[u]
  BY <1>1, ReplaceTurn
<1>3. Same(turns, turns')
  BY <1>2 DEF Same, Queries
<1>4. Owned(turns', status, generation)
  BY <1>2, <1>3, OwnedKept DEF GuardInv
<1> QED
  BY <1>4 DEF GuardInv, guard

LEMMA SubmitKeeps == ASSUME GuardInv, NEW kind, Submit(kind) PROVE GuardInv'
<1>1. CASE Active
  BY <1>1, UnchangedStep DEF Submit, guard
<1>2. CASE ~Active
  <2>1. PICK cmds : ExecuteUserInput(turns, cmds)
    BY <1>2 DEF Submit
  <2>2. Shaped(turns) /\ Same(turns, turns)
    BY DEF GuardInv, Owned, Same
  <2>3. generation' = generation
    BY DEF Submit
  <2> QED
    BY <2>1, <2>2, <2>3, DispatchStep
<1> QED
  BY <1>1, <1>2

LEMMA RenderKeeps == ASSUME GuardInv, Render PROVE GuardInv'
<1>1. Shaped(turns) /\ Same(turns, turns)
  BY DEF GuardInv, Owned, Same
<1>2. /\ Shaped(AbortIn(turns, controller, "interrupt"))
      /\ Same(turns, AbortIn(turns, controller, "interrupt"))
  BY <1>1, AbortKeeps
<1>3. PICK ts \in {turns, AbortIn(turns, controller, "interrupt")} :
          \/ \E cmds : ExecuteUserInput(ts, cmds)
          \/ turns' = ts /\ status' = status
  BY DEF Render
<1>4. Shaped(ts) /\ Same(turns, ts)
  BY <1>1, <1>2, <1>3
<1>5. generation' = generation
  BY DEF Render
<1>6. CASE \E cmds : ExecuteUserInput(ts, cmds)
  BY <1>4, <1>5, <1>6, DispatchStep
<1>7. CASE turns' = ts /\ status' = status
  <2>1. Owned(ts, status, generation)
    BY <1>4, OwnedKept DEF GuardInv
  <2> QED
    BY <1>5, <1>7, <2>1 DEF GuardInv
<1> QED
  BY <1>3, <1>6, <1>7

LEMMA IncomingPromptKeeps == ASSUME GuardInv, IncomingPrompt PROVE GuardInv'
<1>1. Shaped(turns) /\ generation \in Nat /\ status # "running"
  BY DEF GuardInv, Owned, IncomingPrompt, Active
<1>2. PICK cmds : turns' = Append(turns, NewTurn(cmds, TRUE, "querying", generation + 1))
  BY DEF IncomingPrompt
<1>3. PICK D : \E r \in TurnOf(D) : r = NewTurn(cmds, TRUE, "querying", generation + 1)
  <2>1. generation + 1 \in Nat /\ "querying" \in Stages /\ TRUE \in BOOLEAN
    BY <1>1 DEF Stages
  <2> QED
    BY <2>1, NewTurnType, Zenon
<1>4. PICK r \in TurnOf(D) : r = NewTurn(cmds, TRUE, "querying", generation + 1)
  BY <1>3
<1>5. r.stage = "querying" /\ r.gen = generation + 1
  BY <1>4 DEF NewTurn
<1>6. turns' = Added(turns, r)
  BY <1>2, <1>4 DEF Added
<1>7. /\ Shaped(turns') /\ DOMAIN turns' = 1 .. Len(turns) + 1
      /\ turns'[Len(turns) + 1] = r /\ \A u \in DOMAIN turns : turns'[u] = turns[u]
  BY <1>1, <1>6, AddTurn
<1>8. /\ Len(turns) + 1 \in DOMAIN turns' /\ DOMAIN turns \subseteq DOMAIN turns'
      /\ \A u \in DOMAIN turns' : u # Len(turns) + 1 => u \in DOMAIN turns
  BY <1>1, <1>7, ShapedFacts
<1>9. Owned(turns', "running", generation + 1)
  BY <1>1, <1>5, <1>7, <1>8, OwnedQuery DEF GuardInv
<1> QED
  BY <1>9 DEF GuardInv, IncomingPrompt

\* The turn of a query that has started.
Started(q, g) == [q EXCEPT !.stage = "querying", !.gen = g]

LEMMA StartedType ==
    ASSUME NEW C, NEW q \in TurnOf(C), NEW g \in Nat
    PROVE  /\ Started(q, g) \in TurnOf(C)
           /\ Started(q, g).stage = "querying" /\ Started(q, g).gen = g
<1>1. [q EXCEPT !.stage = "querying"] \in TurnOf(C)
  BY DEF TurnOf, Stages
<1>2. PICK p \in TurnOf(C) : p = [q EXCEPT !.stage = "querying"] /\ p.stage = "querying"
  BY <1>1 DEF TurnOf
<1>3. [p EXCEPT !.gen = g] \in TurnOf(C)
  BY DEF TurnOf
<1>4. [p EXCEPT !.gen = g].stage = "querying" /\ [p EXCEPT !.gen = g].gen = g
  BY <1>2 DEF TurnOf
<1>5. [p EXCEPT !.gen = g] = Started(q, g)
  BY <1>2 DEF Started
<1> QED
  BY <1>3, <1>4, <1>5

LEMMA BecomesQueryKeeps == ASSUME GuardInv, NEW t \in Turn, BecomesQuery(t) PROVE GuardInv'
<1>1. Shaped(turns) /\ generation \in Nat /\ t \in DOMAIN turns /\ turns[t].stage = "processing"
  BY DEF GuardInv, Owned, BecomesQuery, Processing, Turn
<1>2. CASE status # "running"
  <2>1. PICK C : turns[t] \in TurnOf(C)
    BY <1>1, ShapedElement
  <2>2. /\ Started(turns[t], generation + 1) \in TurnOf(C)
        /\ Started(turns[t], generation + 1).stage = "querying"
        /\ Started(turns[t], generation + 1).gen = generation + 1
    <3>1. generation + 1 \in Nat
      BY <1>1
    <3> QED
      BY <2>1, <3>1, StartedType
  <2>3. turns' = [turns EXCEPT ![t] = Started(turns[t], generation + 1)]
    BY <1>2, <2>1 DEF BecomesQuery, TurnOf, Started
  <2>4. PICK r \in TurnOf(C) : /\ r.stage = "querying" /\ r.gen = generation + 1
                               /\ turns' = Replaced(turns, t, r)
    BY <2>2, <2>3 DEF Replaced
  <2>5. /\ Shaped(turns') /\ DOMAIN turns' = DOMAIN turns /\ Len(turns') = Len(turns)
        /\ turns'[t] = r /\ \A u \in DOMAIN turns : u # t => turns'[u] = turns[u]
    BY <1>1, <2>4, ReplaceTurn
  <2>6. /\ t \in DOMAIN turns' /\ turns'[t].stage = "querying" /\ turns'[t].gen = generation + 1
        /\ DOMAIN turns \subseteq DOMAIN turns'
        /\ \A u \in DOMAIN turns' : u # t => u \in DOMAIN turns /\ turns'[u] = turns[u]
    BY <1>1, <2>4, <2>5
  <2>7. Owned(turns', "running", generation + 1)
    BY <1>2, <2>5, <2>6, OwnedQuery DEF GuardInv
  <2> QED
    BY <1>2, <2>7 DEF GuardInv, BecomesQuery
<1>3. CASE status = "running"
  <2>1. turns' = Replaced(turns, t, Over(t)) /\ UNCHANGED guard
    BY <1>3 DEF BecomesQuery, Replaced
  <2> QED
    BY <1>1, <1>3, <2>1, EndStep DEF guard, Queries
<1> QED
  BY <1>2, <1>3

LEMMA BecomesLocalKeeps == ASSUME GuardInv, NEW t \in Turn, BecomesLocal(t) PROVE GuardInv'
<1>1. Shaped(turns) /\ t \in DOMAIN turns /\ turns[t].stage = "processing"
  BY DEF GuardInv, Owned, BecomesLocal, Processing, Turn
<1>2. turns' = Replaced(turns, t, Over(t))
  BY DEF BecomesLocal, Replaced
<1>3. CASE status # "running"
  <2>1. /\ Shaped(turns') /\ DOMAIN turns' = DOMAIN turns
        /\ turns'[t].stage = "over" /\ turns'[t].gen = turns[t].gen
        /\ \A u \in DOMAIN turns : u # t => turns'[u] = turns[u]
    BY <1>1, <1>2, OverStep
  <2>2. Owned(turns', "idle", generation + 1)
    BY <2>1, OwnedForced DEF GuardInv
  <2> QED
    BY <1>3, <2>2 DEF BecomesLocal, GuardInv
<1>4. CASE status = "running"
  <2>1. UNCHANGED guard
    BY <1>4 DEF BecomesLocal
  <2> QED
    BY <1>1, <1>2, <1>4, <2>1, EndStep DEF guard, Queries
<1> QED
  BY <1>3, <1>4

\* cancelReservation by a turn that was processing, or whose query lost the guard.
LEMMA ReleaseKeeps ==
    ASSUME GuardInv, NEW t \in Turn, turns' = Replaced(turns, t, Over(t)),
           generation' = generation, status' = Released,
           Queries(turns, t) => status # "running" \/ turns[t].gen # generation
    PROVE  GuardInv'
<1>1. CASE status = "dispatching"
  BY <1>1, EndStep DEF Released
<1>2. CASE status # "dispatching"
  BY <1>2, EndStep DEF Released
<1> QED
  BY <1>1, <1>2

LEMMA BecomesNothingKeeps == ASSUME GuardInv, NEW t \in Turn, BecomesNothing(t) PROVE GuardInv'
<1>1. turns' = Replaced(turns, t, Over(t)) /\ turns[t].stage = "processing"
      /\ generation' = generation /\ status' = Released
  BY DEF BecomesNothing, Replaced, Processing
<1> QED
  BY <1>1, ReleaseKeeps DEF Queries

LEMMA ThrowsKeeps == ASSUME GuardInv, NEW t \in Turn, Throws(t) PROVE GuardInv'
<1>1. turns' = Replaced(turns, t, Over(t)) /\ turns[t].stage = "processing"
      /\ generation' = generation /\ status' = Released
  BY DEF Throws, Replaced, Processing
<1> QED
  BY <1>1, ReleaseKeeps DEF Queries

LEMMA QueryEndsKeeps == ASSUME GuardInv, NEW t \in Turn, QueryEnds(t) PROVE GuardInv'
<1>1. /\ turns' = Replaced(turns, t, Over(t)) /\ generation' = generation
      /\ turns[t].stage = "querying" /\ Queries(turns, t)
  BY DEF QueryEnds, Replaced, Queries
<1>2. CASE Ends(t)
  <2>1. status' = "idle" /\ turns[t].gen = generation
    BY <1>2 DEF QueryEnds, Ends
  <2> QED
    BY <1>1, <2>1, EndStep
<1>3. CASE ~Ends(t) /\ turns[t].direct
  <2>1. status' = status /\ (status # "running" \/ turns[t].gen # generation)
    BY <1>3 DEF QueryEnds, Ends
  <2> QED
    BY <1>1, <2>1, EndStep
<1>4. CASE ~Ends(t) /\ ~turns[t].direct
  <2>1. status' = Released /\ (status # "running" \/ turns[t].gen # generation)
    BY <1>4 DEF QueryEnds, Ends
  <2> QED
    BY <1>1, <2>1, ReleaseKeeps
<1> QED
  BY <1>2, <1>3, <1>4

LEMMA TakeSnapshotKeeps == ASSUME GuardInv, NEW t \in Turn, TakeSnapshot(t) PROVE GuardInv'
<1>1. PICK C : turns[t] \in TurnOf(C)
  BY ShapedElement DEF GuardInv, Owned, Turn
<1>2. PICK taken : turns' = [turns EXCEPT ![t].stage = "attaching", ![t].snapshot = taken]
  BY DEF TakeSnapshot
<1> DEFINE p == [turns[t] EXCEPT !.stage = "attaching"]
           q == [p EXCEPT !.snapshot = taken]
           D == C \cup {taken}
<1>3. p \in TurnOf(C) /\ p.stage = "attaching" /\ p.gen = turns[t].gen
  BY <1>1 DEF TurnOf, Stages
<1>4. q \in TurnOf(D) /\ q.stage = "attaching" /\ q.gen = turns[t].gen
  BY <1>3 DEF TurnOf, Stages
<1>5. turns' = Replaced(turns, t, q)
  BY <1>1, <1>2 DEF Replaced, Turn, TurnOf
<1>6. turns[t].stage = "querying" /\ UNCHANGED guard
  BY DEF TakeSnapshot
<1> HIDE DEF q, D
<1> QED
  BY <1>4, <1>5, <1>6, RewriteStep DEF Queries

LEMMA RemoveConsumedKeeps == ASSUME GuardInv, NEW t \in Turn, RemoveConsumed(t) PROVE GuardInv'
<1>1. PICK C : turns[t] \in TurnOf(C)
  BY ShapedElement DEF GuardInv, Owned, Turn
<1>2. turns' = [turns EXCEPT ![t].stage = "querying", ![t].snapshot = <<>>]
  BY DEF RemoveConsumed
<1> DEFINE p == [turns[t] EXCEPT !.stage = "querying"]
           q == [p EXCEPT !.snapshot = <<>>]
           D == C \cup {<<>>}
<1>3. p \in TurnOf(C) /\ p.stage = "querying" /\ p.gen = turns[t].gen
  BY <1>1 DEF TurnOf, Stages
<1>4. q \in TurnOf(D) /\ q.stage = "querying" /\ q.gen = turns[t].gen
  BY <1>3 DEF TurnOf, Stages
<1>5. turns' = Replaced(turns, t, q)
  BY <1>1, <1>2 DEF Replaced, Turn, TurnOf
<1>6. turns[t].stage = "attaching" /\ UNCHANGED guard
  BY DEF RemoveConsumed
<1> HIDE DEF q, D
<1> QED
  BY <1>4, <1>5, <1>6, RewriteStep DEF Queries

LEMMA OpenDialogKeeps == ASSUME GuardInv, NEW t \in Turn, OpenDialog(t) PROVE GuardInv'
<1>1. PICK C : turns[t] \in TurnOf(C)
  BY ShapedElement DEF GuardInv, Owned, Turn
<1> DEFINE q == [turns[t] EXCEPT !.dialog = TRUE]
<1>2. q \in TurnOf(C) /\ q.stage = turns[t].stage /\ q.gen = turns[t].gen
  BY <1>1 DEF TurnOf
<1>3. turns' = Replaced(turns, t, q) /\ UNCHANGED guard
  BY DEF OpenDialog, Replaced
<1> HIDE DEF q
<1> QED
  BY <1>2, <1>3, RewriteStep DEF Queries

\* forceEnd: what was running is no longer of the current generation.
LEMMA OnCancelKeeps == ASSUME GuardInv, OnCancel PROVE GuardInv'
<1>1. Shaped(turns) /\ turns' = AbortIn(turns, shown, "user")
  BY DEF GuardInv, Owned, OnCancel
<1>2. Shaped(turns') /\ Same(turns, turns')
  BY <1>1, AbortKeeps
<1>3. Owned(turns', status, generation)
  BY <1>2, OwnedKept DEF GuardInv
<1>4. CASE Active
  <2>1. Owned(turns', "idle", generation + 1)
    BY <1>2, <1>3, OwnedForced
  <2> QED
    BY <1>4, <2>1 DEF GuardInv, OnCancel
<1>5. CASE ~Active
  BY <1>3, <1>5 DEF GuardInv, OnCancel, guard
<1> QED
  BY <1>4, <1>5

LEMMA InitOwned == ASSUME Init PROVE GuardInv
<1>1. turns = <<>> /\ status = "idle" /\ generation = 0
  BY DEF Init
<1>2. turns \in Seq(TurnOf({})) /\ DOMAIN turns = {}
  BY <1>1, EmptySeq
<1> QED
  BY <1>1, <1>2 DEF GuardInv, Owned, Shaped

LEMMA NextKeepsGuard == ASSUME GuardInv, [Next]_vars PROVE GuardInv'
<1>1. CASE UNCHANGED vars
  BY <1>1, UnchangedStep DEF vars
<1>2. CASE \E kind \in Kinds : Submit(kind)
  BY <1>2, SubmitKeeps
<1>3. CASE \E kind \in Kinds : Notify(kind)
  BY <1>3, UnchangedStep DEF Notify
<1>4. CASE IncomingPrompt
  BY <1>4, IncomingPromptKeeps
<1>5. CASE SubagentDrains
  BY <1>5, UnchangedStep DEF SubagentDrains
<1>6. CASE Render
  BY <1>6, RenderKeeps
<1>7. CASE \E t \in Turn : Dispatched(t)
  BY <1>7, BecomesQueryKeeps, BecomesLocalKeeps, BecomesNothingKeeps, ThrowsKeeps
     DEF Dispatched
<1>8. CASE \E t \in Turn : OpenDialog(t)
  BY <1>8, OpenDialogKeeps
<1>9. CASE \E t \in Turn : QueryEnds(t)
  BY <1>9, QueryEndsKeeps
<1>10. CASE \E t \in Turn : TakeSnapshot(t)
  BY <1>10, TakeSnapshotKeeps
<1>11. CASE \E t \in Turn : RemoveConsumed(t)
  BY <1>11, RemoveConsumedKeeps
<1>12. CASE Escape \/ Rewind
  BY <1>12, OnCancelKeeps DEF Escape, Rewind
<1>13. CASE PopQueue \/ KillAgents \/ RunImmediate
              \/ ImmediateLoaded \/ CloseImmediate
  BY <1>13, UnchangedStep DEF PopQueue, KillAgents, RunImmediate,
         ImmediateLoaded, CloseImmediate
<1> QED
  BY <1>1, <1>2, <1>3, <1>4, <1>5, <1>6, <1>7, <1>8, <1>9, <1>10, <1>11, <1>12, <1>13
     DEF Next

(***************************************************************************)
(* QueryGuard is never lost and never shared: a reservation has a dispatch *)
(* that will give it back, the guard runs exactly while one query of the   *)
(* current generation does, whatever is cancelled, thrown or answered late.*)
(***************************************************************************)
THEOREM GuardAlwaysOwned == Spec => []GuardOwned
<1>1. Init => GuardInv
  BY InitOwned
<1>2. GuardInv /\ [Next]_vars => GuardInv'
  BY NextKeepsGuard
<1>3. GuardInv => GuardOwned
  BY OwnedMeansOwned
<1> QED
  BY <1>1, <1>2, <1>3, PTL DEF Spec
=============================================================================
