-------------------------- MODULE DevicesPageProofs --------------------------
(***************************************************************************)
(* The safety of DevicesPage, proved from the inductive invariant PageInv. *)
(*                                                                         *)
(* One lemma for each conjunct of the invariant, over the actions that can *)
(* disturb it; before them, what the cards, the calls and the effect of    *)
(* the listing do in a step.                                               *)
(***************************************************************************)
EXTENDS DevicesPage, FiniteSetTheorems, TLAPS

Kinds == {"validate", "claim", "revoke", "reissue", "register"}

\* The order of a device's states.
LEMMA RankValues ==
    /\ Rank("NONE") = 0 /\ Rank("PENDING") = 1
    /\ Rank("CLAIMED") = 2 /\ Rank("REVOKED") = 3
    /\ \A s \in States : Rank(s) \in 0 .. 3
BY DEF Rank, States

\* A call that is served brings its device forward, at least to where its
\* answer says it is.
LEMMA AfterForward ==
    ASSUME NEW kind \in Kinds, NEW s \in States
    PROVE  /\ After(kind, s) \in States /\ After(kind, "NONE") \in States
           /\ s \in Before(kind) =>
                 /\ Rank(s) <= Rank(After(kind, s))
                 /\ Rank(After(kind, "NONE")) <= Rank(After(kind, s))
           /\ Rank(After("validate", "NONE")) = 0
           /\ After("claim", "NONE") = "CLAIMED"
           /\ After("revoke", "NONE") = "REVOKED"
           /\ After("register", "NONE") = "PENDING"
<1>1. After(kind, s) \in States /\ After(kind, "NONE") \in States
  BY DEF After, States
<1>2. CASE kind = "claim"
  BY <1>1, <1>2, RankValues DEF After, Before
<1>3. CASE kind = "revoke"
  BY <1>1, <1>3, RankValues DEF After, Before
<1>4. CASE kind = "register"
  BY <1>1, <1>4, RankValues DEF After, Before
<1>5. CASE kind \in {"validate", "reissue"}
  <2>1. After(kind, s) = s /\ After(kind, "NONE") = "NONE"
    BY <1>5 DEF After
  <2> QED BY <1>1, <2>1, RankValues DEF After
<1>6. /\ Rank(After("validate", "NONE")) = 0
      /\ After("claim", "NONE") = "CLAIMED"
      /\ After("revoke", "NONE") = "REVOKED"
      /\ After("register", "NONE") = "PENDING"
  BY RankValues DEF After
<1> QED BY <1>1, <1>2, <1>3, <1>4, <1>5, <1>6 DEF Kinds

\* An action of the administrator is one of a bounded number.
LEMMA ActBound ==
    ASSUME actions \in 0 .. MaxActions, Act
    PROVE  /\ actions' \in 0 .. MaxActions /\ actions' = actions + 1
           /\ actions' \in Runs
BY DevicesPageAssumption DEF Act, Runs

\* What is done to a card leaves a card.
LEMMA CardTypes ==
    ASSUME NEW card \in Card, NEW d \in Devices \cup {None}
    PROVE  /\ Closed \in Card /\ Busy(card) \in Card
           /\ \A m \in Runs : [card EXCEPT !.dev = d,
                                           !.mount = IF @ = 0 THEN m ELSE @] \in Card
           /\ [Busy(card) EXCEPT !.dev = d] \in Card
           /\ \A c : Reached(card, c, d) \in Card
<1>1. 0 \in Runs
  BY DevicesPageAssumption DEF Runs
<1>2. Closed \in Card
  BY <1>1 DEF Closed, Card
<1>3. Busy(card) \in Card /\ [Busy(card) EXCEPT !.dev = d] \in Card
  BY DEF Busy, Card
<1>4. \A m \in Runs : [card EXCEPT !.dev = d,
                                   !.mount = IF @ = 0 THEN m ELSE @] \in Card
  BY DEF Card
<1>5. \A c : Reached(card, c, d) \in Card
  BY DEF Reached, Card
<1> QED BY <1>2, <1>3, <1>4, <1>5

\* The effect runs again while there is one more run to number.
LEMMA EffectTypes ==
    ASSUME TypeOK, NEW all \in BOOLEAN, Effect(all), effect + 1 \in Runs
    PROVE  /\ effect' = effect + 1 /\ effect' \in Runs /\ scope' = all
           /\ fetches' \in [Runs -> Fetch] /\ fetches'[effect'] = Sent(all)
           /\ fetches'[effect'].stage = "sent" /\ fetches'[effect'].all = all
           /\ loading' = TRUE /\ listing' = listing /\ error' = error
<1>1. Sent(all) \in Fetch
  BY DEF Sent, Fetch, Blank, View, States
<1>2. Sent(all).stage = "sent" /\ Sent(all).all = all
  BY DEF Sent
<1> QED BY <1>1, <1>2 DEF Effect, TypeOK

\* There is one more run to number: an action or an answer is not yet counted.
LEMMA EffectRoom ==
    ASSUME TypeOK, RunsOwed
    PROVE  /\ actions < MaxActions => effect + 1 \in Runs
           /\ \A c \in calls : effect + 1 \in Runs
<1>1. /\ effect \in Nat /\ effect <= MaxActions /\ actions \in Nat
      /\ actions <= MaxActions /\ MaxActions \in Nat
      /\ Cardinality(calls) \in Nat
  BY DevicesPageAssumption, FS_CardinalityType DEF TypeOK, Runs, RunsOwed
<1>2. actions < MaxActions => effect + 1 \in Runs
  BY <1>1 DEF RunsOwed, Runs
<1>3. ASSUME NEW c \in calls PROVE effect + 1 \in Runs
  <2>1. Cardinality(calls) # 0
    BY FS_EmptySet DEF RunsOwed
  <2> QED BY <1>1, <2>1 DEF RunsOwed, Runs
<1> QED BY <1>2, <1>3

\* A call is sent, served, or turned into the next one.
LEMMA CallTypes ==
    /\ \A kind \in Kinds, d \in Devices, card \in Card :
          [kind |-> kind, dev |-> d, mount |-> card.mount, answer |-> "none"] \in Call
    /\ \A c \in Call : /\ c.kind \in Kinds /\ c.dev \in Devices
                       /\ \A a \in {"ok", "error"} : [c EXCEPT !.answer = a] \in Call
                       /\ [c EXCEPT !.kind = "claim", !.answer = "none"] \in Call
BY DEF Card, Call, Kinds

\* The page is told of a state.
LEMMA ToldTypes ==
    ASSUME known \in [Devices -> States], NEW c \in Call, NEW s \in States, Told(c, s)
    PROVE  known' \in [Devices -> States]
BY DEF Told

\* The administrator's actions keep the types.
LEMMA ActTypes ==
    ASSUME TypeOK, RunsOwed, OpenCards, Reload \/ OpenCard \/ CloseCard \/ Confirm
    PROVE  TypeOK'
<1>0. /\ actions' \in 0 .. MaxActions /\ actions' \in Runs
      /\ effect + 1 \in Runs
  BY ActBound, EffectRoom DEF TypeOK, Reload, OpenCard, CloseCard, Confirm, Act
<1>1. /\ scope \in BOOLEAN /\ (~ scope) \in BOOLEAN /\ calls \subseteq Call
      /\ revoke \in Card /\ reissue \in Card /\ wizard \in Card /\ factory \in Card
  BY DEF TypeOK
<1>2. ASSUME NEW all \in BOOLEAN, Effect(all)
      PROVE  /\ fetches' \in [Runs -> Fetch] /\ effect' \in Runs
             /\ scope' \in BOOLEAN /\ listing' \in View
             /\ loading' \in BOOLEAN /\ error' \in BOOLEAN
             /\ loading' <=> fetches'[effect'].stage # "none"
  <2>1. fetches'[effect'].stage # "none" /\ loading' = TRUE
    BY <1>0, <1>2, EffectTypes
  <2> QED BY <1>0, <1>2, <2>1, EffectTypes DEF TypeOK
<1>3. CASE Reload
  <2>1. Effect(~ scope) \/ Effect(scope)
    BY <1>3 DEF Reload, Refresh
  <2>2. UNCHANGED <<state, cards, calls, context, known>>
    BY <1>3 DEF Reload
  <2> QED BY <1>0, <1>1, <1>2, <2>1, <2>2 DEF TypeOK, cards, context
<1>4. CASE OpenCard
  <2>1. \A card \in Card, d \in Devices \cup {None} : Opened(card, d) \in Card
    BY <1>0, CardTypes DEF Opened
  <2>2. /\ revoke' \in Card /\ reissue' \in Card /\ wizard' \in Card
        /\ factory' \in Card
    BY <1>1, <1>4, <2>1 DEF OpenCard
  <2> QED BY <1>0, <1>4, <2>2 DEF TypeOK, OpenCard, list, context
<1>5. CASE CloseCard
  <2>1. /\ revoke' \in Card /\ reissue' \in Card /\ wizard' \in Card
        /\ factory' \in Card
    BY <1>1, <1>5, CardTypes DEF CloseCard
  <2>2. UNCHANGED list \/ Effect(scope)
    BY <1>5 DEF CloseCard, Refresh
  <2>3. UNCHANGED <<state, calls, context, known>>
    BY <1>5 DEF CloseCard
  <2>4. CASE UNCHANGED list
    BY <1>0, <2>1, <2>3, <2>4 DEF TypeOK, list, context
  <2>5. CASE Effect(scope)
    BY <1>0, <1>1, <1>2, <2>1, <2>3, <2>5 DEF TypeOK, context
  <2> QED BY <2>2, <2>4, <2>5
<1>6. CASE Confirm
  <2>1. /\ \A card \in Card : Busy(card) \in Card
        /\ \A d \in Devices : [Busy(factory) EXCEPT !.dev = d] \in Card
    BY <1>1, CardTypes
  <2>2. /\ revoke' \in Card /\ reissue' \in Card /\ wizard' \in Card
        /\ factory' \in Card
    BY <1>1, <1>6, <2>1 DEF Confirm
  <2>3. PICK kind \in Kinds, d \in Devices,
             card \in {revoke, reissue, wizard, factory} : Send(kind, d, card)
    <3>1. revoke.dev \in Devices \/ ~ Ready(revoke)
      BY DEF OpenCards, Ready
    <3>2. reissue.dev \in Devices \/ ~ Ready(reissue)
      BY DEF OpenCards, Ready
    <3> QED BY <1>6, <3>1, <3>2, DevicesPageAssumption DEF Confirm, Kinds
  <2>4. calls' \subseteq Call
    <3>1. card \in Card
      BY <1>1
    <3>2. [kind |-> kind, dev |-> d, mount |-> card.mount, answer |-> "none"] \in Call
      BY <3>1, CallTypes
    <3> QED BY <1>1, <2>3, <3>2 DEF Send
  <2> QED BY <1>0, <1>6, <2>2, <2>4 DEF TypeOK, Confirm, list, context
<1> QED BY <1>3, <1>4, <1>5, <1>6

\* The listing is served and answered: types.
LEMMA ListTypes ==
    ASSUME TypeOK, NEW g \in Runs, ServeList(g) \/ AnswerList(g)
    PROVE  TypeOK'
<1>0. /\ fetches \in [Runs -> Fetch] /\ effect \in Runs /\ listing \in View
      /\ state \in [Devices -> States] /\ fetches[g] \in Fetch
      /\ loading \in BOOLEAN /\ error \in BOOLEAN
      /\ loading <=> fetches[effect].stage # "none"
  BY DEF TypeOK
<1>1. CASE ServeList(g)
  <2> DEFINE view == [d \in Devices |->
                        IF fetches[g].all \/ d \in Own THEN state[d] ELSE "NONE"]
             answered == [fetches[g] EXCEPT !.stage = "answered", !.view = view]
             failed == [fetches[g] EXCEPT !.stage = "failed"]
  <2>1. view \in View
    BY <1>0 DEF View, States
  <2>2. answered \in Fetch /\ failed \in Fetch
    BY <1>0, <2>1 DEF Fetch
  <2>3. answered.stage = "answered" /\ failed.stage = "failed"
    BY <1>0 DEF Fetch
  <2>4. fetches' = [fetches EXCEPT ![g] = answered]
        \/ fetches' = [fetches EXCEPT ![g] = failed]
    BY <1>0, <1>1 DEF ServeList
  <2> HIDE DEF view, answered, failed
  <2>5. fetches' \in [Runs -> Fetch]
    BY <1>0, <2>2, <2>4
  <2>6. fetches'[effect].stage # "none" <=> fetches[effect].stage # "none"
    BY <1>0, <1>1, <2>3, <2>4 DEF ServeList
  <2> QED BY <1>0, <1>1, <2>5, <2>6 DEF TypeOK, ServeList, cards, context
<1>2. CASE AnswerList(g)
  <2>1. NoFetch \in Fetch /\ NoFetch.stage = "none"
    BY DEF NoFetch, Fetch, Blank, View, States
  <2>2. fetches' = [fetches EXCEPT ![g] = NoFetch]
    BY <1>2 DEF AnswerList
  <2>3. fetches' \in [Runs -> Fetch]
    BY <1>0, <2>1, <2>2
  <2>4. CASE g = effect
    <3>1. /\ error' = (fetches[g].stage = "failed") /\ loading' = FALSE
          /\ listing' = IF error' THEN listing ELSE fetches[g].view
      BY <1>2, <2>4 DEF AnswerList, Current, StillLoading
    <3>2. listing' \in View /\ error' \in BOOLEAN /\ loading' \in BOOLEAN
      BY <1>0, <3>1 DEF Fetch
    <3>3. ~ loading' /\ fetches'[effect].stage = "none"
      BY <1>0, <2>1, <2>2, <2>4, <3>1
    <3> QED BY <1>0, <1>2, <2>3, <3>2, <3>3 DEF TypeOK, AnswerList, cards, context
  <2>5. CASE g # effect
    <3>1. UNCHANGED <<listing, loading, error>> /\ fetches'[effect] = fetches[effect]
      BY <1>0, <1>2, <2>2, <2>5 DEF AnswerList, Current
    <3> QED BY <1>0, <1>2, <2>3, <3>1 DEF TypeOK, AnswerList, cards, context
  <2> QED BY <2>4, <2>5
<1> QED BY <1>1, <1>2

\* The calls are served and answered: types.
LEMMA CallsTypes ==
    ASSUME TypeOK, RunsOwed, NEW c \in calls,
           Serve(c) \/ Failed(c) \/ Validated(c) \/ Claimed(c) \/ Reissued(c)
              \/ Revoked(c) \/ Registered(c)
    PROVE  TypeOK'
<1>0. /\ c \in Call /\ calls \subseteq Call /\ effect + 1 \in Runs
      /\ scope \in BOOLEAN /\ c.kind \in Kinds /\ c.dev \in Devices
      /\ state \in [Devices -> States] /\ known \in [Devices -> States]
      /\ revoke \in Card /\ reissue \in Card /\ wizard \in Card /\ factory \in Card
  <2>1. c \in Call
    BY DEF TypeOK
  <2> QED BY <2>1, CallTypes, EffectRoom DEF TypeOK
<1>1. calls' \subseteq Call
  <2>1. \A answer \in {"ok", "error"} : [c EXCEPT !.answer = answer] \in Call
    BY <1>0, CallTypes
  <2>2. [c EXCEPT !.kind = "claim", !.answer = "none"] \in Call
    BY <1>0, CallTypes
  <2>3. CASE Serve(c)
    BY <1>0, <2>1, <2>3 DEF Serve
  <2>4. CASE Validated(c)
    BY <1>0, <2>2, <2>4 DEF Validated
  <2> QED
    BY <1>0, <2>3, <2>4 DEF Failed, Claimed, Reissued, Revoked, Registered
<1>2. /\ revoke' \in Card /\ reissue' \in Card /\ wizard' \in Card /\ factory' \in Card
  <2>1. \A card \in Card, d \in Devices \cup {None} : Reached(card, c, d) \in Card
    BY CardTypes
  <2>2. Closed \in Card
    BY <1>0, CardTypes
  <2> QED
    BY <1>0, <2>1, <2>2 DEF Serve, Failed, Validated, Claimed, Reissued, Revoked,
       Registered, cards
<1>3. CASE Serve(c)
  <2>1. After(c.kind, state[c.dev]) \in States
    BY <1>0, AfterForward
  <2>2. state' \in [Devices -> States]
    BY <1>0, <1>3, <2>1 DEF Serve
  <2> QED BY <1>0, <1>1, <1>2, <1>3, <2>2 DEF TypeOK, Serve, list, context
<1>4. CASE Failed(c) \/ Validated(c) \/ Reissued(c)
  <2>1. UNCHANGED <<state, list, context, known, actions>>
    BY <1>4 DEF Failed, Validated, Reissued
  <2> QED BY <1>1, <1>2, <2>1 DEF TypeOK, list, context
<1>5. CASE Claimed(c) \/ Revoked(c) \/ Registered(c)
  <2>1. Effect(scope) /\ UNCHANGED <<state, context, actions>>
    BY <1>5 DEF Claimed, Revoked, Registered, Refresh
  <2>2. known' \in [Devices -> States]
    BY <1>0, <1>5, ToldTypes DEF Claimed, Revoked, Registered, States
  <2>3. loading' \in BOOLEAN /\ (loading' <=> fetches'[effect'].stage # "none")
    BY <1>0, <2>1, EffectTypes
  <2>4. /\ fetches' \in [Runs -> Fetch] /\ effect' \in Runs /\ scope' \in BOOLEAN
        /\ listing' = listing /\ error' = error
    BY <1>0, <2>1, EffectTypes
  <2> QED BY <1>0, <1>1, <1>2, <2>1, <2>2, <2>3, <2>4 DEF TypeOK, context
<1> QED BY <1>3, <1>4, <1>5

\* The selection moves, and is answered: types.
LEMMA ContextTypes ==
    ASSUME TypeOK,
           (\E e \in Devices \cup {None} : Select(e)) \/ \E q \in asks : AnswerAsk(q)
    PROVE  TypeOK'
<1>1. ASSUME NEW e \in Devices \cup {None}, Select(e) PROVE TypeOK'
  <2>1. actions' \in 0 .. MaxActions /\ actions' \in Runs
    BY <1>1, ActBound DEF TypeOK, Select
  <2>2. /\ selected' \in [dev : Devices \cup {None}, run : Runs]
        /\ panel' \in {"none", "loading", "error"} \cup Devices
        /\ asks' \subseteq [run : Runs, dev : Devices]
    BY <1>1, <2>1 DEF TypeOK, Select
  <2>3. UNCHANGED <<state, list, cards, calls, known>>
    BY <1>1 DEF Select
  <2> QED BY <2>1, <2>2, <2>3 DEF TypeOK, list, cards
<1>2. ASSUME NEW q \in asks, AnswerAsk(q) PROVE TypeOK'
  <2>1. /\ panel' \in {"none", "loading", "error"} \cup Devices
        /\ asks' \subseteq [run : Runs, dev : Devices]
    BY <1>2 DEF TypeOK, AnswerAsk
  <2>2. UNCHANGED <<state, list, cards, calls, selected, known, actions>>
    BY <1>2 DEF AnswerAsk
  <2> QED BY <2>1, <2>2 DEF TypeOK, list, cards
<1> QED BY <1>1, <1>2

-----------------------------------------------------------------------------
\* What leaves the listing, or the page's knowledge of the devices, alone.
LEMMA QuietSteps ==
    /\ \A c : Serve(c) \/ Failed(c) \/ Validated(c) \/ Reissued(c)
                 => UNCHANGED <<list, context, known, actions>>
    /\ OpenCard => UNCHANGED <<state, list, calls, context, known>>
    /\ Confirm => UNCHANGED <<state, list, context, known>>
    /\ \A e : Select(e) => UNCHANGED <<state, list, cards, calls, known>>
    /\ \A q : AnswerAsk(q) =>
                 UNCHANGED <<state, list, cards, calls, selected, known, actions>>
    /\ \A g : ServeList(g) \/ AnswerList(g) =>
                 UNCHANGED <<state, cards, calls, context, known, actions, effect,
                             scope>>
BY DEF Serve, Failed, Validated, Reissued, OpenCard, Confirm, Select, AnswerAsk,
   ServeList, AnswerList

\* When the effect of the listing runs again, and when the page learns something.
LEMMA LoudSteps ==
    /\ Reload => /\ UNCHANGED <<state, cards, calls, context, known>>
                 /\ Effect(~ scope) \/ Effect(scope)
    /\ CloseCard => /\ UNCHANGED <<state, calls, context, known>>
                    /\ UNCHANGED list \/ Effect(scope)
    /\ \A c : Claimed(c) \/ Revoked(c) \/ Registered(c) =>
          /\ c.answer = "ok" /\ c.kind \in {"claim", "revoke", "register"}
          /\ Told(c, After(c.kind, "NONE")) /\ Effect(scope)
          /\ calls' = calls \ {c} /\ UNCHANGED <<state, context, actions>>
BY AfterForward DEF Reload, CloseCard, Refresh, Claimed, Revoked, Registered, After

\* The page is told of nothing that the backend has not done.
LEMMA AnswersTrueKept ==
    ASSUME TypeOK, AnswersTrue, Next
    PROVE  AnswersTrue'
<1>0. /\ state \in [Devices -> States] /\ known \in [Devices -> States]
      /\ calls \subseteq Call
      /\ \A c \in calls : c \in Call /\ c.kind \in Kinds /\ c.dev \in Devices
  <2>1. calls \subseteq Call
    BY DEF TypeOK
  <2> QED BY <2>1, CallTypes DEF TypeOK
<1>1. ASSUME NEW c \in calls, Serve(c) PROVE AnswersTrue'
  <2>1. known' = known
    BY <1>1, QuietSteps
  <2>2. \A d \in Devices : Rank(state[d]) <= Rank(state'[d]) /\ state'[d] \in States
    <3>1. CASE state' = state
      BY <1>0, <3>1, RankValues
    <3>2. CASE state[c.dev] \in Before(c.kind)
               /\ state' = [state EXCEPT ![c.dev] = After(c.kind, @)]
      BY <1>0, <3>2, AfterForward, RankValues
    <3> QED BY <1>1, <3>1, <3>2 DEF Serve
  <2>3. PICK answer \in {"ok", "error"} :
           /\ calls' = (calls \ {c}) \cup {[c EXCEPT !.answer = answer]}
           /\ \/ /\ state[c.dev] \in Before(c.kind)
                 /\ state' = [state EXCEPT ![c.dev] = After(c.kind, @)]
              \/ answer = "error" /\ UNCHANGED state
    BY <1>1 DEF Serve
  <2>4. \A d \in Devices : Rank(known'[d]) <= Rank(state'[d])
    BY <1>0, <2>1, <2>2, RankValues DEF AnswersTrue
  <2>5. ASSUME NEW b \in calls, b.answer = "ok"
        PROVE  Rank(After(b.kind, "NONE")) <= Rank(state'[b.dev])
    <3>1. After(b.kind, "NONE") \in States
      BY <1>0, AfterForward DEF States
    <3> QED BY <1>0, <2>2, <2>5, <3>1, RankValues DEF AnswersTrue
  <2>6. ASSUME answer = "ok"
        PROVE  Rank(After(c.kind, "NONE")) <= Rank(state'[c.dev])
    BY <1>0, <2>3, <2>6, AfterForward
  <2>7. LET b == [c EXCEPT !.answer = answer] IN
        b.kind = c.kind /\ b.dev = c.dev /\ b.answer = answer
    BY <1>0 DEF Call
  <2>8. ASSUME NEW b \in calls', b.answer = "ok"
        PROVE  Rank(After(b.kind, "NONE")) <= Rank(state'[b.dev])
    BY <2>3, <2>5, <2>6, <2>7, <2>8
  <2> QED BY <2>4, <2>8 DEF AnswersTrue
<1>2. ASSUME NEW c \in calls, Claimed(c) \/ Revoked(c) \/ Registered(c)
      PROVE  AnswersTrue'
  <2> DEFINE s == After(c.kind, "NONE")
  <2>1. /\ c.answer = "ok" /\ Told(c, s) /\ calls' \subseteq calls /\ state' = state
    BY <1>2, LoudSteps
  <2>2. Rank(s) <= Rank(state[c.dev])
    BY <2>1 DEF AnswersTrue
  <2>3. \A d \in Devices : known'[d] = known[d] \/ (d = c.dev /\ known'[d] = s)
    BY <1>0, <2>1 DEF Told
  <2> QED BY <2>1, <2>2, <2>3 DEF AnswersTrue
<1>3. ASSUME state' = state, known' = known,
             \A b \in calls' : b \in calls \/ b.answer # "ok"
      PROVE  AnswersTrue'
  BY <1>3 DEF AnswersTrue
<1>4. CASE Confirm
  <2>1. PICK kind, d, card : Send(kind, d, card)
    BY <1>4 DEF Confirm
  <2> QED BY <1>3, <1>4, <2>1, QuietSteps DEF Send
<1>5. ASSUME NEW c \in calls, Failed(c) \/ Validated(c) \/ Reissued(c)
      PROVE  AnswersTrue'
  <2>1. [c EXCEPT !.kind = "claim", !.answer = "none"].answer = "none"
    BY <1>0 DEF Call
  <2> QED BY <1>3, <1>5, <2>1 DEF Failed, Validated, Reissued
<1>6. ASSUME UNCHANGED <<state, calls, known>> PROVE AnswersTrue'
  BY <1>6 DEF AnswersTrue
<1>7. CASE Reload \/ OpenCard \/ CloseCard
  BY <1>6, <1>7, QuietSteps, LoudSteps
<1>8. ASSUME NEW g \in Runs, ServeList(g) \/ AnswerList(g) PROVE AnswersTrue'
  BY <1>6, <1>8, QuietSteps
<1>9. ASSUME \/ \E e \in Devices \cup {None} : Select(e)
             \/ \E q \in asks : AnswerAsk(q)
      PROVE  AnswersTrue'
  BY <1>6, <1>9, QuietSteps
<1> QED
  BY <1>1, <1>2, <1>4, <1>5, <1>7, <1>8, <1>9 DEF Next

\* The listing that is awaited, or on the page, is not older than the answers.
LEMMA ListingKept ==
    ASSUME TypeOK, RunsOwed, AnswersTrue, CurrentFetch, ListingFresh, Next
    PROVE  CurrentFetch' /\ ListingFresh'
<1>0. /\ state \in [Devices -> States] /\ known \in [Devices -> States]
      /\ fetches \in [Runs -> Fetch] /\ effect \in Runs /\ fetches[effect] \in Fetch
  BY DEF TypeOK
<1>1. scope \in BOOLEAN /\ (~ scope) \in BOOLEAN
  BY DEF TypeOK
<1>2. ASSUME NEW all \in BOOLEAN, Effect(all), effect + 1 \in Runs
      PROVE  CurrentFetch' /\ ListingFresh'
  BY <1>2, EffectTypes DEF CurrentFetch, ListingFresh
<1>3. ASSUME UNCHANGED <<list, known>> PROVE CurrentFetch' /\ ListingFresh'
  BY <1>3 DEF CurrentFetch, ListingFresh, list
<1>4. ASSUME NEW g \in Runs, ServeList(g) PROVE CurrentFetch' /\ ListingFresh'
  <2>1. UNCHANGED <<effect, scope, listing, loading, error, known>>
    BY <1>4 DEF ServeList
  <2>2. ListingFresh'
    BY <2>1 DEF ListingFresh
  <2>3. CASE g # effect
    <3>1. fetches'[effect] = fetches[effect]
      BY <1>0, <1>4, <2>3 DEF ServeList
    <3> QED BY <2>1, <2>2, <3>1 DEF CurrentFetch
  <2>4. CASE g = effect
    <3> DEFINE view == [d \in Devices |->
                 IF fetches[g].all \/ d \in Own THEN state[d] ELSE "NONE"]
    <3>1. fetches[g].all = scope
      BY <1>4, <2>4 DEF ServeList, CurrentFetch
    <3>2. \/ fetches'[g] = [fetches[g] EXCEPT !.stage = "answered", !.view = view]
          \/ fetches'[g] = [fetches[g] EXCEPT !.stage = "failed"]
      BY <1>0, <1>4 DEF ServeList
    <3>3. /\ fetches'[g].all = scope
          /\ fetches'[g].stage = "answered" => fetches'[g].view = view
      BY <1>0, <2>4, <3>1, <3>2 DEF Fetch
    <3>4. \A d \in Devices : IF scope \/ d \in Own THEN Rank(view[d]) >= Rank(known[d])
                             ELSE view[d] = "NONE"
      BY <1>0, <3>1, RankValues DEF AnswersTrue
    <3> QED BY <2>1, <2>2, <2>4, <3>3, <3>4 DEF CurrentFetch
  <2> QED BY <2>3, <2>4
<1>5. ASSUME NEW g \in Runs, AnswerList(g) PROVE CurrentFetch' /\ ListingFresh'
  <2>1. UNCHANGED <<effect, scope, known>> /\ fetches' = [fetches EXCEPT ![g] = NoFetch]
    BY <1>5 DEF AnswerList
  <2>2. CASE g # effect
    <3>1. fetches'[effect] = fetches[effect] /\ UNCHANGED <<listing, loading, error>>
      BY <1>0, <1>5, <2>1, <2>2 DEF AnswerList, Current
    <3> QED BY <2>1, <3>1 DEF CurrentFetch, ListingFresh
  <2>3. CASE g = effect
    <3>1. fetches'[effect].stage = "none"
      BY <1>0, <2>1, <2>3 DEF NoFetch
    <3>2. /\ fetches[g].stage \in {"answered", "failed"}
          /\ error' = (fetches[g].stage = "failed")
          /\ listing' = IF error' THEN listing ELSE fetches[g].view
      BY <1>5, <2>3 DEF AnswerList, Current
    <3>3. ~ error' => fetches[g].stage = "answered" /\ listing' = fetches[g].view
      BY <3>2
    <3> QED BY <2>1, <2>3, <3>1, <3>3 DEF CurrentFetch, ListingFresh
  <2> QED BY <2>2, <2>3
<1>6. (Reload \/ CloseCard \/ \E c \in calls : Claimed(c) \/ Revoked(c) \/ Registered(c))
         => effect + 1 \in Runs
  BY EffectRoom DEF Reload, CloseCard, Act
<1> QED
  BY <1>1, <1>2, <1>3, <1>4, <1>5, <1>6, QuietSteps, LoudSteps DEF Next

\* The administrator's actions are counted upwards.
LEMMA ActionsGrow ==
    ASSUME TypeOK, Next
    PROVE  actions' \in Nat /\ actions' >= actions
<1>1. actions \in Nat
  BY DEF TypeOK
<1>2. Reload \/ OpenCard \/ CloseCard \/ Confirm \/ (\E e : Select(e))
         => actions' = actions + 1
  BY DEF Reload, OpenCard, CloseCard, Confirm, Select, Act
<1>3. (\E g \in Runs : ServeList(g) \/ AnswerList(g)) \/ (\E q \in asks : AnswerAsk(q))
         => actions' = actions
  BY QuietSteps
<1>4. ASSUME NEW c \in calls, Serve(c) \/ Failed(c) \/ Validated(c) \/ Claimed(c)
                                 \/ Reissued(c) \/ Revoked(c) \/ Registered(c)
      PROVE  actions' = actions
  BY <1>4, QuietSteps, LoudSteps
<1> QED BY <1>1, <1>2, <1>3, <1>4 DEF Next

\* The panel shows the device that is selected.
LEMMA PanelKept ==
    ASSUME TypeOK, SelectedAsk, PanelMatches, Next
    PROVE  /\ SelectedAsk'
           /\ panel' \in Devices => panel' = selected'.dev
<1>0. /\ actions \in Nat /\ actions' \in Nat /\ actions' >= actions
      /\ selected \in [dev : Devices \cup {None}, run : Runs]
      /\ asks \subseteq [run : Runs, dev : Devices]
  BY ActionsGrow DEF TypeOK
<1>1. ASSUME NEW e \in Devices \cup {None}, Select(e)
      PROVE  /\ SelectedAsk'
             /\ panel' \in Devices => panel' = selected'.dev
  <2>1. /\ actions' = actions + 1 /\ selected' = [dev |-> e, run |-> actions']
        /\ panel' \in {"none", "loading"}
        /\ asks' = asks \/ (asks' = asks \cup {[run |-> actions', dev |-> e]})
    BY <1>1 DEF Select, Act
  <2>2. \A q \in asks : q.run \in Nat /\ q.run < actions'
    BY <1>0, <2>1 DEF SelectedAsk, Runs
  <2>3. \A q \in asks' : q.run <= actions' /\ (q.run = actions' => q.dev = e)
    BY <1>0, <2>1, <2>2
  <2>4. SelectedAsk'
    BY <1>0, <2>1, <2>3 DEF SelectedAsk
  <2> QED BY <2>1, <2>4, DevicesPageAssumption
<1>2. ASSUME NEW q \in asks, AnswerAsk(q)
      PROVE  /\ SelectedAsk'
             /\ panel' \in Devices => panel' = selected'.dev
  <2>1. UNCHANGED <<selected, actions>> /\ asks' = asks \ {q}
    BY <1>2 DEF AnswerAsk
  <2>2. panel' = panel \/ panel' \in {"none", "error"}
        \/ (panel' = q.dev /\ q.run = selected.run)
    BY <1>2 DEF AnswerAsk, Wanted
  <2>3. panel' \in Devices => panel' = selected.dev
    BY <2>2, DevicesPageAssumption DEF SelectedAsk, PanelMatches
  <2> QED BY <2>1, <2>3 DEF SelectedAsk
<1>3. ASSUME UNCHANGED context
      PROVE  /\ SelectedAsk'
             /\ panel' \in Devices => panel' = selected'.dev
  <2>1. \A q \in asks : q.run \in Nat
    BY <1>0 DEF Runs
  <2>2. selected.run \in Nat
    BY <1>0 DEF Runs
  <2> QED BY <1>0, <1>3, <2>1, <2>2 DEF SelectedAsk, PanelMatches, context
<1>4. CASE Reload \/ OpenCard \/ CloseCard \/ Confirm
  BY <1>3, <1>4, QuietSteps, LoudSteps
<1>5. ASSUME NEW g \in Runs, ServeList(g) \/ AnswerList(g) PROVE UNCHANGED context
  BY <1>5, QuietSteps
<1>6. ASSUME NEW c \in calls, Serve(c) \/ Failed(c) \/ Validated(c) \/ Claimed(c)
                                 \/ Reissued(c) \/ Revoked(c) \/ Registered(c)
      PROVE  UNCHANGED context
  BY <1>6, QuietSteps, LoudSteps
<1> QED BY <1>1, <1>2, <1>3, <1>4, <1>5, <1>6 DEF Next

\* What is served is still one call; what is answered is one call less, and
\* a run of the effect at most.
LEMMA RunsOwedKept ==
    ASSUME TypeOK, RunsOwed, Next
    PROVE  RunsOwed'
<1>0. /\ IsFiniteSet(calls) /\ Cardinality(calls) \in Nat
      /\ effect \in Nat /\ actions \in Nat
      /\ effect + Cardinality(calls) <= actions
  BY FS_CardinalityType DEF TypeOK, Runs, RunsOwed
<1>1. \A c \in calls : /\ IsFiniteSet(calls \ {c})
                       /\ Cardinality(calls \ {c}) = Cardinality(calls) - 1
  BY <1>0, FS_RemoveElement
<1>2. \A b : /\ IsFiniteSet(calls \cup {b})
             /\ Cardinality(calls \cup {b}) \in Nat
             /\ Cardinality(calls \cup {b}) <= Cardinality(calls) + 1
  BY <1>0, FS_AddElement
<1>3. ASSUME NEW c \in calls, NEW b
      PROVE  /\ IsFiniteSet((calls \ {c}) \cup {b})
             /\ Cardinality((calls \ {c}) \cup {b}) \in Nat
             /\ Cardinality((calls \ {c}) \cup {b}) <= Cardinality(calls)
  <2>1. /\ Cardinality((calls \ {c}) \cup {b}) = Cardinality(calls \ {c})
           \/ Cardinality((calls \ {c}) \cup {b}) = Cardinality(calls \ {c}) + 1
        /\ IsFiniteSet((calls \ {c}) \cup {b})
    BY <1>1, FS_AddElement
  <2>2. Cardinality((calls \ {c}) \cup {b}) \in Nat
    BY <2>1, FS_CardinalityType
  <2> QED BY <1>0, <1>1, <2>1, <2>2
<1>4. CASE Reload \/ OpenCard \/ CloseCard
  <2>1. calls' = calls /\ actions' = actions + 1
        /\ (effect' = effect \/ effect' = effect + 1)
    BY <1>4 DEF Reload, OpenCard, CloseCard, Refresh, Effect, Act, list
  <2> QED BY <1>0, <2>1 DEF RunsOwed
<1>5. CASE Confirm
  <2>1. PICK b : calls' = calls \cup {b}
    BY <1>5 DEF Confirm, Send
  <2>2. actions' = actions + 1 /\ effect' = effect
    BY <1>5 DEF Confirm, Act, list
  <2>3. IsFiniteSet(calls') /\ Cardinality(calls') \in Nat
        /\ Cardinality(calls') <= Cardinality(calls) + 1
    BY <1>2, <2>1
  <2> QED BY <1>0, <2>2, <2>3 DEF RunsOwed
<1>6. ASSUME NEW c \in calls, Serve(c) \/ Validated(c) PROVE RunsOwed'
  <2>1. PICK b : calls' = (calls \ {c}) \cup {b}
    BY <1>6 DEF Serve, Validated
  <2>2. actions' = actions /\ effect' = effect
    BY <1>6 DEF Serve, Validated, list
  <2>3. IsFiniteSet(calls') /\ Cardinality(calls') \in Nat
        /\ Cardinality(calls') <= Cardinality(calls)
    BY <1>3, <2>1
  <2> QED BY <1>0, <2>2, <2>3 DEF RunsOwed
<1>7. ASSUME NEW c \in calls,
             Failed(c) \/ Reissued(c) \/ Claimed(c) \/ Revoked(c) \/ Registered(c)
      PROVE  RunsOwed'
  <2>1. calls' = calls \ {c} /\ actions' = actions
        /\ (effect' = effect \/ effect' = effect + 1)
    BY <1>7 DEF Failed, Reissued, Claimed, Revoked, Registered, Refresh, Effect, list
  <2> QED BY <1>0, <1>1, <2>1 DEF RunsOwed
<1>8. ASSUME NEW e, Select(e) PROVE RunsOwed'
  <2>1. calls' = calls /\ effect' = effect /\ actions' = actions + 1
    BY <1>8 DEF Select, Act, list
  <2> QED BY <1>0, <2>1 DEF RunsOwed
<1>9. ASSUME UNCHANGED <<calls, effect, actions>> PROVE RunsOwed'
  BY <1>9 DEF RunsOwed
<1>10. ASSUME NEW g \in Runs, ServeList(g) \/ AnswerList(g) PROVE RunsOwed'
  BY <1>9, <1>10, QuietSteps
<1>11. ASSUME NEW q \in asks, AnswerAsk(q) PROVE RunsOwed'
  BY <1>9, <1>11, QuietSteps DEF list
<1> QED BY <1>4, <1>5, <1>6, <1>7, <1>8, <1>10, <1>11 DEF Next

\* Being reached, or busy, leaves a card open for the same device, and a closed
\* one closed.
LEMMA ReachedCard ==
    ASSUME NEW card \in Card, NEW c, NEW d \in Devices \cup {None}
    PROVE  /\ Reached(card, c, d).mount = card.mount
           /\ Reached(card, c, d).dev = card.dev
           /\ c.mount # card.mount => Reached(card, c, d) = card
           /\ c.mount = card.mount => Reached(card, c, d).shown = d
BY DEF Reached, Card

LEMMA BusyCard ==
    ASSUME NEW card \in Card
    PROVE  /\ Busy(card).mount = card.mount /\ Busy(card).dev = card.dev
           /\ Busy(card).busy = TRUE /\ Busy(card).shown = None
BY DEF Busy, Card

\* A card opens for a device, under the number of the action that opened it.
LEMMA OpenedCard ==
    ASSUME NEW card \in Card, NEW d \in Devices \cup {None}
    PROVE  /\ Opened(card, d).dev = d
           /\ Opened(card, d).mount = IF card.mount = 0 THEN actions' ELSE card.mount
           /\ Opened(card, d).shown = card.shown
BY DEF Opened, Card

LEMMA ClosedCard ==
    Closed \in Card /\ Closed.mount = 0 /\ Closed.dev = None /\ Closed.shown = None
BY DevicesPageAssumption DEF Closed, Card, Runs

\* Cards and calls are numbered by the actions that opened them.
LEMMA OpenCardsKept ==
    ASSUME TypeOK, OpenCards, Next
    PROVE  OpenCards'
<1>0. /\ actions \in Nat /\ actions' \in Nat /\ actions' >= actions
      /\ revoke \in Card /\ reissue \in Card /\ wizard \in Card /\ factory \in Card
      /\ calls \subseteq Call
      /\ \A card \in Card : card.mount \in Nat
      /\ \A c \in calls : c.mount \in Nat /\ c.dev \in Devices
  <2>1. calls \subseteq Call
    BY DEF TypeOK
  <2> QED BY <2>1, ActionsGrow DEF TypeOK, Call, Card, Runs
<1> DEFINE Open(card) == card.mount <= actions' /\ (card # Closed => card.mount # 0)
           OpenFor(card) == Open(card) /\ (card # Closed => card.dev \in Devices)
           Cards == OpenFor(revoke') /\ OpenFor(reissue') /\ Open(wizard')
                    /\ Open(factory')
           Calls == \A c \in calls' : c.mount # 0 /\ c.mount <= actions'
<1>1. Cards /\ Calls => OpenCards'
  BY DEF OpenCards
<1>2. OpenFor(revoke) /\ OpenFor(reissue) /\ Open(wizard) /\ Open(factory)
  BY <1>0 DEF OpenCards
<1>3. \A c \in calls : c.mount # 0 /\ c.mount <= actions'
  BY <1>0 DEF OpenCards
<1>4. OpenFor(Closed)
  BY <1>0, ClosedCard
<1>5. UNCHANGED cards => Cards
  BY <1>2 DEF cards
<1>6. calls' \subseteq calls => Calls
  BY <1>3
<1>7. ASSUME NEW card \in Card, Open(card), NEW c \in calls, NEW d \in Devices \cup {None}
      PROVE  /\ Open(Reached(card, c, d))
             /\ OpenFor(card) => OpenFor(Reached(card, c, d))
  <2>1. CASE card = Closed
    <3>1. Reached(Closed, c, d) = Closed
      BY <1>3, ClosedCard, ReachedCard
    <3> QED BY <1>4, <2>1, <3>1
  <2>2. CASE card # Closed
    <3>1. Reached(card, c, d).mount = card.mount /\ Reached(card, c, d).dev = card.dev
      BY ReachedCard
    <3> QED BY <1>7, <2>2, <3>1
  <2> QED BY <2>1, <2>2
<1> HIDE DEF Cards, Calls
<1>8. CASE Reload
  BY <1>1, <1>5, <1>6, <1>8, LoudSteps
<1>9. CASE OpenCard
  <2>1. actions' > 0
    BY <1>0, <1>9 DEF OpenCard, Act
  <2>2. ASSUME NEW card \in Card, Open(card), NEW d \in Devices \cup {None}
        PROVE  Open(Opened(card, d)) /\ (d \in Devices => OpenFor(Opened(card, d)))
    <3>1. /\ Opened(card, d).dev = d
          /\ Opened(card, d).mount = IF card.mount = 0 THEN actions' ELSE card.mount
      BY OpenedCard
    <3> QED BY <1>0, <2>1, <2>2, <3>1
  <2>3. Cards
    BY <1>0, <1>2, <1>9, <2>2 DEF OpenCard, Cards
  <2> QED BY <1>1, <1>6, <1>9, <2>3, QuietSteps
<1>10. CASE CloseCard
  <2>1. Cards
    BY <1>2, <1>4, <1>10 DEF CloseCard, Cards
  <2> QED BY <1>1, <1>6, <1>10, <2>1, LoudSteps
<1>11. CASE Confirm
  <2>1. ASSUME NEW card \in Card, Open(card), Ready(card)
        PROVE  /\ Open(Busy(card)) /\ card.mount # 0 /\ card.mount <= actions'
               /\ OpenFor(card) => OpenFor(Busy(card))
               /\ \A d \in Devices : \A b : b = [Busy(card) EXCEPT !.dev = d] => Open(b)
    <3>1. card.mount # 0 /\ card.mount <= actions'
          /\ (OpenFor(card) => card.dev \in Devices)
      BY <2>1 DEF Ready
    <3>2. Open(Busy(card)) /\ (OpenFor(card) => OpenFor(Busy(card)))
      BY <3>1, BusyCard
    <3>3. ASSUME NEW d \in Devices, NEW b, b = [Busy(card) EXCEPT !.dev = d]
          PROVE  Open(b)
      <4>1. b.mount = card.mount
        BY <3>3 DEF Busy, Card
      <4> QED BY <3>1, <4>1
    <3> QED BY <3>1, <3>2, <3>3
  <2>2. Cards
    <3> HIDE DEF Open
    <3> QED BY <1>0, <1>2, <1>11, <2>1 DEF Confirm, Cards
  <2>3. ASSUME NEW card \in Card, Open(card), Ready(card), NEW kind, NEW d,
               Send(kind, d, card)
        PROVE  Calls
    <3>1. card.mount # 0 /\ card.mount <= actions'
      BY <2>1, <2>3
    <3> QED BY <1>3, <2>3, <3>1 DEF Calls, Send
  <2>4. /\ Open(revoke) /\ Open(reissue) /\ Open(wizard) /\ Open(factory)
    BY <1>2
  <2> HIDE DEF Open
  <2>5. Calls
    BY <1>0, <1>11, <2>3, <2>4 DEF Confirm
  <2> QED BY <1>1, <2>2, <2>5
<1>12. ASSUME NEW c \in calls, Serve(c) \/ Validated(c) PROVE OpenCards'
  <2>1. PICK b : b.mount = c.mount /\ calls' = (calls \ {c}) \cup {b}
    <3>1. /\ \A a : [c EXCEPT !.answer = a].mount = c.mount
          /\ [c EXCEPT !.kind = "claim", !.answer = "none"].mount = c.mount
      BY <1>0 DEF Call
    <3>2. CASE Serve(c)
      BY <3>1, <3>2 DEF Serve
    <3>3. CASE Validated(c)
      BY <3>1, <3>3 DEF Validated
    <3> QED BY <1>12, <3>2, <3>3
  <2>2. Calls
    BY <1>3, <2>1 DEF Calls
  <2>3. UNCHANGED cards
    BY <1>12 DEF Serve, Validated
  <2> QED BY <1>1, <1>5, <2>2, <2>3
<1>13. ASSUME NEW c \in calls,
              Failed(c) \/ Reissued(c) \/ Claimed(c) \/ Revoked(c) \/ Registered(c)
       PROVE  OpenCards'
  <2>1. calls' = calls \ {c}
    BY <1>13 DEF Failed, Reissued, Claimed, Revoked, Registered
  <2>2. ASSUME NEW d \in Devices \cup {None}
        PROVE  /\ OpenFor(Reached(revoke, c, d)) /\ OpenFor(Reached(reissue, c, d))
               /\ Open(Reached(wizard, c, d)) /\ Open(Reached(factory, c, d))
    BY <1>0, <1>2, <1>7
  <2>3. Cards
    <3>1. c.dev \in Devices
      BY <1>0
    <3> HIDE DEF Open, OpenFor
    <3> QED
      BY <1>2, <1>4, <1>13, <2>2, <3>1 DEF Failed, Reissued, Claimed, Revoked,
         Registered, Cards
  <2> QED BY <1>1, <1>6, <2>1, <2>3
<1>14. ASSUME UNCHANGED <<cards, calls>> PROVE OpenCards'
  BY <1>1, <1>5, <1>6, <1>14
<1>15. ASSUME NEW g \in Runs, ServeList(g) \/ AnswerList(g) PROVE OpenCards'
  BY <1>14, <1>15, QuietSteps
<1>16. ASSUME (\E e : Select(e)) \/ (\E q \in asks : AnswerAsk(q)) PROVE OpenCards'
  BY <1>14, <1>16, QuietSteps
<1> QED
  BY <1>8, <1>9, <1>10, <1>11, <1>12, <1>13, <1>15, <1>16 DEF Next

\* The factory card shows the code of the device that was submitted last.
LEMMA FactoryCardKept ==
    ASSUME TypeOK, OpenCards, FactoryCall, PanelMatches, Next
    PROVE  /\ FactoryCall'
           /\ factory'.shown # None => factory'.shown = factory'.dev
<1>0. /\ actions \in Nat /\ factory \in Card /\ calls \subseteq Call
      /\ factory.shown # None => factory.shown = factory.dev
      /\ \A c \in calls : /\ c \in Call /\ c.dev \in Devices
                          /\ c.mount \in Nat /\ c.mount # 0 /\ c.mount <= actions
  <2>1. calls \subseteq Call
    BY DEF TypeOK
  <2> QED BY <2>1 DEF TypeOK, OpenCards, PanelMatches, Call, Runs
<1> DEFINE Goal == /\ FactoryCall'
                   /\ factory'.shown # None => factory'.shown = factory'.dev
           Mine(c) == c.kind = "register" /\ c.mount = factory.mount
<1>1. ASSUME factory' = factory, \A b \in calls' : Mine(b) => b \in calls
      PROVE  Goal
  BY <1>0, <1>1 DEF FactoryCall
<1>2. ASSUME calls' \subseteq calls, factory'.shown = None,
             \A c \in calls : c.mount # factory'.mount
      PROVE  Goal
  BY <1>2 DEF FactoryCall
<1> SUFFICES Goal
  OBVIOUS
<1> HIDE DEF Goal
<1>3. CASE Reload
  BY <1>1, <1>3, LoudSteps DEF cards
<1>4. CASE OpenCard
  <2>1. calls' = calls /\ actions' = actions + 1
    BY <1>4, QuietSteps DEF OpenCard, Act
  <2>2. CASE factory' = factory
    BY <1>1, <2>1, <2>2
  <2>3. CASE factory = Closed /\ factory' = Opened(factory, None)
    <3>1. factory'.mount = actions' /\ factory'.shown = None
      BY <1>0, <2>3, ClosedCard, OpenedCard
    <3>2. \A c \in calls : c.mount # factory'.mount
      BY <1>0, <2>1, <3>1
    <3> QED BY <1>2, <2>1, <3>1, <3>2
  <2> QED BY <1>4, <2>2, <2>3 DEF OpenCard
<1>5. CASE CloseCard
  <2>1. calls' = calls
    BY <1>5, LoudSteps
  <2>2. CASE factory' = factory
    BY <1>1, <2>1, <2>2
  <2>3. CASE factory' = Closed
    BY <1>0, <1>2, <2>1, <2>3, ClosedCard
  <2> QED BY <1>5, <2>2, <2>3 DEF CloseCard
<1>6. CASE Confirm
  <2>1. CASE factory' = factory
               /\ \E kind, d, card : kind # "register" /\ Send(kind, d, card)
    <3>1. \A b \in calls' : b.kind = "register" => b \in calls
      BY <2>1 DEF Send
    <3> QED BY <1>1, <2>1, <3>1
  <2>2. ASSUME Ready(factory), NEW d \in Devices,
               factory' = [Busy(factory) EXCEPT !.dev = d],
               Send("register", d, factory)
        PROVE  Goal
    <3>1. /\ factory'.mount = factory.mount /\ factory'.busy = TRUE
          /\ factory'.shown = None /\ factory'.dev = d
      BY <1>0, <2>2 DEF Busy, Card
    <3>2. \A c \in calls : ~ Mine(c)
      BY <2>2 DEF Ready, FactoryCall
    <3> DEFINE sent == [kind |-> "register", dev |-> d, mount |-> factory.mount,
                        answer |-> "none"]
    <3>3. calls' = calls \cup {sent} /\ sent.dev = d
      BY <2>2 DEF Send
    <3>4. \A b \in calls' : Mine(b) => b = sent
      BY <3>2, <3>3
    <3> HIDE DEF sent
    <3>5. FactoryCall'
      BY <3>1, <3>3, <3>4 DEF FactoryCall
    <3> QED BY <3>1, <3>5 DEF Goal
  <2> QED BY <1>6, <2>1, <2>2 DEF Confirm
<1>7. ASSUME NEW c \in calls, Serve(c) PROVE Goal
  <2>1. PICK answer \in {"ok", "error"} :
           calls' = (calls \ {c}) \cup {[c EXCEPT !.answer = answer]}
    BY <1>7 DEF Serve
  <2> DEFINE served == [c EXCEPT !.answer = answer]
  <2>2. served.kind = c.kind /\ served.dev = c.dev /\ served.mount = c.mount
    BY <1>0 DEF Call
  <2>3. factory' = factory /\ calls' = (calls \ {c}) \cup {served}
    BY <1>7, <2>1 DEF Serve, cards
  <2> HIDE DEF served
  <2>4. CASE Mine(c)
    <3>1. \A b \in calls' : Mine(b) => b = served
      BY <2>3, <2>4 DEF FactoryCall
    <3>2. factory.busy /\ factory.dev = served.dev
      BY <2>2, <2>4 DEF FactoryCall
    <3>3. FactoryCall'
      BY <2>3, <3>1, <3>2 DEF FactoryCall
    <3> QED BY <1>0, <2>3, <3>3 DEF Goal
  <2>5. CASE ~ Mine(c)
    BY <1>1, <2>2, <2>3, <2>5
  <2> QED BY <2>4, <2>5
<1>8. ASSUME NEW c \in calls, Validated(c) PROVE Goal
  <2>1. [c EXCEPT !.kind = "claim", !.answer = "none"].kind = "claim"
    BY <1>0 DEF Call
  <2> QED BY <1>1, <1>8, <2>1 DEF Validated, cards
<1>9. ASSUME NEW c \in calls, NEW shown \in {c.dev, None}, c.kind = "register",
             factory' = Reached(factory, c, shown), calls' = calls \ {c}
      PROVE  Goal
  <2>1. CASE c.mount # factory.mount
    <3>1. factory' = factory
      BY <1>0, <1>9, <2>1, ReachedCard
    <3> QED BY <1>1, <1>9, <3>1
  <2>2. CASE c.mount = factory.mount
    <3>1. /\ factory'.mount = factory.mount /\ factory'.dev = factory.dev
          /\ factory'.shown = shown
      BY <1>0, <1>9, <2>2, ReachedCard
    <3>2. factory.dev = c.dev /\ \A b \in calls' : ~ Mine(b)
      BY <1>9, <2>2 DEF FactoryCall
    <3>3. FactoryCall'
      BY <3>1, <3>2 DEF FactoryCall
    <3> QED BY <1>9, <3>1, <3>2, <3>3 DEF Goal
  <2> QED BY <2>1, <2>2
<1>10. ASSUME NEW c \in calls,
              Failed(c) \/ Reissued(c) \/ Claimed(c) \/ Revoked(c) \/ Registered(c)
       PROVE  Goal
  <2>1. calls' = calls \ {c}
    BY <1>10 DEF Failed, Reissued, Claimed, Revoked, Registered
  <2>2. factory' = factory
        \/ (c.kind = "register" /\ \E shown \in {c.dev, None} :
                                       factory' = Reached(factory, c, shown))
    BY <1>10 DEF Failed, Reissued, Claimed, Revoked, Registered
  <2> QED BY <1>1, <1>9, <2>1, <2>2
<1>11. ASSUME UNCHANGED <<cards, calls>> PROVE Goal
  BY <1>1, <1>11 DEF cards
<1>12. ASSUME NEW g \in Runs, ServeList(g) \/ AnswerList(g) PROVE Goal
  BY <1>11, <1>12, QuietSteps
<1>13. ASSUME (\E e : Select(e)) \/ (\E q \in asks : AnswerAsk(q)) PROVE Goal
  BY <1>11, <1>13, QuietSteps
<1> QED BY <1>3, <1>4, <1>5, <1>6, <1>7, <1>8, <1>10, <1>12, <1>13 DEF Next

-----------------------------------------------------------------------------
\* The page before the first answer.
LEMMA InitInv == Init => PageInv
<1> SUFFICES ASSUME Init PROVE PageInv
  OBVIOUS
<1>0. 0 \in Runs /\ MaxActions \in Nat
  BY DevicesPageAssumption DEF Runs
<1>1. /\ Blank \in View /\ Sent(FALSE) \in Fetch /\ NoFetch \in Fetch
      /\ Sent(FALSE).stage = "sent" /\ Sent(FALSE).all = FALSE
  BY DEF Blank, View, States, Sent, NoFetch, Fetch
<1>2. /\ fetches \in [Runs -> Fetch] /\ fetches[effect] = Sent(FALSE)
      /\ known \in [Devices -> States]
  BY <1>0, <1>1 DEF Init, States
<1>3. loading \in BOOLEAN /\ (loading <=> fetches[effect].stage # "none")
  BY <1>1, <1>2 DEF Init
<1>4. TypeOK
  <2>1. scope \in BOOLEAN /\ error \in BOOLEAN
    BY DEF Init
  <2>2. /\ effect \in Runs
        /\ actions \in 0 .. MaxActions
        /\ selected \in [dev : Devices \cup {None}, run : Runs]
    BY <1>0 DEF Init
  <2>3. {revoke, reissue, wizard, factory} \subseteq Card
    BY ClosedCard DEF Init
  <2> QED BY <1>1, <1>2, <1>3, <2>1, <2>2, <2>3 DEF Init, TypeOK
<1>5. AnswersTrue
  BY RankValues DEF Init, AnswersTrue
<1>6. CurrentFetch /\ ListingFresh
  BY <1>1, <1>2 DEF Init, CurrentFetch, ListingFresh
<1>7. SelectedAsk /\ OpenCards /\ FactoryCall /\ PanelMatches
  BY ClosedCard, DevicesPageAssumption DEF Init, SelectedAsk, OpenCards, FactoryCall,
     PanelMatches
<1>8. RunsOwed
  BY FS_EmptySet DEF Init, RunsOwed
<1> QED BY <1>4, <1>5, <1>6, <1>7, <1>8 DEF PageInv

\* The inductive invariant of the page, for any number of devices and actions
\* and any order of the answers.
THEOREM PageInvHolds == Spec => []PageInv
<1>1. ASSUME PageInv, Next PROVE PageInv'
  <2> USE DEF PageInv
  <2>1. TypeOK'
    <3>1. ASSUME NEW g \in Runs, ServeList(g) \/ AnswerList(g) PROVE TypeOK'
      BY <1>1, <3>1, ListTypes
    <3>2. ASSUME NEW c \in calls, Serve(c) \/ Failed(c) \/ Validated(c) \/ Claimed(c)
                                    \/ Reissued(c) \/ Revoked(c) \/ Registered(c)
          PROVE  TypeOK'
      BY <1>1, <3>2, CallsTypes
    <3>3. CASE Reload \/ OpenCard \/ CloseCard \/ Confirm
      BY <1>1, <3>3, ActTypes
    <3>4. CASE (\E e \in Devices \cup {None} : Select(e)) \/ \E q \in asks : AnswerAsk(q)
      BY <1>1, <3>4, ContextTypes
    <3> QED BY <1>1, <3>1, <3>2, <3>3, <3>4 DEF Next
  <2>2. AnswersTrue' /\ CurrentFetch' /\ ListingFresh' /\ RunsOwed' /\ OpenCards'
    BY <1>1, AnswersTrueKept, ListingKept, RunsOwedKept, OpenCardsKept
  <2>3. /\ SelectedAsk' /\ FactoryCall'
        /\ panel' \in Devices => panel' = selected'.dev
        /\ factory'.shown # None => factory'.shown = factory'.dev
    BY <1>1, PanelKept, FactoryCardKept
  <2> QED BY <2>1, <2>2, <2>3 DEF PanelMatches
<1>2. ASSUME PageInv, UNCHANGED vars PROVE PageInv'
  <2>1. UNCHANGED <<state, fetches, effect, scope, listing, loading, error, revoke,
                    reissue, wizard, factory, calls, selected, panel, asks, known,
                    actions>>
    BY <1>2 DEF vars, list, cards, context
  <2> QED
    BY <1>2, <2>1 DEF PageInv, TypeOK, AnswersTrue, CurrentFetch, SelectedAsk,
       OpenCards, FactoryCall, RunsOwed, ListingFresh, PanelMatches
<1> QED BY InitInv, <1>1, <1>2, PTL DEF Spec

\* The administrator never looks at a listing that is older than what the page
\* has already told, nor at one of the other scope.
THEOREM ListingFreshHolds == Spec => []ListingFresh
<1>1. PageInv => ListingFresh
  BY DEF PageInv
<1> QED BY PageInvHolds, <1>1, PTL

\* The panel and the factory card are about the device they name, however the
\* answers overtake one another.
THEOREM PanelMatchesHolds == Spec => []PanelMatches
<1>1. PageInv => PanelMatches
  BY DEF PageInv
<1> QED BY PageInvHolds, <1>1, PTL
=============================================================================
