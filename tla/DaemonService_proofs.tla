------------------------- MODULE DaemonService_proofs -------------------------
(***************************************************************************)
(* Inductive invariants of parts of the daemon: what it judges by windows  *)
(* and rules, what it writes to and reads from a client, the life of its   *)
(* processes, and its settings.  DaemonParts_proofs draws the theorems.    *)
(***************************************************************************)
EXTENDS WindowRules, ClientOutbox, ClientInbox, DaemonProcess, ConfigStore,
        FiniteSetTheorems, SequenceTheorems, TLAPS

-----------------------------------------------------------------------------
(* Windows and rules: how a report judges the displays.                   *)

Playbacks == 0 .. 4
Judgements == {v \in [flags : SUBSET Flags, action : 0 .. 3] : v.action = Rank(v.flags)}

\* One report at most is kept, and without one nothing is judged.
RulesInv ==
  /\ rulebook \in RuleBooks /\ outs \in Seq(Watched)
  /\ keyOf \in [Watched -> DisplayKeys] /\ indexOf \in [Watched -> 0 .. 1]
  /\ verdict \in [Watched -> Judgements]
  /\ \A r, s \in cached : r = s
  /\ cached = {} => \A o \in Watched : verdict[o] = Unjudged
  /\ VerdictsAreCurrent

LEMMA GreatestIsMax ==
  ASSUME NEW S \in SUBSET Int, NEW m \in S, \A n \in S : n <= m
  PROVE  Max(S) = m
<1>1. m \in S /\ \A n \in S : m >= n
  OBVIOUS
<1>2. Max(S) \in S /\ \A n \in S : Max(S) >= n
  BY <1>1 DEF Max
<1>3. m >= Max(S) /\ Max(S) >= m /\ m \in Int /\ Max(S) \in Int
  BY <1>1, <1>2
<1> QED BY <1>3

\* Of the actions that apply, the rank is that of the flags they set.
LEMMA VerdictRanks ==
  ASSUME NEW acts \in SUBSET Playbacks
  PROVE  VerdictOf(acts) \in Judgements
<1> DEFINE flags == {Flag(a) : a \in acts \ {0}}
           ranks == {0} \cup {AutoAction(a) : a \in acts}
<1>1. flags \in SUBSET Flags
  BY DEF Flag, Flags, Playbacks
<1>2. ranks \in SUBSET (0 .. 3) /\ 0 \in ranks
  BY DEF AutoAction, Playbacks
<1>3. /\ "stop" \in flags <=> 4 \in acts
      /\ "all" \in flags <=> 3 \in acts
      /\ "one" \in flags <=> 2 \in acts
      /\ "mute" \in flags <=> 1 \in acts
  BY DEF Flag, Playbacks
<1>4. /\ 3 \in ranks <=> 4 \in acts
      /\ 2 \in ranks <=> 2 \in acts \/ 3 \in acts
      /\ 1 \in ranks <=> 1 \in acts
  BY DEF AutoAction, Playbacks
<1>5. Rank(flags) \in ranks /\ \A n \in ranks : n <= Rank(flags)
  <2>1. Rank(flags) = IF 4 \in acts THEN 3 ELSE IF 2 \in acts \/ 3 \in acts THEN 2
                      ELSE IF 1 \in acts THEN 1 ELSE 0
    <3>1. flags \cap {"one", "all"} # {} <=> ("one" \in flags \/ "all" \in flags)
      OBVIOUS
    <3> QED BY <1>3, <3>1 DEF Rank
  <2> HIDE DEF ranks, flags
  <2> QED BY <1>2, <1>4, <2>1
<1>6. Max(ranks) = Rank(flags)
  <2>1. ranks \in SUBSET Int
    BY <1>2
  <2> HIDE DEF ranks, flags
  <2> QED BY <1>5, <2>1, GreatestIsMax
<1>7. VerdictOf(acts) = [flags |-> flags, action |-> Rank(flags)]
  BY <1>6 DEF VerdictOf
<1>8. Rank(flags) \in 0 .. 3
  BY <1>2, <1>5
<1> HIDE DEF flags, ranks
<1> QED BY <1>1, <1>7, <1>8 DEF Judgements

LEMMA UnjudgedIsJudgement == Unjudged \in Judgements
BY DEF Unjudged, Judgements, Rank

LEMMA ActionsArePlaybacks ==
  rulebook \in RuleBooks => \A report, o : Actions(report, o) \in SUBSET Playbacks
<1> SUFFICES ASSUME rulebook \in RuleBooks, NEW report, NEW o
             PROVE  Actions(report, o) \in SUBSET Playbacks
  OBVIOUS
<1>1. ASSUME NEW kind \in {"focus", "cover", "audio", "battery"}, NEW k
      PROVE  Own(kind, k) \subseteq Playbacks
  BY <1>1, RulesAssumption DEF Own, Playbacks
<1>2. {rule.playback : rule \in {r \in rulebook.rules : Applies(r, report, o)}} \subseteq Playbacks
  BY RulesAssumption DEF Playbacks
<1> QED BY <1>1, <1>2, Zenon DEF Actions

\* FirstWith, of any sequence of displays.
FirstIn(q, f, v, o) == \E i \in DOMAIN q : q[i] = o /\ f[o] = v /\ \A j \in 1 .. i - 1 : f[q[j]] # v

\* A display that comes last changes nothing of what is known of the others.
LEMMA FirstKept ==
  ASSUME NEW q \in Seq(Watched), NEW x \in Watched, \A i \in DOMAIN q : q[i] # x, NEW f, NEW g,
         \A o \in Watched \ {x} : g[o] = f[o], NEW o \in Watched \ {x}, NEW v
  PROVE  FirstIn(Append(q, x), g, v, o) <=> FirstIn(q, f, v, o)
<1> DEFINE p == Append(q, x)
<1>1. DOMAIN p = 1 .. Len(q) + 1 /\ p[Len(q) + 1] = x /\ DOMAIN q = 1 .. Len(q) /\ Len(q) \in Nat
  OBVIOUS
<1>2. \A i \in 1 .. Len(q) : p[i] = q[i] /\ q[i] \in Watched \ {x}
  OBVIOUS
<1>3. \A i \in 1 .. Len(q) : \A j \in 1 .. i - 1 : j \in 1 .. Len(q)
  BY <1>1
<1>4. ASSUME NEW i \in 1 .. Len(q)
      PROVE  (p[i] = o /\ g[o] = v /\ \A j \in 1 .. i - 1 : g[p[j]] # v)
               <=> (q[i] = o /\ f[o] = v /\ \A j \in 1 .. i - 1 : f[q[j]] # v)
  BY <1>2, <1>3
<1> HIDE DEF p
<1>5. FirstIn(p, g, v, o) <=> FirstIn(q, f, v, o)
  BY <1>1, <1>4 DEF FirstIn
<1> QED BY <1>5 DEF p

LEMMA ActionsKept ==
  ASSUME RulesInv, NEW x \in Watched \ OnScreen, NEW k \in DisplayKeys, NEW n \in 0 .. 1,
         outs' = Append(outs, x), keyOf' = [keyOf EXCEPT ![x] = k], indexOf' = [indexOf EXCEPT ![x] = n],
         rulebook' = rulebook, NEW report, NEW o \in OnScreen
  PROVE  Actions(report, o)' = Actions(report, o)
<1> USE DEF RulesInv
<1>1. o # x /\ o \in Watched
  BY DEF OnScreen
<1>2. /\ \A v : FirstWith(keyOf, v, o)' <=> FirstWith(keyOf, v, o)
      /\ \A v : FirstWith(indexOf, v, o)' <=> FirstWith(indexOf, v, o)
  <2>1. \A i \in DOMAIN outs : outs[i] # x
    BY DEF OnScreen
  <2>2. /\ \A p \in Watched \ {x} : keyOf'[p] = keyOf[p]
        /\ \A p \in Watched \ {x} : indexOf'[p] = indexOf[p]
    OBVIOUS
  <2>3. ASSUME NEW v
        PROVE  /\ FirstIn(Append(outs, x), keyOf', v, o) <=> FirstIn(outs, keyOf, v, o)
               /\ FirstIn(Append(outs, x), indexOf', v, o) <=> FirstIn(outs, indexOf, v, o)
    BY <1>1, <2>1, <2>2, FirstKept
  <2>4. ASSUME NEW v
        PROVE  /\ FirstWith(keyOf, v, o)' <=> FirstIn(outs', keyOf', v, o)
               /\ FirstWith(indexOf, v, o)' <=> FirstIn(outs', indexOf', v, o)
               /\ FirstWith(keyOf, v, o) <=> FirstIn(outs, keyOf, v, o)
               /\ FirstWith(indexOf, v, o) <=> FirstIn(outs, indexOf, v, o)
    BY Zenon DEF FirstWith, FirstIn
  <2> QED BY <2>3, <2>4
<1>3. keyOf'[o] = keyOf[o]
  BY <1>1
<1>4. ShownOn(report, o)' = ShownOn(report, o)
  <2>1. /\ FirstWith(keyOf, keyOf[o], o)' <=> FirstIn(outs', keyOf', keyOf'[o], o)
        /\ FirstWith(keyOf, keyOf[o], o) <=> FirstIn(outs, keyOf, keyOf[o], o)
    BY Zenon DEF FirstWith, FirstIn
  <2>2. \A v : FirstIn(outs', keyOf', v, o) <=> FirstIn(outs, keyOf, v, o)
    BY <1>2, Zenon DEF FirstWith, FirstIn
  <2>3. FirstWith(keyOf, keyOf[o], o)' <=> FirstWith(keyOf, keyOf[o], o)
    BY <1>3, <2>1, <2>2
  <2>4. (keyOf[o] \in DOMAIN report.displays \ {""})' <=> keyOf[o] \in DOMAIN report.displays \ {""}
    BY <1>3
  <2>5. CASE keyOf[o] \in DOMAIN report.displays \ {""} /\ FirstWith(keyOf, keyOf[o], o)
    <3>1. ShownOn(report, o) = report.displays[keyOf[o]]
      BY <2>5, Zenon DEF ShownOn
    <3>2. ShownOn(report, o)' = report.displays[keyOf'[o]]
      BY <2>3, <2>4, <2>5, Zenon DEF ShownOn
    <3> QED BY <1>3, <3>1, <3>2
  <2>6. CASE ~(keyOf[o] \in DOMAIN report.displays \ {""} /\ FirstWith(keyOf, keyOf[o], o))
    BY <2>3, <2>4, <2>6, Zenon DEF ShownOn
  <2> QED BY <2>5, <2>6
<1>5. ASSUME NEW w PROVE LiesOn(w, o)' <=> LiesOn(w, o)
  BY <1>2 DEF LiesOn
<1>6. ASSUME NEW rule PROVE Applies(rule, report, o)' <=> Applies(rule, report, o)
  BY <1>5 DEF Applies
<1>7. ASSUME NEW kind PROVE Own(kind, keyOf[o])' = Own(kind, keyOf[o])
  BY <1>3 DEF Own
<1> QED BY <1>3, <1>4, <1>6, <1>7 DEF Actions

\* All displays are judged anew.
LEMMA EvaluatesKeeps ==
  ASSUME RulesInv, NEW report, Evaluates(report), cached' = {report}, rulebook' \in RuleBooks,
         outs' \in Seq(Watched), keyOf' \in [Watched -> DisplayKeys], indexOf' \in [Watched -> 0 .. 1]
  PROVE  RulesInv'
<1>1. ASSUME NEW o PROVE VerdictOf(Actions(report, o)') \in Judgements
  <2>1. ASSUME NEW kind \in {"focus", "cover", "audio", "battery"}, NEW k
        PROVE  Own(kind, k)' \in SUBSET Playbacks
    BY RulesAssumption DEF Own, Playbacks
  <2>2. {rule.playback : rule \in {r \in rulebook.rules : Applies(r, report, o)}}' \subseteq Playbacks
    BY RulesAssumption DEF Playbacks
  <2>3. Actions(report, o)' \in SUBSET Playbacks
    BY <2>1, <2>2, Zenon DEF Actions
  <2> QED BY <2>3, VerdictRanks
<1>2. OnScreen' \in SUBSET Watched
  BY DEF OnScreen
<1>3. verdict' \in [Watched -> Judgements]
  BY <1>1, UnjudgedIsJudgement DEF Evaluates
<1>4. \A o \in OnScreen' : verdict'[o] = VerdictOf(Actions(report, o)')
  BY <1>2 DEF Evaluates
<1>5. VerdictsAreCurrent'
  BY <1>4 DEF VerdictsAreCurrent
<1> QED BY <1>3, <1>5 DEF RulesInv

LEMMA ReviewsKeeps ==
  ASSUME RulesInv, Reviews, cached' = cached, rulebook' \in RuleBooks, outs' \in Seq(Watched),
         keyOf' \in [Watched -> DisplayKeys], indexOf' \in [Watched -> 0 .. 1]
  PROVE  RulesInv'
<1>1. CASE cached = {}
  BY <1>1 DEF Reviews, RulesInv, VerdictsAreCurrent, OnScreen
<1>2. CASE cached # {}
  <2>1. PICK r \in cached : Evaluates(r)
    BY <1>2 DEF Reviews
  <2>2. cached' = {r}
    BY <2>1 DEF RulesInv
  <2> QED BY <2>1, <2>2, EvaluatesKeeps
<1> QED BY <1>1, <1>2

LEMMA RulesInvStep == RulesInv /\ [RulesNext]_rulesVars => RulesInv'
<1> SUFFICES ASSUME RulesInv, [RulesNext]_rulesVars PROVE RulesInv'
  OBVIOUS
<1> USE UnjudgedIsJudgement
<1>1. ASSUME NEW r \in WindowReports, WindowsChange(r) PROVE RulesInv'
  <2>1. CASE outs = << >>
    BY <1>1, <2>1 DEF WindowsChange, RulesInv, VerdictsAreCurrent, OnScreen
  <2>2. CASE outs # << >>
    <3>1. cached' = {r} /\ Evaluates(r) /\ UNCHANGED << rulebook, outs, keyOf, indexOf >>
      BY <1>1, <2>2 DEF WindowsChange
    <3>2. /\ rulebook' \in RuleBooks /\ outs' \in Seq(Watched)
          /\ keyOf' \in [Watched -> DisplayKeys] /\ indexOf' \in [Watched -> 0 .. 1]
      BY <3>1 DEF RulesInv
    <3> QED BY <3>1, <3>2, EvaluatesKeeps
  <2> QED BY <2>1, <2>2
<1>2. ASSUME NEW o \in Watched, NEW k \in DisplayKeys, NEW i \in 0 .. 1, NEW active \in BOOLEAN,
             OutRegisters(o, k, i, active)
      PROVE  RulesInv'
  <2>1. /\ rulebook' \in RuleBooks /\ outs' \in Seq(Watched) /\ cached' = cached
        /\ keyOf' \in [Watched -> DisplayKeys] /\ indexOf' \in [Watched -> 0 .. 1]
    BY <1>2 DEF OutRegisters, RulesInv
  <2>2. CASE active
    BY <1>2, <2>1, <2>2, ReviewsKeeps DEF OutRegisters
  <2>3. CASE ~active
    <3>1. /\ verdict' = verdict /\ overlooked' = (IF cached = {} THEN overlooked ELSE overlooked \cup {o})
          /\ o \in Watched \ OnScreen
      BY <1>2, <2>3 DEF OutRegisters
    <3>2. OnScreen' \subseteq OnScreen \cup {o}
      <4>1. outs' = Append(outs, o) /\ outs \in Seq(Watched)
        BY <1>2 DEF OutRegisters, RulesInv
      <4>2. \A j \in DOMAIN outs' : outs'[j] \in OnScreen \cup {o}
        BY <4>1 DEF OnScreen
      <4> QED BY <4>2 DEF OnScreen
    <3>3. ASSUME NEW p \in OnScreen, NEW r PROVE Actions(r, p)' = Actions(r, p)
      BY <1>2, <3>1, ActionsKept DEF OutRegisters
    <3>4. ASSUME NEW p \in OnScreen' \ overlooked', NEW r \in cached, p \in OnScreen
          PROVE  verdict'[p] = VerdictOf(Actions(r, p))'
      <4>1. p \in OnScreen \ overlooked
        BY <3>1, <3>4
      <4>2. verdict[p] = VerdictOf(Actions(r, p))
        BY <3>4, <4>1 DEF RulesInv, VerdictsAreCurrent
      <4> QED BY <3>1, <3>3, <3>4, <4>2
    <3>5. ASSUME NEW p \in OnScreen' \ overlooked' 
          PROVE  cached = {} \/ p \in OnScreen
      BY <3>1, <3>2
    <3>6. VerdictsAreCurrent'
      <4>1. ASSUME NEW p \in OnScreen' \ overlooked', cached' = {} PROVE verdict'[p] = Unjudged
        <5>1. p \in Watched
          BY <2>1 DEF OnScreen
        <5> QED BY <2>1, <3>1, <4>1, <5>1 DEF RulesInv
      <4>2. ASSUME NEW p \in OnScreen' \ overlooked', NEW r \in cached' PROVE verdict'[p] = VerdictOf(Actions(r, p))'
        BY <2>1, <3>4, <3>5
      <4> QED BY <4>1, <4>2 DEF VerdictsAreCurrent
    <3> QED BY <2>1, <3>1, <3>6 DEF RulesInv
  <2> QED BY <2>2, <2>3
<1>3. ASSUME NEW o \in Watched, NEW k \in DisplayKeys, NEW i \in 0 .. 1, OutRenamed(o, k, i) PROVE RulesInv'
  <2>1. /\ rulebook' \in RuleBooks /\ outs' \in Seq(Watched) /\ cached' = cached
        /\ keyOf' \in [Watched -> DisplayKeys] /\ indexOf' \in [Watched -> 0 .. 1]
    BY <1>3 DEF OutRenamed, RulesInv
  <2> QED BY <1>3, <2>1, ReviewsKeeps DEF OutRenamed
<1>4. ASSUME NEW book \in RuleBooks, RulesChange(book) PROVE RulesInv'
  <2>1. OnScreen' \ overlooked' = {} \/ cached' = {}
    BY <1>4 DEF RulesChange, OnScreen
  <2>2. VerdictsAreCurrent'
    BY <1>4, <2>1 DEF RulesChange, RulesInv, VerdictsAreCurrent, OnScreen
  <2> QED BY <1>4, <2>2 DEF RulesChange, RulesInv
<1>5. CASE WatcherLeaves
  BY <1>5 DEF WatcherLeaves, RulesInv, VerdictsAreCurrent, OnScreen
<1>6. ASSUME NEW o \in Watched, OutRebound(o) PROVE RulesInv'
  <2>1. /\ verdict' = [verdict EXCEPT ![o] = Unjudged] /\ UNCHANGED << rulebook, outs, keyOf, indexOf, cached >>
        /\ overlooked' = (IF cached = {} THEN overlooked ELSE overlooked \cup {o})
    BY <1>6 DEF OutRebound
  <2>2. ASSUME NEW r, NEW p PROVE Actions(r, p)' = Actions(r, p)
    BY <2>1 DEF Actions, ShownOn, FirstWith, LiesOn, Applies, Own
  <2>3. verdict' \in [Watched -> Judgements] /\ (cached = {} => \A p \in Watched : verdict'[p] = Unjudged)
    BY <2>1 DEF RulesInv
  <2>4. OnScreen' = OnScreen /\ OnScreen \subseteq Watched
    BY <2>1 DEF OnScreen, RulesInv
  <2>5. VerdictsAreCurrent'
    <3>1. ASSUME NEW p \in OnScreen' \ overlooked', cached' = {} PROVE verdict'[p] = Unjudged
      BY <2>1, <2>3, <2>4, <3>1
    <3>2. ASSUME NEW p \in OnScreen' \ overlooked', NEW r \in cached' PROVE verdict'[p] = VerdictOf(Actions(r, p))'
      <4>1. p # o /\ p \in OnScreen \ overlooked /\ r \in cached
        BY <2>1, <2>4, <3>2
      <4>2. verdict'[p] = verdict[p]
        BY <2>1, <2>4, <4>1 DEF RulesInv
      <4> QED BY <2>2, <4>1, <4>2 DEF RulesInv, VerdictsAreCurrent
    <3> QED BY <3>1, <3>2 DEF VerdictsAreCurrent
  <2> QED BY <2>1, <2>3, <2>5 DEF RulesInv
<1>7. CASE UNCHANGED rulesVars
  <2>1. UNCHANGED << rulebook, outs, keyOf, indexOf, cached, verdict, overlooked >>
    BY <1>7 DEF rulesVars
  <2>2. ASSUME NEW r, NEW o PROVE Actions(r, o)' = Actions(r, o)
    BY <2>1 DEF Actions, ShownOn, FirstWith, LiesOn, Applies, Own
  <2>3. VerdictsAreCurrent'
    BY <2>1, <2>2 DEF RulesInv, VerdictsAreCurrent, OnScreen
  <2> QED BY <2>1, <2>3 DEF RulesInv
<1> QED BY <1>1, <1>2, <1>3, <1>4, <1>5, <1>6, <1>7 DEF RulesNext

LEMMA NoneOnScreen == ASSUME outs = << >> PROVE outs \in Seq(Watched) /\ OnScreen = {}
<1>1. \A i \in DOMAIN outs : FALSE
  OBVIOUS
<1>2. OnScreen = {}
  BY <1>1, Zenon DEF OnScreen
<1> QED BY <1>2

LEMMA RulesInitInv == RulesInit => RulesInv
<1> SUFFICES ASSUME RulesInit PROVE RulesInv
  OBVIOUS
<1>1. /\ outs = << >> /\ keyOf = [o \in Watched |-> ""] /\ indexOf = [o \in Watched |-> 0]
      /\ rulebook \in RuleBooks /\ cached = {} /\ verdict = [o \in Watched |-> Unjudged]
  BY DEF RulesInit
<1>2. outs \in Seq(Watched) /\ OnScreen = {}
  BY <1>1, NoneOnScreen
<1>3. verdict \in [Watched -> Judgements] /\ \A o \in Watched : verdict[o] = Unjudged
  BY <1>1, UnjudgedIsJudgement
<1>4. keyOf \in [Watched -> DisplayKeys]
  <2>1. "" \in DisplayKeys
    BY RulesAssumption
  <2> QED BY <1>1, <2>1, Zenon
<1>5. indexOf \in [Watched -> 0 .. 1]
  <2>1. 0 \in 0 .. 1
    OBVIOUS
  <2> QED BY <1>1, <2>1, Zenon
<1>6. VerdictsAreCurrent
  BY <1>2 DEF VerdictsAreCurrent
<1> QED BY <1>1, <1>2, <1>3, <1>4, <1>5, <1>6 DEF RulesInv

LEMMA RulesInvShows == RulesInv => WindowsAreJudged
BY DEF RulesInv, WindowsAreJudged, VerdictsAreReports, Judgements

THEOREM WindowsHold == RulesSpec => []WindowsAreJudged
BY RulesInitInv, RulesInvStep, RulesInvShows, PTL DEF RulesSpec

-----------------------------------------------------------------------------
(* What the daemon writes to a client.                                     *)

SomeHalves == [frame : Nat, half : {1, 2}]

Comes(g, h) ==
  \/ h.half = 2 /\ g = [h EXCEPT !.half = 1]
  \/ h.half = 1 /\ g.half = 2 /\ h.frame > g.frame

\* Halves of frames up to n, in order, and the last one is a second half.
InOrder(s, n) ==
  /\ s \in Seq(SomeHalves) /\ s # << >> /\ s[Len(s)].half = 2
  /\ \A i \in 1 .. Len(s) : s[i].frame <= n
  /\ \A i \in 1 .. Len(s) - 1 : Comes(s[i], s[i + 1])

\* What the client read last, what it will read, and what waits for that.
Stream == << seen >> \o (socket \o outbox)

OutboxInv ==
  /\ sends \in 0 .. MaxSends
  /\ socket \in Seq(SomeHalves) /\ outbox \in Seq(SomeHalves) /\ seen \in SomeHalves
  /\ Len(socket) <= SocketRoom /\ Len(outbox) <= OutboxRoom + 2
  /\ InOrder(Stream, sends) /\ ~torn

LEMMA SentShape ==
  ASSUME NEW S, socket \in Seq(S), Len(socket) <= SocketRoom, NEW q \in Seq(S)
  PROVE  /\ Out(q) \in Seq(S) /\ Rest(q) \in Seq(S) /\ Out(q) \o Rest(q) = socket \o q
         /\ Len(Out(q)) <= SocketRoom /\ Len(Rest(q)) <= Len(q)
<1> DEFINE k == Fits(q)
           front == SubSeq(q, 1, k)
<1>1. Len(q) \in Nat /\ Len(socket) \in Nat /\ SocketRoom \in Nat
  BY OutboxAssumption
<1>2. k \in 0 .. Len(q) /\ k <= SocketRoom - Len(socket)
  BY <1>1 DEF Fits
<1> HIDE DEF k
<1>3. front \in Seq(S) /\ Len(front) = k /\ Rest(q) \in Seq(S) /\ Len(Rest(q)) = Len(q) - k
  BY <1>1, <1>2 DEF Rest, k
<1>4. front \o Rest(q) = q
  <2>1. 1 \in 1 .. Len(q) + 1 /\ k \in 1 - 1 .. Len(q) /\ Len(q) \in k .. Len(q)
    BY <1>1, <1>2
  <2>2. SubSeq(q, 1, k) \o SubSeq(q, k + 1, Len(q)) = SubSeq(q, 1, Len(q))
    BY <2>1, ConcatAdjacentSubSeq
  <2>3. SubSeq(q, 1, Len(q)) = q
    BY SubSeqFull
  <2> QED BY <2>2, <2>3 DEF Rest, k
<1>5. Out(q) = socket \o front
  BY DEF Out, k
<1>6. Len(Out(q)) = Len(socket) + k /\ Out(q) \in Seq(S)
  BY <1>3, <1>5
<1> HIDE DEF front
<1>7. (socket \o front) \o Rest(q) = socket \o (front \o Rest(q))
  BY <1>3, ConcatAssociative
<1>8. Out(q) \o Rest(q) = socket \o q
  BY <1>4, <1>5, <1>7
<1>9. Len(Out(q)) <= SocketRoom /\ Len(Rest(q)) <= Len(q)
  BY <1>1, <1>2, <1>3, <1>6
<1> QED BY <1>3, <1>6, <1>8, <1>9

LEMMA FrameAdds ==
  ASSUME NEW n \in Nat, NEW s, InOrder(s, n)
  PROVE  InOrder(s \o Halves(n + 1), n + 1)
<1> DEFINE t == Halves(n + 1)
           u == s \o t
<1>1. /\ t \in Seq(SomeHalves) /\ Len(t) = 2 /\ t[1] = [frame |-> n + 1, half |-> 1]
      /\ t[2] = [frame |-> n + 1, half |-> 2]
  BY DEF Halves, SomeHalves
<1>2. s \in Seq(SomeHalves) /\ Len(s) \in Nat \ {0}
  BY DEF InOrder
<1> HIDE DEF t
<1>3. u \in Seq(SomeHalves) /\ Len(u) = Len(s) + 2
  <2>1. s \o t \in Seq(SomeHalves) /\ Len(s \o t) = Len(s) + Len(t)
    BY <1>1, <1>2, ConcatProperties
  <2> QED BY <1>1, <2>1
<1>4. /\ \A i \in 1 .. Len(s) : u[i] = s[i]
      /\ u[Len(s) + 1] = t[1] /\ u[Len(s) + 2] = t[2]
  BY <1>1, <1>2, ConcatProperties
<1> HIDE DEF u
<1>5. u # << >> /\ u[Len(u)].half = 2
  BY <1>1, <1>3, <1>4, <1>2
<1>6. \A i \in 1 .. Len(s) : s[i].frame <= n /\ s[i] \in SomeHalves
  BY <1>2 DEF InOrder
<1>7. ASSUME NEW i \in 1 .. Len(u) PROVE u[i].frame <= n + 1
  <2>1. i \in 1 .. Len(s) \/ i = Len(s) + 1 \/ i = Len(s) + 2
    BY <1>2, <1>3
  <2>2. CASE i \in 1 .. Len(s)
    <3>1. u[i] = s[i] /\ s[i].frame <= n /\ s[i].frame \in Nat
      BY <1>4, <1>6, <2>2 DEF SomeHalves
    <3> QED BY <3>1
  <2> QED BY <1>1, <1>4, <2>1, <2>2
<1>8. ASSUME NEW i \in 1 .. Len(u) - 1 PROVE Comes(u[i], u[i + 1])
  <2>1. i \in 1 .. Len(s) - 1 \/ i = Len(s) \/ i = Len(s) + 1
    BY <1>2, <1>3
  <2>2. CASE i \in 1 .. Len(s) - 1
    <3>1. i \in 1 .. Len(s) /\ i + 1 \in 1 .. Len(s)
      BY <1>2, <2>2
    <3> QED BY <1>4, <2>2, <3>1 DEF InOrder
  <2>3. CASE i = Len(s)
    <3>1. u[i] = s[Len(s)] /\ s[Len(s)].half = 2 /\ s[Len(s)].frame <= n /\ s[Len(s)].frame \in Nat
      BY <1>2, <1>4, <1>6, <2>3 DEF InOrder, SomeHalves
    <3>2. u[i + 1] = [frame |-> n + 1, half |-> 1]
      BY <1>1, <1>4, <2>3
    <3> QED BY <3>1, <3>2 DEF Comes
  <2>4. CASE i = Len(s) + 1
    <3>1. u[i] = [frame |-> n + 1, half |-> 1] /\ u[i + 1] = [frame |-> n + 1, half |-> 2]
      BY <1>1, <1>2, <1>4, <2>4
    <3> QED BY <3>1 DEF Comes
  <2> QED BY <2>1, <2>2, <2>3, <2>4
<1>9. InOrder(u, n + 1)
  BY <1>3, <1>5, <1>7, <1>8 DEF InOrder
<1> QED BY <1>9 DEF u, t

\* The client reads on: the order of the rest stays.
LEMMA HalfGoes ==
  ASSUME NEW n \in Nat, NEW x \in SomeHalves, NEW s \in Seq(SomeHalves), s # << >>, InOrder(<< x >> \o s, n)
  PROVE  InOrder(s, n) /\ Comes(x, s[1])
<1> DEFINE u == << x >> \o s
<1>1. Len(s) \in Nat \ {0} /\ Len(u) = Len(s) + 1 /\ u[1] = x
  OBVIOUS
<1>2. \A i \in 1 .. Len(s) : u[i + 1] = s[i]
  OBVIOUS
<1>3. InOrder(u, n)
  OBVIOUS
<1> HIDE DEF u
<1>4. s[Len(s)].half = 2
  BY <1>1, <1>2, <1>3 DEF InOrder
<1>5. ASSUME NEW i \in 1 .. Len(s) PROVE s[i].frame <= n
  <2>1. i + 1 \in 1 .. Len(u)
    BY <1>1
  <2> QED BY <1>2, <1>3, <2>1 DEF InOrder
<1>6. ASSUME NEW i \in 1 .. Len(s) - 1 PROVE Comes(s[i], s[i + 1])
  <2>1. i + 1 \in 1 .. Len(u) - 1 /\ i \in 1 .. Len(s) /\ i + 1 \in 1 .. Len(s)
    BY <1>1
  <2>2. Comes(u[i + 1], u[(i + 1) + 1])
    BY <1>3, <2>1 DEF InOrder
  <2> QED BY <1>2, <2>1, <2>2
<1>7. Comes(x, s[1])
  <2>1. 1 \in 1 .. Len(u) - 1 /\ 1 \in 1 .. Len(s)
    BY <1>1
  <2>2. Comes(u[1], u[1 + 1])
    BY <1>3, <2>1 DEF InOrder
  <2> QED BY <1>1, <1>2, <2>1, <2>2
<1> QED BY <1>4, <1>5, <1>6, <1>7 DEF InOrder

LEMMA OutboxInitInv == OutboxInit => OutboxInv
<1> SUFFICES ASSUME OutboxInit PROVE OutboxInv
  OBVIOUS
<1>1. /\ socket = << >> /\ outbox = << >> /\ seen = [frame |-> 0, half |-> 2] /\ ~torn /\ sends = 0
  BY DEF OutboxInit, NothingYet
<1>2. seen \in SomeHalves
  BY <1>1 DEF SomeHalves
<1>3. Stream = << seen >>
  BY <1>1 DEF Stream
<1>4. InOrder(<< seen >>, 0)
  BY <1>1, <1>2 DEF InOrder
<1> QED BY <1>1, <1>2, <1>3, <1>4, OutboxAssumption DEF OutboxInv

LEMMA OutboxInvStep == OutboxInv /\ [OutboxNext]_outboxVars => OutboxInv'
<1> SUFFICES ASSUME OutboxInv, [OutboxNext]_outboxVars PROVE OutboxInv'
  OBVIOUS
<1>1. /\ sends \in Nat /\ MaxSends \in Nat /\ SocketRoom \in Nat \ {0} /\ OutboxRoom \in Nat \ {0}
      /\ socket \in Seq(SomeHalves) /\ outbox \in Seq(SomeHalves) /\ seen \in SomeHalves
      /\ << seen >> \in Seq(SomeHalves) /\ InOrder(Stream, sends) /\ Len(socket) <= SocketRoom
  BY OutboxAssumption DEF OutboxInv
<1>2. Halves(sends + 1) \in Seq(SomeHalves) /\ Len(Halves(sends + 1)) = 2
  BY <1>1 DEF Halves, SomeHalves
<1>3. Stream \o Halves(sends + 1) = << seen >> \o (socket \o (outbox \o Halves(sends + 1)))
  <2>1. socket \o outbox \in Seq(SomeHalves)
    BY <1>1, ConcatProperties
  <2>2. Stream \o Halves(sends + 1) = << seen >> \o ((socket \o outbox) \o Halves(sends + 1))
    BY <1>1, <1>2, <2>1, ConcatAssociative DEF Stream
  <2>3. (socket \o outbox) \o Halves(sends + 1) = socket \o (outbox \o Halves(sends + 1))
    <3> DEFINE h == Halves(sends + 1)
    <3>1. socket \in Seq(SomeHalves) /\ outbox \in Seq(SomeHalves) /\ h \in Seq(SomeHalves)
      BY <1>1, <1>2
    <3> HIDE DEF h
    <3>2. (socket \o outbox) \o h = socket \o (outbox \o h)
      BY <3>1, ConcatAssociative
    <3> QED BY <3>2 DEF h
  <2> QED BY <2>2, <2>3
<1>4. InOrder(Stream \o Halves(sends + 1), sends + 1)
  BY <1>1, FrameAdds
<1>5. InOrder(Stream, sends + 1)
  <2>1. Stream \in Seq(SomeHalves) /\ \A i \in 1 .. Len(Stream) : Stream[i].frame <= sends
    BY <1>1 DEF InOrder
  <2>2. ASSUME NEW i \in 1 .. Len(Stream) PROVE Stream[i].frame <= sends + 1
    <3>1. Stream[i] \in SomeHalves /\ Stream[i].frame <= sends
      BY <2>1
    <3> QED BY <1>1, <3>1 DEF SomeHalves
  <2> QED BY <1>1, <2>2 DEF InOrder
<1>6. CASE SendPlain
  <2> DEFINE q == outbox \o Halves(sends + 1)
  <2>1. q \in Seq(SomeHalves) /\ Len(q) = Len(outbox) + 2
    <3>1. q \in Seq(SomeHalves) /\ Len(q) = Len(outbox) + Len(Halves(sends + 1))
      BY <1>1, <1>2, ConcatProperties
    <3> QED BY <1>2, <3>1
  <2>2. sends' = sends + 1 /\ sends' \in 0 .. MaxSends /\ seen' = seen /\ torn' = torn
    BY <1>1, <1>6 DEF SendPlain
  <2>3. CASE outbox # << >> /\ Len(q) > OutboxRoom
    BY <1>1, <1>5, <1>6, <2>2, <2>3 DEF SendPlain, OutboxInv, Stream
  <2>4. CASE ~(outbox # << >> /\ Len(q) > OutboxRoom)
    <3>1. socket' = Out(q) /\ outbox' = Rest(q)
      BY <1>6, <2>4 DEF SendPlain
    <3> HIDE DEF q
    <3>2. /\ socket' \in Seq(SomeHalves) /\ outbox' \in Seq(SomeHalves) /\ socket' \o outbox' = socket \o q
          /\ Len(socket') <= SocketRoom /\ Len(outbox') <= Len(q)
      BY <1>1, <2>1, <3>1, SentShape
    <3>3. Len(q) <= OutboxRoom + 2
      BY <1>1, <2>1, <2>4
    <3>4. InOrder(Stream', sends')
      BY <1>3, <1>4, <2>2, <3>2 DEF Stream, q
    <3> QED BY <1>1, <2>1, <2>2, <3>2, <3>3, <3>4 DEF OutboxInv
  <2> QED BY <2>3, <2>4
<1>7. CASE SendFds
  <2>1. sends' = sends + 1 /\ sends' \in 0 .. MaxSends /\ seen' = seen /\ torn' = torn
    BY <1>1, <1>7 DEF SendFds
  <2>2. /\ Out(outbox) \in Seq(SomeHalves) /\ Rest(outbox) \in Seq(SomeHalves)
        /\ Out(outbox) \o Rest(outbox) = socket \o outbox /\ Len(Out(outbox)) <= SocketRoom
        /\ Len(Rest(outbox)) <= Len(outbox)
    BY <1>1, SentShape
  <2>3. CASE MaySendFds
    <3>1. socket' = Out(outbox) \o Halves(sends + 1) /\ outbox' = << >> /\ Rest(outbox) = << >>
      BY <1>7, <2>3 DEF SendFds, MaySendFds
    <3>2. Out(outbox) = socket \o outbox
      BY <2>2, <3>1, ConcatEmptySeq
    <3>3. socket' \in Seq(SomeHalves) /\ outbox' \in Seq(SomeHalves) /\ Len(outbox') = 0 /\ Len(socket') <= SocketRoom
      <4>1. /\ socket' \in Seq(SomeHalves)
            /\ Len(socket') = Len(Out(outbox)) + Len(Halves(sends + 1))
        BY <1>2, <2>2, <3>1, ConcatProperties
      <4>2. Len(Out(outbox)) + 2 <= SocketRoom
        BY <2>3 DEF MaySendFds
      <4>3. outbox' \in Seq(SomeHalves) /\ Len(outbox') = 0
        BY <3>1
      <4>4. Len(socket') <= SocketRoom
        BY <1>2, <4>1, <4>2
      <4> QED BY <4>1, <4>3, <4>4
    <3>4. socket' \o outbox' = (socket \o outbox) \o Halves(sends + 1)
      BY <3>1, <3>2, <3>3, ConcatEmptySeq
    <3>5. Stream' = Stream \o Halves(sends + 1)
      <4>1. socket \o outbox \in Seq(SomeHalves)
        BY <1>1, ConcatProperties
      <4>2. << seen >> \o ((socket \o outbox) \o Halves(sends + 1)) = Stream \o Halves(sends + 1)
        BY <1>1, <1>2, <4>1, ConcatAssociative DEF Stream
      <4> QED BY <2>1, <3>4, <4>2 DEF Stream
    <3> QED BY <1>1, <1>4, <2>1, <3>3, <3>5 DEF OutboxInv
  <2>4. CASE ~MaySendFds
    <3>1. socket' = Out(outbox) \o << >> /\ outbox' = Rest(outbox)
      BY <1>7, <2>4 DEF SendFds
    <3>2. socket' = Out(outbox)
      BY <2>2, <3>1, ConcatEmptySeq
    <3>3. Stream' = Stream
      BY <2>1, <2>2, <3>1, <3>2 DEF Stream
    <3>4. Len(outbox') <= OutboxRoom + 2
      BY <1>1, <2>2, <3>1 DEF OutboxInv
    <3> QED BY <1>5, <2>1, <2>2, <3>1, <3>2, <3>3, <3>4, <1>1 DEF OutboxInv
  <2> QED BY <2>3, <2>4
<1>8. CASE WriteReady
  <2>1. /\ Out(outbox) \in Seq(SomeHalves) /\ Rest(outbox) \in Seq(SomeHalves)
        /\ Out(outbox) \o Rest(outbox) = socket \o outbox /\ Len(Out(outbox)) <= SocketRoom
        /\ Len(Rest(outbox)) <= Len(outbox)
    BY <1>1, SentShape
  <2>2. socket' = Out(outbox) /\ outbox' = Rest(outbox) /\ UNCHANGED << sends, seen, torn >>
    BY <1>8 DEF WriteReady
  <2>3. Stream' = Stream
    BY <2>1, <2>2 DEF Stream
  <2> QED BY <1>1, <2>1, <2>2, <2>3 DEF OutboxInv
<1>9. CASE ClientReads
  <2>1. /\ socket # << >> /\ socket' = Tail(socket) /\ seen' = Head(socket)
        /\ torn' = (torn \/ ~Follows(Head(socket))) /\ UNCHANGED << sends, outbox, watch >>
    BY <1>9 DEF ClientReads
  <2>2. /\ Head(socket) \in SomeHalves /\ Tail(socket) \in Seq(SomeHalves) /\ Len(Tail(socket)) <= SocketRoom
        /\ socket = << Head(socket) >> \o Tail(socket) /\ Head(socket) = socket[1] /\ Len(socket) > 0
    BY <1>1, <2>1
  <2>3. socket \o outbox = Stream'
    <3>1. << Head(socket) >> \in Seq(SomeHalves)
      BY <2>2
    <3> QED BY <1>1, <2>1, <2>2, <3>1, ConcatAssociative DEF Stream
  <2>4. /\ socket \o outbox \in Seq(SomeHalves) /\ socket \o outbox # << >> /\ (socket \o outbox)[1] = socket[1]
    BY <1>1, <2>2
  <2>5. InOrder(socket \o outbox, sends) /\ Comes(seen, socket[1])
    BY <1>1, <2>4, HalfGoes DEF Stream
  <2>6. ~torn'
    BY <2>1, <2>2, <2>5 DEF Comes, Follows, OutboxInv
  <2> QED BY <1>1, <2>1, <2>2, <2>3, <2>5, <2>6 DEF OutboxInv
<1>10. CASE UNCHANGED outboxVars
  BY <1>10 DEF outboxVars, OutboxInv, Stream
<1> QED BY <1>6, <1>7, <1>8, <1>9, <1>10 DEF OutboxNext

LEMMA OutboxInvShows == OutboxInv => WholeFrames
BY DEF OutboxInv, WholeFrames, OutboxTypeOK

-----------------------------------------------------------------------------
(* What the daemon reads from a client.                                    *)

\* Logged up to m, and those in R may be there twice.
FramesTo(s, m)         == s \in Seq(Nat) /\ \A i \in 1 .. Len(s) : s[i] \in 1 .. m
OnceBut(R, s)      == \A i, j \in 1 .. Len(s) : s[i] = s[j] /\ i # j => s[i] \in R
ApartBut(R, s, t)  == \A i \in 1 .. Len(s), j \in 1 .. Len(t) : s[i] = t[j] => s[i] \in R
Rising(s)          == \A i, j \in 1 .. Len(s) : i < j => s[i] <= s[j]
Below(s, t)        == \A i \in 1 .. Len(s), j \in 1 .. Len(t) : s[i] <= t[j]
Amid(s, f)       == \E i \in 1 .. Len(s) : s[i] = f

\* What was handled and put aside, of the requests up to m.
Logged(m) ==
  /\ FramesTo(handled, m) /\ FramesTo(deferred, m)
  /\ OnceBut(reread, handled) /\ OnceBut(reread, deferred) /\ ApartBut(reread, handled, deferred)
  /\ \A i \in 1 .. Len(deferred) : ~isAck[deferred[i]]

Orderly ==
  ~passed => /\ Rising(handled) /\ Rising(deferred) /\ Below(handled, deferred)
             /\ waiting \/ deferred = << >>

\* n frames came before the one in recv_state, or the one whose half was cleared. The
\* request in hand is still there, or a wait has read it and maybe others.
Untouched(n) == handling = n + 1
Through(n)     == IF Untouched(n) THEN n + 1 ELSE n
InStep(n) ==
  /\ read = 2 * n + recv.halves
  /\ recv.halves > 0 => recv.frame = n + 1
  /\ handling \in 0 .. n + 1
  /\ Untouched(n) => recv.halves = 2
  /\ handling \in 1 .. n /\ recv.halves = 2 => inner
  /\ \A f \in 1 .. Through(n) : isAck[f] \/ Amid(handled, f) \/ Amid(deferred, f)
OutOfStep(n) == handling = 0 /\ 2 * n <= read /\ (read + recv.halves) % 2 = 1
CameBefore(n) == Logged(Through(n)) /\ IF cut THEN OutOfStep(n) ELSE InStep(n)

InboxBounds ==
  /\ isAck \in Seq(BOOLEAN) /\ arrived \in 0 .. 2 * Len(isAck) /\ read \in 0 .. arrived
  /\ recv \in [frame : Nat, halves : 0 .. 2] /\ handling \in Nat
  /\ waits \in Nat /\ unbinds \in 0 .. waits
  /\ inner => waiting

InboxInv == InboxBounds /\ Orderly /\ \E n \in Nat : CameBefore(n)

\* A frame is appended to requests up to it.
LEMMA FrameAppended ==
  ASSUME NEW x \in Nat, x > 0, NEW s, NEW t, FramesTo(s, x), FramesTo(t, x), NEW R, NEW S, R \subseteq S,
         OnceBut(R, s), ApartBut(R, s, t), ApartBut(R, t, s),
         Amid(s, x) => x \in S, Amid(t, x) => x \in S
  PROVE  /\ FramesTo(Append(s, x), x) /\ OnceBut(S, Append(s, x))
         /\ ApartBut(S, Append(s, x), t) /\ ApartBut(S, t, Append(s, x))
         /\ Rising(s) => Rising(Append(s, x))
         /\ Below(t, s) => Below(t, Append(s, x))
         /\ \A f : Amid(s, f) \/ f = x <=> Amid(Append(s, x), f)
<1> DEFINE u == Append(s, x)
<1>1. /\ s \in Seq(Nat) /\ t \in Seq(Nat) /\ Len(s) \in Nat /\ Len(t) \in Nat
      /\ \A i \in 1 .. Len(s) : s[i] \in 1 .. x
      /\ \A i \in 1 .. Len(t) : t[i] \in 1 .. x
  BY DEF FramesTo
<1>2. /\ u \in Seq(Nat) /\ Len(u) = Len(s) + 1 /\ u[Len(s) + 1] = x
      /\ \A i \in 1 .. Len(s) : u[i] = s[i]
  BY <1>1
<1> HIDE DEF u
<1>3. \A i \in 1 .. Len(u) : i \in 1 .. Len(s) \/ i = Len(s) + 1
  BY <1>1, <1>2
<1>4. FramesTo(u, x)
  <2>1. ASSUME NEW i \in 1 .. Len(u) PROVE u[i] \in 1 .. x
    <3>1. CASE i \in 1 .. Len(s)
      BY <1>1, <1>2, <3>1, Zenon
    <3>2. CASE i = Len(s) + 1
      BY <1>2, <3>2
    <3> QED BY <1>3, <3>1, <3>2
  <2> QED BY <1>2, <2>1 DEF FramesTo
<1>5. OnceBut(S, u)
  <2>1. ASSUME NEW i \in 1 .. Len(u), NEW j \in 1 .. Len(u), u[i] = u[j], i # j PROVE u[i] \in S
    <3>1. CASE i \in 1 .. Len(s) /\ j \in 1 .. Len(s)
      BY <1>2, <2>1, <3>1 DEF OnceBut
    <3>2. CASE i = Len(s) + 1 /\ j \in 1 .. Len(s)
      BY <1>2, <2>1, <3>2 DEF Amid
    <3>3. CASE j = Len(s) + 1 /\ i \in 1 .. Len(s)
      BY <1>2, <2>1, <3>3 DEF Amid
    <3> QED BY <1>3, <2>1, <3>1, <3>2, <3>3
  <2> QED BY <2>1 DEF OnceBut
<1>6. ASSUME NEW i \in 1 .. Len(u), NEW j \in 1 .. Len(t), u[i] = t[j] PROVE u[i] \in S
  <2>1. CASE i \in 1 .. Len(s)
    BY <1>2, <1>6, <2>1 DEF ApartBut
  <2>2. CASE i = Len(s) + 1
    BY <1>2, <1>6, <2>2 DEF Amid
  <2> QED BY <1>3, <2>1, <2>2
<1>7. ApartBut(S, u, t) /\ ApartBut(S, t, u)
  BY <1>6 DEF ApartBut
<1>8. ASSUME Rising(s) PROVE Rising(u)
  <2>1. ASSUME NEW i \in 1 .. Len(u), NEW j \in 1 .. Len(u), i < j PROVE u[i] <= u[j]
    <3>1. i \in 1 .. Len(s)
      BY <1>1, <1>2, <2>1
    <3>2. CASE j \in 1 .. Len(s)
      BY <1>2, <1>8, <2>1, <3>1, <3>2 DEF Rising
    <3>3. CASE j = Len(s) + 1
      <4>1. u[i] \in 1 .. x /\ u[j] = x
        BY <1>1, <1>2, <3>1, <3>3
      <4> QED BY <4>1
    <3> QED BY <1>3, <3>2, <3>3
  <2> QED BY <2>1 DEF Rising
<1>9. ASSUME Below(t, s) PROVE Below(t, u)
  <2>1. ASSUME NEW i \in 1 .. Len(t), NEW j \in 1 .. Len(u) PROVE t[i] <= u[j]
    <3>1. CASE j \in 1 .. Len(s)
      BY <1>2, <1>9, <3>1 DEF Below
    <3>2. CASE j = Len(s) + 1
      <4>1. t[i] \in 1 .. x /\ u[j] = x
        BY <1>1, <1>2, <3>2
      <4> QED BY <4>1
    <3> QED BY <1>3, <3>1, <3>2
  <2> QED BY <2>1 DEF Below
<1>10. ASSUME NEW f PROVE Amid(s, f) \/ f = x <=> Amid(u, f)
  <2>1. ASSUME Amid(s, f) PROVE Amid(u, f)
    BY <1>1, <1>2, <2>1 DEF Amid
  <2>2. ASSUME f = x PROVE Amid(u, f)
    <3>1. Len(s) + 1 \in 1 .. Len(u)
      BY <1>1, <1>2
    <3> QED BY <1>2, <2>2, <3>1 DEF Amid
  <2>3. ASSUME Amid(u, f) PROVE Amid(s, f) \/ f = x
    BY <1>2, <1>3, <2>3 DEF Amid
  <2> QED BY <2>1, <2>2, <2>3
<1> QED BY <1>4, <1>5, <1>7, <1>8, <1>9, <1>10 DEF u

\* What was put aside is handled after the rest.
LEMMA AsideJoined ==
  ASSUME NEW m \in Nat, NEW s, NEW t, FramesTo(s, m), FramesTo(t, m), NEW R,
         OnceBut(R, s), OnceBut(R, t), ApartBut(R, s, t)
  PROVE  /\ FramesTo(s \o t, m) /\ OnceBut(R, s \o t)
         /\ Rising(s) /\ Rising(t) /\ Below(s, t) => Rising(s \o t)
         /\ \A f : Amid(s, f) \/ Amid(t, f) => Amid(s \o t, f)
<1>1. /\ s \in Seq(Nat) /\ Len(s) \in Nat /\ t \in Seq(Nat) /\ Len(t) \in Nat
      /\ \A i \in 1 .. Len(s) : s[i] \in 1 .. m
      /\ \A i \in 1 .. Len(t) : t[i] \in 1 .. m
  BY DEF FramesTo
<1> DEFINE u == s \o t
<1>2. /\ u \in Seq(Nat) /\ Len(u) = Len(s) + Len(t)
      /\ \A i \in 1 .. Len(u) : u[i] = IF i <= Len(s) THEN s[i] ELSE t[i - Len(s)]
  BY <1>1, ConcatProperties
<1> HIDE DEF u
<1> DEFINE Left(i)  == i \in 1 .. Len(s) /\ u[i] = s[i]
           Right(i) == i - Len(s) \in 1 .. Len(t) /\ u[i] = t[i - Len(s)]
<1>3. ASSUME NEW i \in 1 .. Len(u) PROVE Left(i) \/ Right(i)
  BY <1>1, <1>2
<1>4. FramesTo(u, m)
  <2>1. ASSUME NEW i \in 1 .. Len(u) PROVE u[i] \in 1 .. m
    BY <1>1, <1>3
  <2> QED BY <1>2, <2>1 DEF FramesTo
<1>5. ASSUME NEW i \in 1 .. Len(u), NEW j \in 1 .. Len(u), u[i] = u[j], i # j PROVE u[i] \in R
  <2>1. CASE Left(i) /\ Left(j)
    BY <1>5, <2>1 DEF OnceBut
  <2>2. CASE Right(i) /\ Right(j)
    <3>1. i - Len(s) # j - Len(s)
      BY <1>1, <1>5
    <3> QED BY <1>5, <2>2, <3>1 DEF OnceBut
  <2>3. CASE Left(i) /\ Right(j)
    BY <1>5, <2>3 DEF ApartBut
  <2>4. CASE Left(j) /\ Right(i)
    BY <1>5, <2>4 DEF ApartBut
  <2> QED BY <1>3, <2>1, <2>2, <2>3, <2>4
<1>6. ASSUME Rising(s), Rising(t), Below(s, t) PROVE Rising(u)
  <2>1. ASSUME NEW i \in 1 .. Len(u), NEW j \in 1 .. Len(u), i < j PROVE u[i] <= u[j]
    <3>1. CASE Left(i) /\ Left(j)
      BY <1>6, <2>1, <3>1 DEF Rising
    <3>2. CASE Right(i) /\ Right(j)
      <4>1. i - Len(s) < j - Len(s)
        BY <1>1, <2>1
      <4> QED BY <1>6, <3>2, <4>1 DEF Rising
    <3>3. CASE Left(i) /\ Right(j)
      BY <1>6, <3>3 DEF Below
    <3>4. ~(Right(i) /\ Left(j))
      BY <1>1, <2>1
    <3> QED BY <1>3, <3>1, <3>2, <3>3, <3>4
  <2> QED BY <2>1 DEF Rising
<1>7. ASSUME NEW f, Amid(s, f) \/ Amid(t, f) PROVE Amid(u, f)
  <2>1. CASE Amid(s, f)
    <3>1. PICK i \in 1 .. Len(s) : s[i] = f
      BY <2>1 DEF Amid
    <3>2. i \in 1 .. Len(u) /\ u[i] = s[i]
      BY <1>1, <1>2
    <3> QED BY <3>1, <3>2 DEF Amid
  <2>2. CASE Amid(t, f)
    <3>1. PICK i \in 1 .. Len(t) : t[i] = f
      BY <2>2 DEF Amid
    <3>2. Len(s) + i \in 1 .. Len(u) /\ ~(Len(s) + i <= Len(s)) /\ (Len(s) + i) - Len(s) = i
      BY <1>1, <1>2
    <3>3. u[Len(s) + i] = t[i]
      BY <1>2, <3>2
    <3> QED BY <3>1, <3>2, <3>3 DEF Amid
  <2> QED BY <1>7, <2>1, <2>2
<1>8. OnceBut(R, u)
  BY <1>5 DEF OnceBut
<1> QED BY <1>4, <1>6, <1>7, <1>8 DEF u

LEMMA InboxInitInv == InboxInit => InboxInv
<1> SUFFICES ASSUME InboxInit PROVE InboxInv
  OBVIOUS
<1>1. InboxBounds
  BY DEF InboxInit, NoFrame, InboxBounds
<1>2. Orderly
  BY DEF InboxInit, Orderly, Rising, Below
<1>3. Logged(0)
  BY DEF InboxInit, Logged, FramesTo, OnceBut, ApartBut
<1>4. InStep(0) /\ Through(0) = 0
  BY DEF InboxInit, NoFrame, InStep, Through, Untouched
<1>5. CameBefore(0)
  BY <1>3, <1>4 DEF InboxInit, CameBefore
<1> QED BY <1>1, <1>2, <1>5 DEF InboxInv

LEMMA InboxBoundsStep == InboxInv /\ [InboxNext]_inboxVars => InboxBounds'
<1> SUFFICES ASSUME InboxInv, [InboxNext]_inboxVars PROVE InboxBounds'
  OBVIOUS
<1>1. InboxBounds
  BY DEF InboxInv
<1>2. CASE ClientSends
  <2>1. PICK ack \in BOOLEAN : isAck' = Append(isAck, ack)
    BY <1>2 DEF ClientSends
  <2>2. UNCHANGED << arrived, read, recv, handling, waiting, inner, unbinds, waits >>
    BY <1>2 DEF ClientSends
  <2>3. isAck' \in Seq(BOOLEAN) /\ Len(isAck') = Len(isAck) + 1 /\ Len(isAck) \in Nat
    BY <1>1, <2>1 DEF InboxBounds
  <2>4. arrived' \in 0 .. 2 * Len(isAck')
    BY <1>1, <2>2, <2>3 DEF InboxBounds
  <2> QED BY <1>1, <2>2, <2>3, <2>4 DEF InboxBounds
<1>3. CASE Arrive
  BY <1>1, <1>3 DEF Arrive, InboxBounds, FramesSent
<1>4. ASSUME ReadHalf, UNCHANGED << isAck, arrived, handling, waiting, inner, unbinds, waits >> PROVE InboxBounds'
  <2>1. read' = read + 1 /\ read' \in 0 .. arrived /\ recv.halves \in 0 .. 1
    BY <1>1, <1>4 DEF ReadHalf, Readable, Whole, InboxBounds
  <2>2. read \div 2 \in Nat
    BY <1>1 DEF InboxBounds
  <2>3. recv' = [frame |-> (read \div 2) + 1, halves |-> recv.halves + 1]
    BY <1>4 DEF ReadHalf
  <2>4. recv' \in [frame : Nat, halves : 0 .. 2]
    BY <2>1, <2>2, <2>3
  <2> QED BY <1>1, <1>4, <2>1, <2>4 DEF InboxBounds
<1>5. CASE FdReady
  BY <1>4, <1>5 DEF FdReady
<1>6. CASE InboxReads
  BY <1>4, <1>6 DEF InboxReads
<1>7. CASE Handle
  BY <1>1, <1>7 DEF Handle, Acknowledge, InboxBounds
<1>8. CASE HandlerReturns
  BY <1>1, <1>8 DEF HandlerReturns, NoFrame, InboxBounds
<1>9. ASSUME NEW within \in BOOLEAN, StartWait(within) PROVE InboxBounds'
  BY <1>1, <1>9 DEF StartWait, InboxBounds
<1>10. CASE Poll
  BY <1>1, <1>10 DEF Poll, InboxBounds
<1>11. CASE WaitTakes
  BY <1>1, <1>11 DEF WaitTakes, Acknowledge, NoFrame, InboxBounds
<1>12. CASE Drained
  BY <1>1, <1>12 DEF Drained, InboxBounds
<1>13. CASE EndWait
  BY <1>1, <1>13 DEF EndWait, InboxBounds
<1>14. CASE UNCHANGED inboxVars
  BY <1>1, <1>14 DEF inboxVars, InboxBounds
<1> QED
  BY <1>2, <1>3, <1>5, <1>6, <1>7, <1>8, <1>9, <1>10, <1>11, <1>12, <1>13, <1>14
  DEF InboxNext, Client, Sockets, InboxTicks

LEMMA InboxInvStep == InboxInv /\ [InboxNext]_inboxVars => InboxInv'
<1> SUFFICES ASSUME InboxInv, [InboxNext]_inboxVars PROVE InboxInv'
  OBVIOUS
<1>0. InboxBounds'
  BY InboxBoundsStep
<1>1. /\ isAck \in Seq(BOOLEAN) /\ Len(isAck) \in Nat /\ arrived \in 0 .. 2 * Len(isAck) /\ read \in 0 .. arrived
      /\ recv \in [frame : Nat, halves : 0 .. 2] /\ recv.halves \in 0 .. 2 /\ handling \in Nat
      /\ inner => waiting
  BY DEF InboxInv, InboxBounds
<1>2. PICK n \in Nat : CameBefore(n)
  BY DEF InboxInv
<1>3. Logged(Through(n)) /\ (cut => OutOfStep(n)) /\ (~cut => InStep(n)) /\ Orderly
  BY <1>2 DEF CameBefore, InboxInv
<1>4. Through(n) \in Nat /\ 2 * Through(n) <= read
  BY <1>1, <1>3 DEF InStep, OutOfStep, Through, Untouched
<1>5. ASSUME UNCHANGED << read, recv, handling, handled, deferred, reread, cut, isAck >>, inner => inner'
      PROVE  CameBefore(n)'
  BY <1>2, <1>5 DEF CameBefore, Logged, InStep, OutOfStep, Through, Untouched, FramesTo, Amid, OnceBut, ApartBut
<1>6. ASSUME UNCHANGED << handled, deferred, passed >>, waiting => waiting' PROVE Orderly'
  BY <1>3, <1>6 DEF Orderly, Rising, Below
<1>7. CASE ClientSends
  <2>1. PICK ack \in BOOLEAN : isAck' = Append(isAck, ack)
    BY <1>7 DEF ClientSends
  <2>2. UNCHANGED << arrived, read, recv, handling, waiting, inner, deferred, handled, reread, cut, passed >>
    BY <1>7 DEF ClientSends, historyVars
  <2>3. \A f \in 1 .. Len(isAck) : isAck'[f] = isAck[f]
    BY <1>1, <2>1
  <2>4. \A f \in 1 .. Through(n) : isAck'[f] = isAck[f]
    BY <1>1, <1>4, <2>3
  <2>5. Through(n)' = Through(n)
    BY <2>2 DEF Through, Untouched
  <2>6. \A i \in 1 .. Len(deferred) : ~isAck'[deferred[i]]
    BY <1>3, <2>4 DEF Logged, FramesTo
  <2>7. Logged(Through(n))'
    BY <1>3, <2>2, <2>5, <2>6 DEF Logged, FramesTo, OnceBut, ApartBut
  <2>8. InStep(n) => InStep(n)'
    BY <2>2, <2>4, <2>5 DEF InStep, Untouched, Amid
  <2>9. OutOfStep(n) => OutOfStep(n)'
    BY <2>2 DEF OutOfStep
  <2>10. CameBefore(n)'
    BY <1>3, <2>2, <2>7, <2>8, <2>9 DEF CameBefore
  <2> QED BY <1>0, <1>6, <2>2, <2>10 DEF InboxInv
<1>8. CASE Arrive
  BY <1>0, <1>5, <1>6, <1>8 DEF Arrive, InboxInv, historyVars
<1>9. ASSUME ReadHalf, handling = 0 \/ inner,
             UNCHANGED << isAck, handling, waiting, inner, deferred, handled, reread, cut, passed >>
      PROVE  InboxInv'
  <2>1. read' = read + 1 /\ recv.halves \in 0 .. 1 /\ recv' = [frame |-> (read \div 2) + 1, halves |-> recv.halves + 1]
    BY <1>1, <1>9 DEF ReadHalf, Whole
  <2>2. Logged(Through(n))'
    BY <1>3, <1>9 DEF Logged, FramesTo, OnceBut, ApartBut, Through, Untouched
  <2>3. ASSUME InStep(n) PROVE InStep(n)'
    <3>1. read \div 2 = n
      <4>1. read = 2 * n + recv.halves
        BY <2>3 DEF InStep
      <4> QED BY <2>1, <4>1
    <3>2. ~Untouched(n)
      BY <2>1, <2>3 DEF InStep
    <3>3. recv'.frame = n + 1 /\ recv'.halves = recv.halves + 1
      BY <2>1, <3>1
    <3> QED BY <1>1, <1>9, <2>1, <2>3, <3>2, <3>3 DEF InStep, Untouched, Through, Amid
  <2>4. ASSUME OutOfStep(n) PROVE OutOfStep(n)'
    <3>1. recv'.halves = recv.halves + 1
      BY <2>1
    <3>2. (read' + recv'.halves) % 2 = (read + recv.halves) % 2
      BY <1>1, <2>1, <3>1
    <3> QED BY <1>1, <1>9, <2>1, <2>4, <3>2 DEF OutOfStep
  <2>5. CameBefore(n)'
    BY <1>3, <1>9, <2>2, <2>3, <2>4 DEF CameBefore
  <2> QED BY <1>0, <1>6, <1>9, <2>5 DEF InboxInv
<1>10. CASE FdReady
  BY <1>9, <1>10 DEF FdReady, historyVars
<1>11. CASE InboxReads
  BY <1>9, <1>11 DEF InboxReads, historyVars
<1>12. CASE Handle
  <2>1. /\ handling = 0 /\ ~waiting /\ recv.halves = 2 /\ ~Torn /\ handling' = recv.frame
        /\ UNCHANGED << isAck, read, recv, waiting, inner, deferred, reread, cut, passed >>
    BY <1>12 DEF Handle, Whole, historyVars
  <2>2. ~cut
    BY <1>1, <1>3, <2>1 DEF Torn, Whole, OutOfStep
  <2>3. InStep(n) /\ recv.frame = n + 1 /\ handling' = n + 1 /\ Through(n) = n /\ Through(n)' = n + 1
    BY <1>3, <2>1, <2>2 DEF InStep, Through, Untouched
  <2>4. Logged(n)
    BY <1>3, <2>3
  <2>5. FramesTo(handled, n + 1) /\ FramesTo(deferred, n + 1) /\ ~Amid(handled, n + 1) /\ ~Amid(deferred, n + 1)
    BY <2>4 DEF Logged, FramesTo, Amid
  <2>6. ApartBut(reread, deferred, handled)
    BY <2>4 DEF Logged, ApartBut
  <2>7. CASE isAck[n + 1]
    <3>1. handled' = handled
      BY <1>12, <2>3, <2>7 DEF Handle
    <3>2. Logged(n + 1)'
      BY <2>1, <2>4, <2>5, <3>1 DEF Logged, FramesTo, OnceBut, ApartBut
    <3>3. InStep(n)'
      BY <2>1, <2>3, <2>7, <3>1 DEF InStep, Untouched, Amid
    <3>4. CameBefore(n)'
      BY <2>1, <2>2, <2>3, <3>2, <3>3 DEF CameBefore
    <3> QED BY <1>0, <1>6, <2>1, <3>1, <3>4 DEF InboxInv
  <2>8. CASE ~isAck[n + 1]
    <3>1. handled' = Append(handled, n + 1)
      BY <1>12, <2>3, <2>8 DEF Handle
    <3>2. /\ FramesTo(handled', n + 1) /\ OnceBut(reread, handled')
          /\ ApartBut(reread, handled', deferred)
          /\ Rising(handled) => Rising(handled')
          /\ \A f : Amid(handled, f) \/ f = n + 1 <=> Amid(handled', f)
      <4>1. n + 1 \in Nat /\ n + 1 > 0 /\ reread \subseteq reread
        OBVIOUS
      <4>2. OnceBut(reread, handled) /\ ApartBut(reread, handled, deferred)
        BY <2>4 DEF Logged
      <4> QED BY <2>5, <2>6, <3>1, <4>1, <4>2, FrameAppended
    <3>3. Logged(n + 1)'
      BY <2>1, <2>4, <2>5, <3>2 DEF Logged, FramesTo, OnceBut, ApartBut
    <3>4. InStep(n)'
      <4>1. ASSUME NEW f \in 1 .. n + 1 PROVE isAck[f] \/ Amid(handled', f) \/ Amid(deferred, f)
        <5>1. CASE f = n + 1
          BY <3>2, <5>1
        <5>2. CASE f \in 1 .. n
          BY <2>3, <3>2, <5>2 DEF InStep
        <5> QED BY <5>1, <5>2
      <4>2. \A f \in 1 .. n + 1 : (isAck[f] \/ Amid(handled, f) \/ Amid(deferred, f))'
        BY <2>1, <4>1 DEF Amid
      <4> QED BY <2>1, <2>3, <4>2 DEF InStep, Untouched
    <3>5. CameBefore(n)'
      BY <2>1, <2>2, <2>3, <3>3, <3>4 DEF CameBefore
    <3>6. Orderly'
      <4>1. ASSUME ~passed PROVE Rising(handled') /\ deferred = << >>
        BY <1>3, <2>1, <3>2, <4>1 DEF Orderly
      <4>2. deferred = << >> => Rising(deferred) /\ Below(handled', deferred)
        BY DEF Rising, Below
      <4> QED BY <2>1, <4>1, <4>2 DEF Orderly, Rising, Below
    <3> QED BY <1>0, <3>5, <3>6 DEF InboxInv
  <2> QED BY <2>7, <2>8
<1>13. CASE HandlerReturns
  <2>1. /\ handling # 0 /\ ~waiting /\ ~inner /\ handling' = 0 /\ recv' = [frame |-> 0, halves |-> 0]
        /\ cut' = (cut \/ recv.halves = 1)
        /\ UNCHANGED << isAck, read, waiting, inner, deferred, handled, reread, passed >>
    BY <1>1, <1>13 DEF HandlerReturns, NoFrame
  <2>2. ~cut /\ InStep(n)
    BY <1>3, <2>1 DEF OutOfStep
  <2>3. recv'.halves = 0
    BY <2>1
  <2>4. ASSUME NEW k \in Nat, Logged(k) PROVE Logged(k)' /\ Through(k)' = k
    BY <2>1, <2>4 DEF Logged, FramesTo, OnceBut, ApartBut, Through, Untouched
  <2>5. Logged(Through(n)) /\ \A f \in 1 .. Through(n) : isAck[f] \/ Amid(handled, f) \/ Amid(deferred, f)
    BY <1>3, <2>2 DEF InStep
  <2>6. CASE Untouched(n)
    <3>0. recv.halves = 2 /\ ~(recv.halves = 1)
      BY <2>2, <2>6 DEF InStep
    <3>1. Through(n) = n + 1 /\ ~cut'
      BY <2>1, <2>2, <2>6, <3>0, Zenon DEF Through
    <3>2. Logged(n + 1)' /\ Through(n + 1)' = n + 1
      BY <2>4, <2>5, <3>1
    <3>3. InStep(n + 1)'
      <4>1. \A f \in 1 .. n + 1 : (isAck[f] \/ Amid(handled, f) \/ Amid(deferred, f))'
        BY <2>1, <2>5, <3>1 DEF Amid
      <4>2. read' = 2 * (n + 1) + recv'.halves /\ handling' \in 0 .. (n + 1) + 1 /\ ~(handling' = (n + 1) + 1)
        BY <2>1, <2>2, <2>6 DEF InStep
      <4> QED BY <2>1, <2>3, <3>2, <4>1, <4>2 DEF InStep, Untouched
    <3>4. CameBefore(n + 1)'
      BY <3>1, <3>2, <3>3 DEF CameBefore
    <3> QED BY <1>0, <1>6, <2>1, <3>4 DEF InboxInv
  <2>7. CASE ~Untouched(n)
    <3>1. Through(n) = n /\ recv.halves \in 0 .. 1
      BY <1>1, <2>1, <2>2, <2>7 DEF Through, Untouched, InStep
    <3>2. Logged(n)' /\ Through(n)' = n
      BY <2>4, <2>5, <3>1
    <3>3. ASSUME recv.halves = 0 PROVE InStep(n)'
      <4>1. \A f \in 1 .. n : (isAck[f] \/ Amid(handled, f) \/ Amid(deferred, f))'
        BY <2>1, <2>5, <3>1 DEF Amid
      <4>2. read' = 2 * n + recv'.halves /\ handling' \in 0 .. n + 1 /\ ~(handling' = n + 1)
        BY <2>1, <2>2, <3>3 DEF InStep
      <4> QED BY <2>1, <2>3, <3>2, <4>1, <4>2 DEF InStep, Untouched
    <3>4. ASSUME recv.halves = 1 PROVE OutOfStep(n)'
      BY <1>1, <2>1, <2>2, <2>3, <3>4 DEF InStep, OutOfStep
    <3>5. recv.halves = 0 \/ recv.halves = 1
      BY <3>1
    <3>6. cut' <=> recv.halves = 1
      BY <2>1, <2>2, Zenon
    <3>7. CameBefore(n)'
      <4>1. CASE recv.halves = 1
        BY <3>2, <3>4, <3>6, <4>1, Zenon DEF CameBefore
      <4>2. CASE recv.halves = 0
        <5>1. ~cut'
          BY <3>6, <4>2
        <5> QED BY <3>2, <3>3, <4>2, <5>1, Zenon DEF CameBefore
      <4> QED BY <3>5, <4>1, <4>2
    <3> QED BY <1>0, <1>6, <2>1, <3>7 DEF InboxInv
  <2> QED BY <2>6, <2>7
<1>14. ASSUME NEW within \in BOOLEAN, StartWait(within) PROVE InboxInv'
  BY <1>0, <1>1, <1>5, <1>6, <1>14 DEF StartWait, InboxInv, historyVars
<1>15. CASE Poll
  BY <1>0, <1>5, <1>6, <1>15 DEF Poll, InboxInv, historyVars
<1>16. CASE WaitTakes
  <2>1. /\ inner /\ waiting /\ recv.halves = 2 /\ ~Torn /\ recv' = [frame |-> 0, halves |-> 0]
        /\ reread' = (IF recv.frame = handling THEN reread \cup {handling} ELSE reread)
        /\ UNCHANGED << isAck, read, handling, waiting, inner, handled, cut, passed >>
    BY <1>1, <1>16 DEF WaitTakes, Whole, NoFrame
  <2>2. ~cut
    BY <1>1, <1>3, <2>1 DEF Torn, Whole, OutOfStep
  <2>3. InStep(n) /\ recv.frame = n + 1 /\ recv'.halves = 0
    BY <1>3, <2>1, <2>2 DEF InStep
  <2>4. Logged(Through(n)) /\ Through(n) \in {n, n + 1} /\ Through(n + 1)' = n + 1 /\ ~Untouched(n + 1)'
    BY <1>3, <2>1, <2>3 DEF Through, Untouched, InStep
  <2>5. /\ FramesTo(handled, n + 1) /\ FramesTo(deferred, n + 1) /\ reread \subseteq reread'
        /\ OnceBut(reread, deferred) /\ ApartBut(reread, deferred, handled) /\ ApartBut(reread, handled, deferred)
    BY <2>1, <2>4 DEF Logged, FramesTo, ApartBut
  <2>6. Amid(handled, n + 1) \/ Amid(deferred, n + 1) => n + 1 \in reread'
    <3>1. CASE Untouched(n)
      BY <2>1, <2>3, <3>1 DEF Untouched
    <3>2. CASE ~Untouched(n)
      BY <2>4, <3>2 DEF Logged, FramesTo, Amid, Through
    <3> QED BY <3>1, <3>2
  <2>7. ASSUME Logged(n + 1)', \A f \in 1 .. n + 1 : (isAck[f] \/ Amid(handled, f) \/ Amid(deferred, f))'
        PROVE  CameBefore(n + 1)'
    <3>1. InStep(n + 1)'
      BY <2>1, <2>3, <2>4, <2>7 DEF InStep
    <3> QED BY <2>1, <2>2, <2>4, <2>7, <3>1 DEF CameBefore
  <2>8. \A f \in 1 .. n : isAck[f] \/ Amid(handled, f) \/ Amid(deferred, f)
    BY <2>3, <2>4 DEF InStep
  <2>9. CASE Keeps(recv.frame)
    <3>1. deferred' = Append(deferred, n + 1) /\ ~isAck[n + 1]
      BY <1>16, <2>3, <2>9 DEF WaitTakes, Keeps
    <3>2. /\ FramesTo(deferred', n + 1) /\ OnceBut(reread', deferred')
          /\ ApartBut(reread', handled, deferred')
          /\ Rising(deferred) => Rising(deferred')
          /\ Below(handled, deferred) => Below(handled, deferred')
          /\ \A f : Amid(deferred, f) \/ f = n + 1 <=> Amid(deferred', f)
      <4>1. n + 1 \in Nat /\ n + 1 > 0
        OBVIOUS
      <4> QED BY <2>5, <2>6, <3>1, <4>1, FrameAppended
    <3>3. \A i \in 1 .. Len(deferred') : ~isAck[deferred'[i]]
      <4>1. ASSUME NEW i \in 1 .. Len(deferred') PROVE ~isAck[deferred'[i]]
        <5>1. Amid(deferred, deferred'[i]) \/ deferred'[i] = n + 1
          BY <3>2 DEF Amid
        <5> QED BY <2>4, <3>1, <5>1 DEF Logged, Amid
      <4> QED BY <4>1
    <3>4. OnceBut(reread', handled)
      BY <2>1, <2>4 DEF Logged, OnceBut
    <3>5. Logged(n + 1)'
      BY <2>1, <2>5, <3>2, <3>3, <3>4 DEF Logged, FramesTo, OnceBut, ApartBut
    <3>6. \A f \in 1 .. n + 1 : (isAck[f] \/ Amid(handled, f) \/ Amid(deferred, f))'
      <4>1. ASSUME NEW f \in 1 .. n + 1 PROVE isAck[f] \/ Amid(handled, f) \/ Amid(deferred', f)
        <5>1. CASE f = n + 1
          BY <3>2, <5>1
        <5>2. CASE f \in 1 .. n
          BY <2>8, <3>2, <5>2
        <5> QED BY <5>1, <5>2
      <4> QED BY <2>1, <4>1 DEF Amid
    <3>7. Orderly'
      <4>1. ASSUME ~passed PROVE Rising(handled) /\ Rising(deferred') /\ Below(handled, deferred')
        BY <1>3, <3>2, <4>1 DEF Orderly
      <4> QED BY <2>1, <4>1 DEF Orderly, Rising, Below
    <3> QED BY <1>0, <2>7, <3>5, <3>6, <3>7 DEF InboxInv
  <2>10. CASE ~Keeps(recv.frame)
    <3>1. deferred' = deferred /\ isAck[n + 1]
      BY <1>16, <2>3, <2>10 DEF WaitTakes, Keeps
    <3>2. Logged(n + 1)'
      BY <2>1, <2>4, <2>5, <3>1 DEF Logged, FramesTo, OnceBut, ApartBut
    <3>3. \A f \in 1 .. n + 1 : (isAck[f] \/ Amid(handled, f) \/ Amid(deferred, f))'
      <4>1. ASSUME NEW f \in 1 .. n + 1 PROVE isAck[f] \/ Amid(handled, f) \/ Amid(deferred, f)
        BY <2>8, <3>1
      <4> QED BY <2>1, <3>1, <4>1 DEF Amid
    <3>4. Orderly'
      BY <1>6, <2>1, <3>1
    <3> QED BY <1>0, <2>7, <3>2, <3>3, <3>4 DEF InboxInv
  <2> QED BY <2>9, <2>10
<1>17. CASE Drained
  <2>1. recv.halves # 2 /\ inner' = FALSE /\ UNCHANGED << isAck, read, recv, handling, waiting, deferred, handled, reread, cut, passed >>
    BY <1>17 DEF Drained, Whole, historyVars
  <2>2. CameBefore(n)'
    BY <1>2, <2>1 DEF CameBefore, Logged, InStep, OutOfStep, Through, Untouched, FramesTo, Amid, OnceBut, ApartBut
  <2> QED BY <1>0, <1>6, <2>1, <2>2 DEF InboxInv
<1>18. CASE EndWait
  <2>1. /\ passed' = (passed \/ deferred' # << >>)
        /\ UNCHANGED << isAck, read, recv, handling, inner, reread, cut >>
    BY <1>18 DEF EndWait
  <2>2. CASE handled' = handled \o deferred /\ deferred' = << >>
    <3>1. /\ FramesTo(handled', Through(n)) /\ OnceBut(reread, handled')
          /\ Rising(handled) /\ Rising(deferred) /\ Below(handled, deferred) => Rising(handled')
          /\ \A f : Amid(handled, f) \/ Amid(deferred, f) => Amid(handled', f)
      BY <1>3, <1>4, <2>2, AsideJoined DEF Logged
    <3>2. FramesTo(deferred', Through(n)) /\ OnceBut(reread, deferred') /\ ApartBut(reread, handled', deferred') /\ Rising(deferred') /\ Below(handled', deferred')
      BY <2>2 DEF FramesTo, OnceBut, ApartBut, Rising, Below
    <3>3. Through(n)' = Through(n)
      BY <2>1 DEF Through, Untouched
    <3>4. Logged(Through(n))'
      BY <2>1, <2>2, <3>1, <3>2, <3>3 DEF Logged, FramesTo, OnceBut, ApartBut
    <3>5. InStep(n) => InStep(n)'
      <4>1. ASSUME InStep(n), NEW f \in 1 .. Through(n) PROVE isAck[f] \/ Amid(handled', f)
        BY <3>1, <4>1 DEF InStep
      <4> QED BY <2>1, <3>3, <4>1 DEF InStep, Untouched, Amid
    <3>6. OutOfStep(n) => OutOfStep(n)'
      BY <2>1 DEF OutOfStep
    <3>7. CameBefore(n)'
      BY <1>3, <2>1, <3>4, <3>5, <3>6 DEF CameBefore
    <3>8. Orderly'
      <4>1. ASSUME ~passed PROVE Rising(handled')
        BY <1>3, <3>1, <4>1 DEF Orderly
      <4> QED BY <2>1, <2>2, <3>2, <4>1 DEF Orderly, Rising, Below
    <3> QED BY <1>0, <3>7, <3>8 DEF InboxInv
  <2>3. CASE UNCHANGED << handled, deferred >>
    <3>1. Orderly'
      BY <1>3, <2>1, <2>3 DEF Orderly, Rising, Below
    <3> QED BY <1>0, <1>5, <2>1, <2>3, <3>1 DEF InboxInv
  <2> QED BY <1>18, <2>2, <2>3 DEF EndWait
<1>19. CASE UNCHANGED inboxVars
  BY <1>0, <1>5, <1>6, <1>19 DEF inboxVars, historyVars, InboxInv
<1> QED
  BY <1>7, <1>8, <1>10, <1>11, <1>12, <1>13, <1>14, <1>15, <1>16, <1>17, <1>18, <1>19
  DEF InboxNext, Client, Sockets, InboxTicks

LEMMA InboxInvShows == InboxInv => WaitKeepsRequests
<1> SUFFICES ASSUME InboxInv PROVE WaitKeepsRequests
  OBVIOUS
<1>1. PICK n \in Nat : CameBefore(n)
  BY DEF InboxInv
<1>2. /\ Len(isAck) \in Nat /\ arrived \in 0 .. 2 * Len(isAck) /\ read \in 0 .. arrived
      /\ recv.halves \in 0 .. 2 /\ unbinds \in 0 .. waits /\ handling \in Nat
  BY DEF InboxInv, InboxBounds
<1>3. Logged(Through(n)) /\ (cut => OutOfStep(n)) /\ (~cut => InStep(n)) /\ Orderly
  BY <1>1 DEF CameBefore, InboxInv
<1>4. Through(n) \in Nat /\ 2 * Through(n) <= read
  BY <1>2, <1>3 DEF InStep, OutOfStep, Through, Untouched
<1>5. DOMAIN handled = 1 .. Len(handled) /\ DOMAIN deferred = 1 .. Len(deferred)
  BY <1>3 DEF Logged, FramesTo
<1>6. InboxTypeOK
  BY <1>2, <1>3, <1>4, <1>5 DEF InboxTypeOK, FramesSent, Logged, FramesTo
<1>7. AckIsSeen
  BY <1>3, <1>5 DEF AckIsSeen, Logged
<1>8. ASSUME ~cut PROVE ~Torn /\ \A f \in 1 .. (read - recv.halves) \div 2 : isAck[f] \/ InHand(f)
  <2>1. InStep(n) /\ (read - recv.halves) \div 2 = n
    BY <1>2, <1>3, <1>8 DEF InStep
  <2>2. ~Torn
    BY <1>2, <2>1 DEF InStep, Torn, Whole
  <2>3. 1 .. n \subseteq 1 .. Through(n)
    BY DEF Through
  <2>4. \A f \in 1 .. n : isAck[f] \/ InHand(f)
    BY <1>5, <2>1, <2>3 DEF InStep, Amid, InHand
  <2> QED BY <2>1, <2>2, <2>4
<1>9. StreamKept
  BY <1>3, <1>5, <1>8 DEF StreamKept, Logged, OnceBut, ApartBut, Orderly, Rising
<1> QED BY <1>6, <1>7, <1>9 DEF WaitKeepsRequests

-----------------------------------------------------------------------------
(* The life of the daemon's processes.                                     *)

Down    == {"new", "gone"}
Leading == {"locked", "listening", "draining", "stopped"}

\* The lock is held by the process that leads, from its lock to the end of its stop.
LockIsHeld ==
  /\ \A d \in Daemons : stage[d] \in Leading => lock = d
  /\ lock \in Daemons => stage[lock] \in Leading

\* A process has bound the socket exactly while it listens, and the path leads to it.
PathIsBound ==
  \A d \in Daemons : (socketBound[d] <=> stage[d] = "listening") /\ (socketBound[d] => path = d)

\* Workers live under a daemon that listens or drains, or outlive one that died.
WorkersAreLed == \A d \in Daemons : rendering[d] => stage[d] \in {"listening", "draining", "gone"}

\* As long as nothing interfered, one process at a time is up.
OneIsUp ==
  intact => \A d, e \in Daemons : d # e => stage[d] \in Down \/ stage[e] \in Down

\* Then the process that is up has the newest settings, and the file has them too
\* unless a save is due; with nobody up the file has them.
Settled ==
  intact =>
    /\ \A d \in Daemons : stage[d] \notin Down =>
         memory[d] = newest /\ (disk = newest \/ (stage[d] = "listening" /\ due[d]))
    /\ (\A d \in Daemons : stage[d] \in Down) => disk = newest

DaemonInv ==
  DaemonTypeOK /\ LockIsHeld /\ PathIsBound /\ WorkersAreLed /\ OneIsUp /\ Settled

LEMMA DaemonInitInv == DaemonInit => DaemonInv
BY DaemonAssumption
DEF DaemonInit, DaemonInv, DaemonTypeOK, Stages, Edits, LockIsHeld, PathIsBound, WorkersAreLed, OneIsUp,
    Settled, Down, Leading

LEMMA DaemonInvStep == DaemonInv /\ [DaemonNext]_daemonVars => DaemonInv'
<1> SUFFICES ASSUME DaemonInv, [DaemonNext]_daemonVars PROVE DaemonInv'
  OBVIOUS
<1> USE DaemonAssumption DEF Moves, Others, Down
<1>1. ASSUME NEW d \in Daemons, Loads(d) PROVE DaemonInv'
  <2>1. DaemonTypeOK'
    BY <1>1 DEF Loads, DaemonInv, DaemonTypeOK, Stages, Edits
  <2>2. LockIsHeld'
    BY <1>1 DEF Loads, DaemonInv, DaemonTypeOK, LockIsHeld, Leading
  <2>3. PathIsBound'
    BY <1>1 DEF Loads, DaemonInv, DaemonTypeOK, LockIsHeld, PathIsBound, Leading
  <2>4. WorkersAreLed'
    BY <1>1 DEF Loads, DaemonInv, DaemonTypeOK, WorkersAreLed
  <2>5. OneIsUp'
    BY <1>1 DEF Loads, DaemonInv, DaemonTypeOK, OneIsUp
  <2>6. Settled'
    <3> SUFFICES ASSUME intact' PROVE Settled'
      BY DEF Settled
    <3>1. intact /\ stage[d] = "new" /\ \A e \in Daemons \ {d} : stage[e] \in Down
      BY <1>1 DEF Loads
    <3>2. disk = newest
      BY <3>1 DEF DaemonInv, Settled
    <3>3. /\ stage' = [stage EXCEPT ![d] = "loaded"] /\ memory' = [memory EXCEPT ![d] = disk]
          /\ disk' = disk /\ newest' = newest
      BY <1>1 DEF Loads
    <3>4. \A e \in Daemons : stage'[e] \notin Down => memory'[e] = newest
      BY <3>1, <3>2, <3>3 DEF DaemonInv, DaemonTypeOK
    <3>5. disk' = newest' /\ \A e \in Daemons : stage'[e] \notin Down => memory'[e] = newest'
      BY <3>2, <3>3, <3>4
    <3> QED BY <3>5, Zenon DEF Settled
  <2> QED BY <2>1, <2>2, <2>3, <2>4, <2>5, <2>6 DEF DaemonInv
<1>2. ASSUME NEW d \in Daemons, Saves(d) PROVE DaemonInv'
  <2>1. DaemonTypeOK'
    BY <1>2 DEF Saves, Writes, DaemonInv, DaemonTypeOK, Stages, Edits
  <2>2. LockIsHeld'
    BY <1>2 DEF Saves, Writes, DaemonInv, DaemonTypeOK, LockIsHeld, Leading
  <2>3. PathIsBound'
    BY <1>2 DEF Saves, Writes, DaemonInv, DaemonTypeOK, LockIsHeld, PathIsBound, Leading
  <2>4. WorkersAreLed'
    BY <1>2 DEF Saves, Writes, DaemonInv, DaemonTypeOK, WorkersAreLed
  <2>5. OneIsUp'
    BY <1>2 DEF Saves, Writes, DaemonInv, DaemonTypeOK, OneIsUp
  <2>6. Settled'
    BY <1>2 DEF Saves, Writes, DaemonInv, DaemonTypeOK, OneIsUp, Settled, Edits
  <2> QED BY <2>1, <2>2, <2>3, <2>4, <2>5, <2>6 DEF DaemonInv
<1>3. ASSUME NEW d \in Daemons, Locks(d) PROVE DaemonInv'
  <2>1. DaemonTypeOK'
    BY <1>3 DEF Locks, DaemonInv, DaemonTypeOK, Stages, Edits
  <2>2. LockIsHeld'
    BY <1>3 DEF Locks, DaemonInv, DaemonTypeOK, LockIsHeld, Leading
  <2>3. PathIsBound'
    BY <1>3 DEF Locks, DaemonInv, DaemonTypeOK, LockIsHeld, PathIsBound, Leading
  <2>4. WorkersAreLed'
    BY <1>3 DEF Locks, DaemonInv, DaemonTypeOK, WorkersAreLed
  <2>5. OneIsUp'
    BY <1>3 DEF Locks, DaemonInv, DaemonTypeOK, OneIsUp
  <2>6. Settled'
    BY <1>3 DEF Locks, DaemonInv, DaemonTypeOK, OneIsUp, Settled, Edits
  <2> QED BY <2>1, <2>2, <2>3, <2>4, <2>5, <2>6 DEF DaemonInv
<1>4. ASSUME NEW d \in Daemons, Listens(d) PROVE DaemonInv'
  <2>1. DaemonTypeOK'
    BY <1>4 DEF Listens, DaemonInv, DaemonTypeOK, Stages, Edits
  <2>2. LockIsHeld'
    BY <1>4 DEF Listens, DaemonInv, DaemonTypeOK, LockIsHeld, Leading
  <2>3. PathIsBound'
    BY <1>4 DEF Listens, DaemonInv, DaemonTypeOK, LockIsHeld, PathIsBound, Leading
  <2>4. WorkersAreLed'
    BY <1>4 DEF Listens, DaemonInv, DaemonTypeOK, WorkersAreLed
  <2>5. OneIsUp'
    BY <1>4 DEF Listens, DaemonInv, DaemonTypeOK, OneIsUp
  <2>6. Settled'
    BY <1>4 DEF Listens, DaemonInv, DaemonTypeOK, OneIsUp, Settled, Edits
  <2> QED BY <2>1, <2>2, <2>3, <2>4, <2>5, <2>6 DEF DaemonInv
<1>5. ASSUME NEW d \in Daemons, ListenFails(d) PROVE DaemonInv'
  <2>1. DaemonTypeOK'
    BY <1>5 DEF ListenFails, DaemonInv, DaemonTypeOK, Stages, Edits
  <2>2. LockIsHeld'
    BY <1>5 DEF ListenFails, DaemonInv, DaemonTypeOK, LockIsHeld, Leading
  <2>3. PathIsBound'
    BY <1>5 DEF ListenFails, DaemonInv, DaemonTypeOK, LockIsHeld, PathIsBound, Leading
  <2>4. WorkersAreLed'
    BY <1>5 DEF ListenFails, DaemonInv, DaemonTypeOK, WorkersAreLed
  <2>5. OneIsUp'
    BY <1>5 DEF ListenFails, DaemonInv, DaemonTypeOK, OneIsUp
  <2>6. Settled'
    BY <1>5 DEF ListenFails, DaemonInv, DaemonTypeOK, OneIsUp, Settled, Edits
  <2> QED BY <2>1, <2>2, <2>3, <2>4, <2>5, <2>6 DEF DaemonInv
<1>6. ASSUME NEW d \in Daemons, Edited(d) PROVE DaemonInv'
  <2>1. DaemonTypeOK'
    BY <1>6 DEF Edited, DaemonInv, DaemonTypeOK, Stages, Edits
  <2>2. LockIsHeld'
    BY <1>6 DEF Edited, DaemonInv, DaemonTypeOK, LockIsHeld, Leading
  <2>3. PathIsBound'
    BY <1>6 DEF Edited, DaemonInv, DaemonTypeOK, LockIsHeld, PathIsBound, Leading
  <2>4. WorkersAreLed'
    BY <1>6 DEF Edited, DaemonInv, DaemonTypeOK, WorkersAreLed
  <2>5. OneIsUp'
    BY <1>6 DEF Edited, DaemonInv, DaemonTypeOK, OneIsUp
  <2>6. Settled'
    BY <1>6 DEF Edited, DaemonInv, DaemonTypeOK, OneIsUp, Settled, Edits
  <2> QED BY <2>1, <2>2, <2>3, <2>4, <2>5, <2>6 DEF DaemonInv
<1>7. ASSUME NEW d \in Daemons, SaveFires(d) PROVE DaemonInv'
  <2>1. DaemonTypeOK'
    BY <1>7 DEF SaveFires, Writes, DaemonInv, DaemonTypeOK, Stages, Edits
  <2>2. LockIsHeld'
    BY <1>7 DEF SaveFires, Writes, DaemonInv, DaemonTypeOK, LockIsHeld, Leading
  <2>3. PathIsBound'
    BY <1>7 DEF SaveFires, Writes, DaemonInv, DaemonTypeOK, LockIsHeld, PathIsBound, Leading
  <2>4. WorkersAreLed'
    BY <1>7 DEF SaveFires, Writes, DaemonInv, DaemonTypeOK, WorkersAreLed
  <2>5. OneIsUp'
    BY <1>7 DEF SaveFires, Writes, DaemonInv, DaemonTypeOK, OneIsUp
  <2>6. Settled'
    <3> SUFFICES ASSUME intact' PROVE Settled'
      BY DEF Settled
    <3>1. intact /\ stage[d] \notin Down /\ stage' = stage /\ disk' = memory[d] /\ UNCHANGED << memory, newest >>
      BY <1>7 DEF SaveFires, Writes
    <3>2. memory[d] = newest
      BY <3>1 DEF DaemonInv, Settled
    <3>3. \A e \in Daemons : stage[e] \notin Down => memory[e] = newest
      BY <3>1 DEF DaemonInv, Settled
    <3>4. disk' = newest' /\ \A e \in Daemons : stage'[e] \notin Down => memory'[e] = newest'
      BY <3>1, <3>2, <3>3
    <3> QED BY <3>4, Zenon DEF Settled
  <2> QED BY <2>1, <2>2, <2>3, <2>4, <2>5, <2>6 DEF DaemonInv
<1>8. ASSUME NEW d \in Daemons, WorkersStart(d) PROVE DaemonInv'
  <2>1. DaemonTypeOK'
    BY <1>8 DEF WorkersStart, DaemonInv, DaemonTypeOK, Stages, Edits
  <2>2. LockIsHeld'
    BY <1>8 DEF WorkersStart, DaemonInv, DaemonTypeOK, LockIsHeld, Leading
  <2>3. PathIsBound'
    BY <1>8 DEF WorkersStart, DaemonInv, DaemonTypeOK, LockIsHeld, PathIsBound, Leading
  <2>4. WorkersAreLed'
    BY <1>8 DEF WorkersStart, DaemonInv, DaemonTypeOK, WorkersAreLed
  <2>5. OneIsUp'
    BY <1>8 DEF WorkersStart, DaemonInv, DaemonTypeOK, OneIsUp
  <2>6. Settled'
    BY <1>8 DEF WorkersStart, DaemonInv, DaemonTypeOK, OneIsUp, Settled, Edits
  <2> QED BY <2>1, <2>2, <2>3, <2>4, <2>5, <2>6 DEF DaemonInv
<1>9. ASSUME NEW d \in Daemons, ShutsDown(d) PROVE DaemonInv'
  <2>1. DaemonTypeOK'
    BY <1>9 DEF ShutsDown, StopsAccepting, Flushes, Writes, MayFinish, DaemonInv, DaemonTypeOK, Stages, Edits
  <2>2. LockIsHeld'
    BY <1>9 DEF ShutsDown, StopsAccepting, Flushes, Writes, MayFinish, DaemonInv, DaemonTypeOK, LockIsHeld, Leading
  <2>3. PathIsBound'
    BY <1>9 DEF ShutsDown, StopsAccepting, Flushes, Writes, MayFinish, DaemonInv, DaemonTypeOK, LockIsHeld, PathIsBound, Leading
  <2>4. WorkersAreLed'
    BY <1>9 DEF ShutsDown, StopsAccepting, Flushes, Writes, MayFinish, DaemonInv, DaemonTypeOK, WorkersAreLed
  <2>5. OneIsUp'
    BY <1>9 DEF ShutsDown, StopsAccepting, Flushes, Writes, MayFinish, DaemonInv, DaemonTypeOK, OneIsUp
  <2>6. Settled'
    <3> SUFFICES ASSUME intact' PROVE Settled'
      BY DEF Settled
    <3>1. /\ intact /\ stage[d] = "listening" /\ disk' = memory[d] /\ UNCHANGED << memory, newest >>
      BY <1>9 DEF ShutsDown, Flushes, Writes
    <3>2. \A e \in Daemons : stage'[e] \notin Down => stage[e] \notin Down
      BY <1>9, <3>1 DEF ShutsDown, DaemonInv, DaemonTypeOK
    <3>3. memory[d] = newest /\ \A e \in Daemons : stage[e] \notin Down => memory[e] = newest
      BY <3>1 DEF DaemonInv, Settled
    <3>4. disk' = newest' /\ \A e \in Daemons : stage'[e] \notin Down => memory'[e] = newest'
      BY <3>1, <3>2, <3>3
    <3> QED BY <3>4, Zenon DEF Settled
  <2> QED BY <2>1, <2>2, <2>3, <2>4, <2>5, <2>6 DEF DaemonInv
<1>10. ASSUME NEW d \in Daemons, WorkersEnd(d) PROVE DaemonInv'
  <2>1. DaemonTypeOK'
    BY <1>10 DEF WorkersEnd, DaemonInv, DaemonTypeOK, Stages, Edits
  <2>2. LockIsHeld'
    BY <1>10 DEF WorkersEnd, DaemonInv, DaemonTypeOK, LockIsHeld, Leading
  <2>3. PathIsBound'
    BY <1>10 DEF WorkersEnd, DaemonInv, DaemonTypeOK, LockIsHeld, PathIsBound, Leading
  <2>4. WorkersAreLed'
    BY <1>10 DEF WorkersEnd, DaemonInv, DaemonTypeOK, WorkersAreLed
  <2>5. OneIsUp'
    BY <1>10 DEF WorkersEnd, DaemonInv, DaemonTypeOK, OneIsUp
  <2>6. Settled'
    BY <1>10 DEF WorkersEnd, DaemonInv, DaemonTypeOK, OneIsUp, Settled, Edits
  <2> QED BY <2>1, <2>2, <2>3, <2>4, <2>5, <2>6 DEF DaemonInv
<1>11. ASSUME NEW d \in Daemons, Unlocks(d) PROVE DaemonInv'
  <2>1. DaemonTypeOK'
    BY <1>11 DEF Unlocks, StopsAccepting, DaemonInv, DaemonTypeOK, Stages, Edits
  <2>2. LockIsHeld'
    BY <1>11 DEF Unlocks, StopsAccepting, DaemonInv, DaemonTypeOK, LockIsHeld, Leading
  <2>3. PathIsBound'
    BY <1>11 DEF Unlocks, StopsAccepting, DaemonInv, DaemonTypeOK, LockIsHeld, PathIsBound, Leading
  <2>4. WorkersAreLed'
    BY <1>11 DEF Unlocks, StopsAccepting, DaemonInv, DaemonTypeOK, WorkersAreLed
  <2>5. OneIsUp'
    BY <1>11 DEF Unlocks, StopsAccepting, DaemonInv, DaemonTypeOK, OneIsUp
  <2>6. Settled'
    BY <1>11 DEF Unlocks, StopsAccepting, DaemonInv, DaemonTypeOK, OneIsUp, Settled, Edits
  <2> QED BY <2>1, <2>2, <2>3, <2>4, <2>5, <2>6 DEF DaemonInv
<1>12. ASSUME NEW d \in Daemons, LastFlush(d) PROVE DaemonInv'
  <2>1. DaemonTypeOK'
    BY <1>12 DEF LastFlush, Flushes, Writes, DaemonInv, DaemonTypeOK, Stages, Edits
  <2>2. LockIsHeld'
    BY <1>12 DEF LastFlush, Flushes, Writes, DaemonInv, DaemonTypeOK, LockIsHeld, Leading
  <2>3. PathIsBound'
    BY <1>12 DEF LastFlush, Flushes, Writes, DaemonInv, DaemonTypeOK, LockIsHeld, PathIsBound, Leading
  <2>4. WorkersAreLed'
    BY <1>12 DEF LastFlush, Flushes, Writes, DaemonInv, DaemonTypeOK, WorkersAreLed
  <2>5. OneIsUp'
    BY <1>12 DEF LastFlush, Flushes, Writes, DaemonInv, DaemonTypeOK, OneIsUp
  <2>6. Settled'
    BY <1>12 DEF LastFlush, Flushes, Writes, DaemonInv, DaemonTypeOK, OneIsUp, Settled, Edits
  <2> QED BY <2>1, <2>2, <2>3, <2>4, <2>5, <2>6 DEF DaemonInv
<1>13. ASSUME NEW d \in Daemons, Dies(d) PROVE DaemonInv'
  <2>1. DaemonTypeOK'
    BY <1>13 DEF Dies, DaemonInv, DaemonTypeOK, Stages, Edits
  <2>2. LockIsHeld'
    BY <1>13 DEF Dies, DaemonInv, DaemonTypeOK, LockIsHeld, Leading
  <2>3. PathIsBound'
    BY <1>13 DEF Dies, DaemonInv, DaemonTypeOK, LockIsHeld, PathIsBound, Leading
  <2>4. WorkersAreLed'
    BY <1>13 DEF Dies, DaemonInv, DaemonTypeOK, WorkersAreLed
  <2>5. OneIsUp'
    BY <1>13 DEF Dies, DaemonInv, DaemonTypeOK, OneIsUp
  <2>6. Settled'
    BY <1>13 DEF Dies, DaemonInv, DaemonTypeOK, OneIsUp, Settled, Edits
  <2> QED BY <2>1, <2>2, <2>3, <2>4, <2>5, <2>6 DEF DaemonInv
<1>14. ASSUME NEW d \in Daemons, Restarts(d) PROVE DaemonInv'
  <2>1. DaemonTypeOK'
    BY <1>14 DEF Restarts, DaemonInv, DaemonTypeOK, Stages, Edits
  <2>2. LockIsHeld'
    BY <1>14 DEF Restarts, DaemonInv, DaemonTypeOK, LockIsHeld, Leading
  <2>3. PathIsBound'
    BY <1>14 DEF Restarts, DaemonInv, DaemonTypeOK, LockIsHeld, PathIsBound, Leading
  <2>4. WorkersAreLed'
    BY <1>14 DEF Restarts, DaemonInv, DaemonTypeOK, WorkersAreLed
  <2>5. OneIsUp'
    BY <1>14 DEF Restarts, DaemonInv, DaemonTypeOK, OneIsUp
  <2>6. Settled'
    BY <1>14 DEF Restarts, DaemonInv, DaemonTypeOK, OneIsUp, Settled, Edits
  <2> QED BY <2>1, <2>2, <2>3, <2>4, <2>5, <2>6 DEF DaemonInv
<1>15. CASE UNCHANGED daemonVars
  BY <1>15 DEF daemonVars, DaemonInv, DaemonTypeOK, Stages, Edits, LockIsHeld, PathIsBound, WorkersAreLed, OneIsUp, Settled, Leading
<1> QED
  BY <1>1, <1>2, <1>3, <1>4, <1>5, <1>6, <1>7, <1>8, <1>9, <1>10, <1>11, <1>12, <1>13, <1>14, <1>15
  DEF DaemonNext

LEMMA DaemonInvShows == DaemonInv => DaemonsTakeTurns
<1> SUFFICES ASSUME DaemonInv PROVE DaemonsTakeTurns
  OBVIOUS
<1>1. PathLeadsToDaemon
  BY DEF DaemonInv, LockIsHeld, PathIsBound, Leading, PathLeadsToDaemon
<1>2. OneDaemonRenders
  BY DEF DaemonInv, LockIsHeld, WorkersAreLed, Leading, OneDaemonRenders
<1>3. SettingsSurvive
  BY DEF DaemonInv, Settled, Down, SettingsSurvive
<1> QED BY <1>1, <1>2, <1>3 DEF DaemonInv, DaemonsTakeTurns

-----------------------------------------------------------------------------
(* The settings.                                                           *)

\* Preferences of a display as the daemon holds them.
Stored ==
  [path : SUBSET STRING, fit : SUBSET Nat, mute : SUBSET BOOLEAN, fill : UnsetFill .. 3,
   focus : SUBSET (0 .. StopPlay), saved : SUBSET [path : STRING, props : STRING]]

Kept(prefs) ==
  /\ \E keys \in SUBSET Boards : prefs \in [keys -> Stored]
  /\ \A b \in DOMAIN prefs : ~EmptyPrefs(prefs[b])

\* A configuration the daemon can have.
Shaped(s) ==
  /\ s = [mute |-> s.mute, focus |-> s.focus, fit |-> s.fit, clone |-> s.clone, first |-> s.first, prefs |-> s.prefs]
  /\ s.focus \in 0 .. PauseAll /\ s.fit \in 1 .. 3 /\ Kept(s.prefs)

\* A payload or a file.
Asking(q) == q.focus \subseteq Int /\ q.fit \subseteq Int /\ \A object \in q.prefs : PerDisplay(object)

LEMMA GivenOne == \A x, f : Given({x}, f) = x
BY DEF Given

LEMMA GivenIn == ASSUME NEW opt, NEW f, opt # {} PROVE Given(opt, f) \in opt
BY DEF Given

LEMMA ClampedIn ==
  ASSUME NEW n \in Int, NEW lo \in Int, NEW hi \in Int, lo <= hi
  PROVE  Clamped(n, lo, hi) \in lo .. hi /\ (n \in lo .. hi => Clamped(n, lo, hi) = n)
BY DEF Clamped

LEMMA WithinIn ==
  ASSUME NEW opt \in SUBSET Int, NEW f, NEW lo \in Int, NEW hi \in Int, lo <= hi
  PROVE  Within3(opt, f, lo, hi) = f \/ Within3(opt, f, lo, hi) \in lo .. hi
<1>1. CASE opt = {}
  BY <1>1 DEF Within3
<1>2. CASE opt # {}
  <2>1. Given(opt, 0) \in Int
    BY <1>2, GivenIn
  <2>2. Within3(opt, f, lo, hi) = Clamped(Given(opt, 0), lo, hi)
    BY <1>2 DEF Within3
  <2> QED BY <2>1, <2>2, ClampedIn
<1> QED BY <1>1, <1>2

LEMMA WithinOne ==
  ASSUME NEW n \in Int, NEW f, NEW lo \in Int, NEW hi \in Int, lo <= hi, n \in lo .. hi
  PROVE  Within3({n}, f, lo, hi) = n
<1>1. Within3({n}, f, lo, hi) = Clamped(Given({n}, 0), lo, hi)
  BY DEF Within3
<1>2. Given({n}, 0) = n
  BY GivenOne
<1> QED BY <1>1, <1>2, ClampedIn

LEMMA FromEntryStored == ASSUME NEW e \in Entries PROVE FromEntry(e) \in Stored
<1> DEFINE fill  == Within3(e.fill, UnsetFill, 0, 3)
           focus == {Clamped(n, 0, StopPlay) : n \in e.focus}
<1>1. e.fill \in SUBSET Int /\ e.focus \in SUBSET Int
  BY DEF Entries
<1>2. fill \in UnsetFill .. 3
  <2>1. fill = UnsetFill \/ fill \in 0 .. 3
    BY <1>1, WithinIn
  <2> QED BY <2>1 DEF UnsetFill
<1>3. focus \in SUBSET (0 .. StopPlay)
  <2>1. \A n \in Int : Clamped(n, 0, StopPlay) \in 0 .. StopPlay
    BY DEF Clamped, StopPlay
  <2> QED BY <1>1, <2>1
<1>4. FromEntry(e) = [e EXCEPT !.fill = fill, !.focus = focus]
  BY DEF FromEntry
<1> HIDE DEF fill, focus
<1> QED BY <1>2, <1>3, <1>4 DEF Entries, Stored

LEMMA FromToEntry == ASSUME NEW p \in Stored PROVE FromEntry(ToEntry(p)) = p
<1> DEFINE e == ToEntry(p)
<1>1. p.fill \in Int /\ p.fill \in UnsetFill .. 3 /\ p.focus \in SUBSET (0 .. StopPlay)
  BY DEF Stored, UnsetFill
<1>2. e = [p EXCEPT !.fill = {p.fill} \ {UnsetFill}]
  BY DEF ToEntry
<1>3. e.fill = {p.fill} \ {UnsetFill} /\ e.focus = p.focus
  BY <1>2 DEF Stored
<1>4. Within3(e.fill, UnsetFill, 0, 3) = p.fill
  <2>1. CASE p.fill = UnsetFill
    <3>1. e.fill = {}
      BY <1>3, <2>1
    <3> QED BY <2>1, <3>1 DEF Within3
  <2>2. CASE p.fill # UnsetFill
    <3>1. e.fill = {p.fill}
      BY <1>3, <2>2
    <3>2. p.fill \in 0 .. 3
      BY <1>1, <2>2 DEF UnsetFill
    <3>3. Within3({p.fill}, UnsetFill, 0, 3) = p.fill
      BY <1>1, <3>2, WithinOne
    <3> QED BY <3>1, <3>3
  <2> QED BY <2>1, <2>2
<1>5. {Clamped(n, 0, StopPlay) : n \in e.focus} = p.focus
  <2>1. \A n \in p.focus : Clamped(n, 0, StopPlay) = n
    BY <1>1 DEF Clamped, StopPlay
  <2> QED BY <1>3, <2>1
<1>6. FromEntry(e) = [e EXCEPT !.fill = p.fill, !.focus = p.focus]
  BY <1>4, <1>5 DEF FromEntry
<1> HIDE DEF e
<1>7. FromEntry(e) = p
  BY <1>2, <1>6 DEF Stored
<1> QED BY <1>7 DEF e

LEMMA PrefsKept == ASSUME NEW object, PerDisplay(object) PROVE Kept(Prefs(object))
<1>1. PICK keys \in SUBSET Boards : object \in [keys -> Entries]
  BY DEF PerDisplay
<1> DEFINE kept == {b \in DOMAIN object : ~EmptyPrefs(FromEntry(object[b]))}
<1>2. Prefs(object) = [b \in kept |-> FromEntry(object[b])]
  BY DEF Prefs
<1>3. kept \in SUBSET Boards /\ \A b \in kept : object[b] \in Entries /\ ~EmptyPrefs(FromEntry(object[b]))
  BY <1>1
<1> HIDE DEF kept
<1>4. \A b \in kept : FromEntry(object[b]) \in Stored
  BY <1>3, FromEntryStored
<1>5. Prefs(object) \in [kept -> Stored]
  BY <1>2, <1>4
<1>6. \A b \in DOMAIN Prefs(object) : ~EmptyPrefs(Prefs(object)[b])
  BY <1>2, <1>3
<1> QED BY <1>3, <1>5, <1>6 DEF Kept

LEMMA DefaultsShaped == Shaped(Defaults)
<1>1. << >> \in [{} -> Stored] /\ DOMAIN << >> = {}
  OBVIOUS
<1>2. Kept(<< >>)
  BY <1>1 DEF Kept
<1>3. /\ Defaults.focus = 0 /\ Defaults.fit = 1 /\ Defaults.prefs = << >>
      /\ Defaults = [mute |-> Defaults.mute, focus |-> Defaults.focus, fit |-> Defaults.fit,
                     clone |-> Defaults.clone, first |-> Defaults.first, prefs |-> Defaults.prefs]
  BY Zenon DEF Defaults
<1>4. Defaults.focus \in 0 .. PauseAll /\ Defaults.fit \in 1 .. 3
  BY <1>3 DEF PauseAll
<1> QED BY <1>2, <1>3, <1>4 DEF Shaped

LEMMA TakenShaped == ASSUME NEW s, Shaped(s), NEW q, Asking(q) PROVE Shaped(Taken(s, q))
<1> DEFINE t == Taken(s, q)
<1>1. s.focus \in 0 .. PauseAll /\ s.fit \in 1 .. 3 /\ Kept(s.prefs)
  BY DEF Shaped
<1>2. /\ t.focus = Within3(q.focus, s.focus, 0, PauseAll) /\ t.fit = Within3(q.fit, s.fit, 1, 3)
      /\ t.prefs = IF q.prefs = {} THEN s.prefs ELSE Prefs(Given(q.prefs, << >>))
      /\ t = [mute |-> t.mute, focus |-> t.focus, fit |-> t.fit, clone |-> t.clone, first |-> t.first, prefs |-> t.prefs]
  BY Zenon DEF Taken
<1> HIDE DEF t
<1>3. t.focus \in 0 .. PauseAll
  <2>1. t.focus = s.focus \/ t.focus \in 0 .. PauseAll
    BY <1>2, WithinIn DEF Asking, PauseAll
  <2> QED BY <1>1, <2>1
<1>4. t.fit \in 1 .. 3
  <2>1. t.fit = s.fit \/ t.fit \in 1 .. 3
    BY <1>2, WithinIn DEF Asking
  <2> QED BY <1>1, <2>1
<1>5. Kept(t.prefs)
  <2>1. CASE q.prefs = {}
    BY <1>1, <1>2, <2>1
  <2>2. CASE q.prefs # {}
    <3>1. PerDisplay(Given(q.prefs, << >>))
      BY <2>2, GivenIn DEF Asking
    <3> QED BY <1>2, <2>2, <3>1, PrefsKept
  <2> QED BY <2>1, <2>2
<1>6. Shaped(t)
  BY <1>2, <1>3, <1>4, <1>5 DEF Shaped
<1> QED BY <1>6 DEF t

LEMMA ReadShaped ==
  ASSUME NEW file \in Files PROVE Shaped(Read(file))
<1>1. CASE file = {}
  BY <1>1, DefaultsShaped DEF Read
<1>2. CASE file # {}
  <2> DEFINE q == Given(file, 0)
  <2>1. q \in file
    BY <1>2, GivenIn
  <2>2. Asking(q)
    BY <2>1, ConfigAssumption DEF Asking
  <2>3. Read(file) = IF q.pauseOnFocus THEN [Taken(Defaults, q) EXCEPT !.focus = PauseAll] ELSE Taken(Defaults, q)
    BY <1>2 DEF Read
  <2> HIDE DEF q
  <2>4. Shaped(Taken(Defaults, q))
    BY <2>2, DefaultsShaped, TakenShaped
  <2>5. Shaped([Taken(Defaults, q) EXCEPT !.focus = PauseAll])
    <3> DEFINE s == Taken(Defaults, q)
    <3>1. Shaped(s)
      BY <2>4
    <3> HIDE DEF s
    <3> DEFINE t == [s EXCEPT !.focus = PauseAll]
    <3>2. s = [mute |-> s.mute, focus |-> s.focus, fit |-> s.fit, clone |-> s.clone, first |-> s.first, prefs |-> s.prefs]
      BY <3>1 DEF Shaped
    <3>3. /\ t.focus = PauseAll /\ t.fit = s.fit /\ t.prefs = s.prefs
          /\ t = [mute |-> t.mute, focus |-> t.focus, fit |-> t.fit, clone |-> t.clone, first |-> t.first, prefs |-> t.prefs]
      BY <3>2
    <3> HIDE DEF t
    <3>4. Shaped(t)
      BY <3>1, <3>3 DEF Shaped, PauseAll
    <3> QED BY <3>4 DEF t, s
  <2> QED BY <2>3, <2>4, <2>5
<1> QED BY <1>1, <1>2

\* What is written is read back.
LEMMA ReadJson == ASSUME NEW s, Shaped(s) PROVE Read(Json(s)) = s
<1>1. PICK keys \in SUBSET Boards : s.prefs \in [keys -> Stored]
  BY DEF Shaped, Kept
<1>2. DOMAIN s.prefs = keys /\ \A b \in keys : s.prefs[b] \in Stored /\ ~EmptyPrefs(s.prefs[b])
  BY <1>1 DEF Shaped, Kept
<1> DEFINE f == [b \in keys |-> ToEntry(s.prefs[b])]
           q == [mute |-> {s.mute}, focus |-> {s.focus}, fit |-> {s.fit}, clone |-> {s.clone}, first |-> {s.first},
                 prefs |-> {f}, pauseOnFocus |-> FALSE]
<1>3. Json(s) = {q}
  <2>1. {b \in DOMAIN s.prefs : ~EmptyPrefs(s.prefs[b])} = keys
    BY <1>2
  <2> QED BY <2>1, Zenon DEF Json
<1>4. DOMAIN f = keys /\ \A b \in keys : FromEntry(f[b]) = s.prefs[b]
  BY <1>2, FromToEntry
<1>5. /\ q.mute = {s.mute} /\ q.focus = {s.focus} /\ q.fit = {s.fit} /\ q.clone = {s.clone}
      /\ q.first = {s.first} /\ q.prefs = {f} /\ ~q.pauseOnFocus
  BY Zenon
<1> HIDE DEF f, q
<1>6. Prefs(f) = s.prefs
  <2>1. {b \in DOMAIN f : ~EmptyPrefs(FromEntry(f[b]))} = keys
    BY <1>2, <1>4
  <2>2. Prefs(f) = [b \in keys |-> FromEntry(f[b])]
    BY <2>1, Zenon DEF Prefs
  <2> QED BY <1>1, <1>4, <2>2
<1>7. Read({q}) = Taken(Defaults, q)
  <2>1. Given({q}, 0) = q /\ {q} # {}
    BY GivenOne
  <2> QED BY <1>5, <2>1, Zenon DEF Read
<1>8. Within3(q.focus, Defaults.focus, 0, PauseAll) = s.focus
  <2>1. s.focus \in Int /\ s.focus \in 0 .. PauseAll /\ 0 <= PauseAll /\ PauseAll \in Int
    BY DEF Shaped, PauseAll
  <2> QED BY <1>5, <2>1, WithinOne
<1>9. Within3(q.fit, Defaults.fit, 1, 3) = s.fit
  <2>1. s.fit \in Int /\ s.fit \in 1 .. 3
    BY DEF Shaped
  <2> QED BY <1>5, <2>1, WithinOne
<1>10. /\ Given(q.mute, Defaults.mute) = s.mute /\ Given(q.clone, Defaults.clone) = s.clone
       /\ Given(q.first, Defaults.first) = s.first /\ q.prefs # {} /\ Given(q.prefs, << >>) = f
  BY <1>5, GivenOne
<1>11. Taken(Defaults, q) =
         [mute |-> s.mute, focus |-> s.focus, fit |-> s.fit, clone |-> s.clone, first |-> s.first, prefs |-> s.prefs]
  BY <1>6, <1>8, <1>9, <1>10, Zenon DEF Taken
<1> QED BY <1>3, <1>7, <1>11 DEF Shaped

LEMMA SnapshotSame == ASSUME NEW s, Shaped(s) PROVE Snapshot(s) = s.prefs
<1>1. PICK keys \in SUBSET Boards : s.prefs \in [keys -> Stored]
  BY DEF Shaped, Kept
<1>2. \A b \in keys : FromEntry(ToEntry(s.prefs[b])) = s.prefs[b]
  BY <1>1, FromToEntry
<1> QED BY <1>1, <1>2 DEF Snapshot

-----------------------------------------------------------------------------
\* Two fits of a display's own that compare equal are the same to a renderer.
LEMMA SameFit ==
  ASSUME NEW o \in SUBSET Nat, NEW p \in SUBSET Nat, Within3(o, -1, -1, 3) = Within3(p, -1, -1, 3), NEW f
  PROVE  Within3(o, f, 1, 3) = Within3(p, f, 1, 3)
<1>1. \A n \in Nat : Clamped(n, -1, 3) \in Nat
  BY DEF Clamped
<1>2. \A m, n \in Nat : Clamped(m, -1, 3) = Clamped(n, -1, 3) => Clamped(m, 1, 3) = Clamped(n, 1, 3)
  BY DEF Clamped
<1>3. ASSUME NEW w \in SUBSET Nat, w # {}
      PROVE  Given(w, 0) \in Nat /\ \A g, lo, hi : Within3(w, g, lo, hi) = Clamped(Given(w, 0), lo, hi)
  BY <1>3, GivenIn DEF Within3
<1>4. \A g, lo, hi : Within3({}, g, lo, hi) = g
  BY DEF Within3
<1>5. CASE o = {} /\ p = {}
  BY <1>5
<1>6. CASE o # {} /\ p # {}
  BY <1>2, <1>3, <1>6
<1>7. CASE o = {} /\ p # {}
  BY <1>1, <1>3, <1>4, <1>7
<1>8. CASE o # {} /\ p = {}
  BY <1>1, <1>3, <1>4, <1>8
<1> QED BY <1>5, <1>6, <1>7, <1>8

\* What decides how display b looks: its wallpaper and its own fit, if any.
OwnPath(prefs, b) == IF b \in DOMAIN prefs THEN Given(prefs[b].path, "") ELSE ""
OwnFit(prefs, b)  == IF b \in DOMAIN prefs THEN prefs[b].fit ELSE {}

LEMMA LookOf ==
  ASSUME NEW s, NEW b, NEW h
  PROVE  /\ Look(For(s, b, h)) = << OwnPath(s.prefs, b), Within3(OwnFit(s.prefs, b), s.fit, 1, 3) >>
         /\ Contract(s.prefs, b) = << OwnPath(s.prefs, b), Within3(OwnFit(s.prefs, b), -1, -1, 3) >>
<1>1. \A g, lo, hi : Within3({}, g, lo, hi) = g
  BY DEF Within3
<1>2. CASE b \in DOMAIN s.prefs
  <2>1. For(s, b, h).path = Given(s.prefs[b].path, "") /\ For(s, b, h).fit = Within3(s.prefs[b].fit, s.fit, 1, 3)
    BY <1>2, Zenon DEF For
  <2> QED BY <1>2, <2>1, Zenon DEF Look, Contract, OwnPath, OwnFit
<1>3. CASE b \notin DOMAIN s.prefs
  <2>1. For(s, b, h).path = "" /\ For(s, b, h).fit = s.fit
    BY <1>3, Zenon DEF For
  <2>2. OwnPath(s.prefs, b) = "" /\ OwnFit(s.prefs, b) = {}
    BY <1>3 DEF OwnPath, OwnFit
  <2>3. Within3({}, s.fit, 1, 3) = s.fit /\ Within3({}, -1, -1, 3) = -1
    BY <1>1
  <2> QED BY <1>3, <2>1, <2>2, <2>3, Zenon DEF Look, Contract
<1> QED BY <1>2, <1>3

LEMMA OwnFitIn == ASSUME NEW s, Shaped(s), NEW b PROVE OwnFit(s.prefs, b) \in SUBSET Nat
<1>1. PICK keys \in SUBSET Boards : s.prefs \in [keys -> Stored]
  BY DEF Shaped, Kept
<1> QED BY <1>1 DEF OwnFit, Stored

\* A SET_STATE after which a display looks different rebinds.
LEMMA LookRebinds ==
  ASSUME NEW s, Shaped(s), NEW q, Asking(q), NEW b, NEW h,
         Look(For(s, b, h)) # Look(For(WithPayload(s, q), b, h))
  PROVE  NeedsRebind(s, q, WithPayload(s, q))
<1> DEFINE t == WithPayload(s, q)
<1> SUFFICES ASSUME ~NeedsRebind(s, q, t) PROVE FALSE
  OBVIOUS
<1>1. ~q.reset /\ (s.fit # t.fit => q.fit = {}) /\ (q.prefs # {} => ~ContractChanged(Snapshot(s), t))
  BY DEF NeedsRebind
<1>2. t = Taken(s, q)
  BY <1>1 DEF WithPayload
<1> HIDE DEF t
<1>3. Shaped(t)
  BY <1>2, TakenShaped
<1>4. /\ t.fit = Within3(q.fit, s.fit, 1, 3)
      /\ t.prefs = IF q.prefs = {} THEN s.prefs ELSE Prefs(Given(q.prefs, << >>))
  BY <1>2, Zenon DEF Taken
<1>5. t.fit = s.fit
  BY <1>1, <1>4 DEF Within3
<1>6. Look(For(s, b, h)) # Look(For(t, b, h))
  BY DEF t
<1>7. q.prefs # {}
  <2>1. CASE q.prefs = {}
    <3>1. t.prefs = s.prefs
      BY <1>4, <2>1
    <3> QED BY <1>5, <1>6, <3>1, LookOf
  <2> QED BY <2>1
<1>8. ~ContractChanged(s.prefs, t)
  BY <1>1, <1>7, SnapshotSame
<1>9. Contract(s.prefs, b) = Contract(t.prefs, b)
  <2>1. CASE b \in DOMAIN s.prefs \cup DOMAIN t.prefs
    BY <1>8, <2>1 DEF ContractChanged
  <2>2. CASE b \notin DOMAIN s.prefs \cup DOMAIN t.prefs
    BY <2>2 DEF Contract
  <2> QED BY <2>1, <2>2
<1>10. /\ OwnPath(s.prefs, b) = OwnPath(t.prefs, b)
       /\ Within3(OwnFit(s.prefs, b), -1, -1, 3) = Within3(OwnFit(t.prefs, b), -1, -1, 3)
  BY <1>9, LookOf
<1>11. OwnFit(s.prefs, b) \in SUBSET Nat /\ OwnFit(t.prefs, b) \in SUBSET Nat
  BY <1>3, OwnFitIn
<1>12. Within3(OwnFit(s.prefs, b), s.fit, 1, 3) = Within3(OwnFit(t.prefs, b), t.fit, 1, 3)
  BY <1>5, <1>10, <1>11, SameFit
<1> QED BY <1>6, <1>10, <1>12, LookOf

-----------------------------------------------------------------------------
\* Displays that have numbers of their own are found by them.
InLine(bs) == bs \in Seq(Boards) /\ \A i, j \in 1 .. Len(bs) : bs[i] = bs[j] => i = j
TagsDiffer(bs, ts) == \A b, c \in Range(bs) : ts[b] = ts[c] => b = c

LEMMA NumberedFinds ==
  ASSUME NEW bs, InLine(bs), NEW ts, TagsDiffer(bs, ts), NEW b \in Range(bs)
  PROVE  Numbered(ts[b], bs, ts) = b
<1>1. DOMAIN bs = 1 .. Len(bs) /\ Len(bs) \in Nat
  BY DEF InLine
<1>2. PICK i \in 1 .. Len(bs) : bs[i] = b
  BY <1>1 DEF Range
<1> DEFINE same == {j \in DOMAIN bs : ts[bs[j]] = ts[b]}
<1>3. \A j \in DOMAIN bs : bs[j] \in Range(bs)
  BY DEF Range
<1>4. same = {i}
  BY <1>1, <1>2, <1>3 DEF InLine, TagsDiffer
<1>5. Min({i}) = i
  BY <1>1 DEF Min
<1>6. Numbered(ts[b], bs, ts) = bs[Min(same)]
  BY <1>4 DEF Numbered
<1> QED BY <1>2, <1>4, <1>5, <1>6

\* The display that leaves is taken out, the others keep their order.
LEMMA RestListed ==
  ASSUME NEW bs, InLine(bs), NEW b \in Range(bs), NEW i \in DOMAIN bs, bs[i] = b
  PROVE  InLine(RemoveAt(bs, i)) /\ Range(RemoveAt(bs, i)) = Range(bs) \ {b}
<1>1. bs \in Seq(Boards) /\ Len(bs) \in Nat /\ DOMAIN bs = 1 .. Len(bs) /\ i \in 1 .. Len(bs)
  BY DEF InLine
<1> DEFINE u == RemoveAt(bs, i)
           front == SubSeq(bs, 1, i - 1)
           back == SubSeq(bs, i + 1, Len(bs))
<1>2. /\ front \in Seq(Boards) /\ Len(front) = i - 1 /\ \A j \in 1 .. i - 1 : front[j] = bs[j]
  BY <1>1
<1>3. /\ back \in Seq(Boards) /\ Len(back) = Len(bs) - i /\ \A j \in 1 .. Len(bs) - i : back[j] = bs[i + j]
  BY <1>1
<1>4. u = front \o back
  BY DEF RemoveAt
<1> HIDE DEF u, front, back
<1>5. /\ u \in Seq(Boards) /\ Len(u) = Len(front) + Len(back)
      /\ \A j \in 1 .. Len(front) + Len(back) : u[j] = IF j <= Len(front) THEN front[j] ELSE back[j - Len(front)]
  BY <1>2, <1>3, <1>4, ConcatProperties
<1>6. Len(u) = Len(bs) - 1 /\ DOMAIN u = 1 .. Len(bs) - 1
  BY <1>1, <1>2, <1>3, <1>5
<1>7. ASSUME NEW j \in 1 .. Len(bs) - 1 PROVE u[j] = IF j < i THEN bs[j] ELSE bs[j + 1]
  <2>1. CASE j < i
    <3>1. j \in 1 .. i - 1 /\ j <= Len(front) /\ j \in 1 .. Len(front) + Len(back)
      BY <1>1, <1>2, <1>3, <2>1
    <3> QED BY <1>2, <1>5, <2>1, <3>1
  <2>2. CASE ~(j < i)
    <3>1. /\ j - Len(front) \in 1 .. Len(bs) - i /\ ~(j <= Len(front)) /\ j \in 1 .. Len(front) + Len(back)
          /\ i + (j - Len(front)) = j + 1
      BY <1>1, <1>2, <1>3, <2>2
    <3>2. u[j] = back[j - Len(front)]
      BY <1>5, <3>1
    <3>3. back[j - Len(front)] = bs[i + (j - Len(front))]
      BY <1>3, <3>1
    <3> QED BY <2>2, <3>1, <3>2, <3>3
  <2> QED BY <2>1, <2>2
<1>8. \A j, k \in 1 .. Len(bs) : bs[j] = bs[k] => j = k
  BY DEF InLine
<1>9. ASSUME NEW j \in 1 .. Len(u), NEW k \in 1 .. Len(u), u[j] = u[k] PROVE j = k
  <2> DEFINE pos(m) == IF m < i THEN m ELSE m + 1
  <2>1. \A m \in 1 .. Len(bs) - 1 : pos(m) \in 1 .. Len(bs) /\ u[m] = bs[pos(m)]
    BY <1>1, <1>7
  <2>2. pos(j) = pos(k)
    BY <1>6, <1>8, <1>9, <2>1
  <2> QED BY <1>1, <1>6, <2>2
<1>10. InLine(u)
  BY <1>5, <1>9 DEF InLine
<1>11. ASSUME NEW c \in Range(bs), c # b PROVE c \in Range(u)
  <2>1. PICK j \in 1 .. Len(bs) : bs[j] = c
    BY <1>1 DEF Range
  <2>2. CASE j < i
    <3>1. j \in 1 .. Len(bs) - 1 /\ u[j] = c
      BY <1>1, <1>7, <2>1, <2>2
    <3> QED BY <1>6, <3>1 DEF Range
  <2>3. CASE j > i
    <3>1. j - 1 \in 1 .. Len(bs) - 1 /\ ~(j - 1 < i) /\ (j - 1) + 1 = j
      BY <1>1, <2>1, <2>3
    <3>2. u[j - 1] = c
      BY <1>7, <2>1, <3>1
    <3> QED BY <1>6, <3>1, <3>2 DEF Range
  <2> QED BY <1>1, <1>11, <2>1, <2>2, <2>3
<1>12. ASSUME NEW c \in Range(u) PROVE c \in Range(bs) /\ c # b
  <2>1. PICK j \in 1 .. Len(bs) - 1 : u[j] = c
    BY <1>6 DEF Range
  <2>2. CASE j < i
    <3>1. j \in 1 .. Len(bs) /\ bs[j] = c
      BY <1>1, <1>7, <2>1, <2>2
    <3>2. j # i
      BY <1>1, <2>2
    <3> QED BY <1>1, <1>8, <3>1, <3>2 DEF Range
  <2>3. CASE ~(j < i)
    <3>1. j + 1 \in 1 .. Len(bs) /\ bs[j + 1] = c /\ j + 1 # i
      BY <1>1, <1>7, <2>1, <2>3
    <3> QED BY <1>1, <1>8, <3>1 DEF Range
  <2> QED BY <2>2, <2>3
<1>13. Range(u) = Range(bs) \ {b}
  BY <1>11, <1>12
<1> QED BY <1>10, <1>13 DEF u

-----------------------------------------------------------------------------
\* Routes and numbers agree with the displays there are.
OwnRoutes(bs, ts, own) ==
  /\ \A b \in Boards : b \notin Range(bs) => own[b].tag = 0
  /\ \A b \in Range(bs) : own[b].tag = 0 \/ own[b].tag = ts[b]
ToldOwn(s, bs, h, own) == \A b \in Range(bs) : own[b].tag # 0 => own[b].to = For(s, b, h)

ConfigInv ==
  /\ Shaped(config) /\ Shaped(Read(onDisk)) /\ (~saveDue => onDisk = Json(config))
  /\ InLine(boards) /\ tags \in [Boards -> 1 .. 2] /\ DOMAIN owned = Boards
  /\ \A b \in Boards : b \notin Range(boards) => owned[b].tag = 0
  /\ ~mixed => TagsDiffer(boards, tags) /\ OwnRoutes(boards, tags, owned) /\ ToldOwn(config, boards, hushed, owned)
  /\ root.to = For(config, root.of, hushed)
  /\ ChangesRebind

LEMMA TellsThem ==
  ASSUME NEW s, NEW bs, NEW ts, NEW h, InLine(bs), ts \in [Boards -> 1 .. 2], TellsAll(s, bs, ts, h)
  PROVE  /\ DOMAIN owned' = Boards
         /\ \A b \in Boards : b \notin Range(bs) => owned'[b].tag = 0
         /\ TagsDiffer(bs, ts) /\ OwnRoutes(bs, ts, owned) => OwnRoutes(bs, ts, owned') /\ ToldOwn(s, bs, h, owned')
         /\ root'.to = For(s, root'.of, h)
<1> DEFINE alone  == IF s.clone THEN {} ELSE {b \in Range(bs) : HasPaper(s, b)}
           tag(b) == IF owned[b].tag # 0 THEN owned[b].tag ELSE ts[b]
<1>1. /\ owned' = [b \in Boards |->
                    IF b \in alone THEN [tag |-> tag(b), to |-> For(s, Numbered(tag(b), bs, ts), h)]
                    ELSE NoRouteOf]
      /\ root' = [of |-> Primary(s, bs), to |-> For(s, Primary(s, bs), h)]
  BY Zenon DEF TellsAll
<1>0. DOMAIN owned' = Boards
  BY <1>1
<1>2. root'.to = For(s, root'.of, h)
  <2>1. root'.to = For(s, Primary(s, bs), h) /\ root'.of = Primary(s, bs)
    BY <1>1, Zenon
  <2> QED BY <2>1
<1>3. alone \subseteq Range(bs) /\ Range(bs) \subseteq Boards
  BY DEF InLine, Range
<1> HIDE DEF alone
<1>4. NoRouteOf.tag = 0
  BY Zenon DEF NoRouteOf
<1>5. \A b \in Boards : b \notin alone => owned'[b] = NoRouteOf
  BY <1>1, Zenon
<1>6. \A b \in Boards : b \in alone =>
        owned'[b].tag = tag(b) /\ owned'[b].to = For(s, Numbered(tag(b), bs, ts), h)
  BY <1>1, Zenon
<1>7. \A b \in Boards : b \notin Range(bs) => owned'[b].tag = 0
  BY <1>3, <1>4, <1>5
<1>8. ASSUME TagsDiffer(bs, ts), OwnRoutes(bs, ts, owned)
      PROVE  OwnRoutes(bs, ts, owned') /\ ToldOwn(s, bs, h, owned')
  <2>1. \A b \in Range(bs) : tag(b) = ts[b]
    BY <1>8 DEF OwnRoutes
  <2>2. \A b \in Range(bs) : Numbered(ts[b], bs, ts) = b
    BY <1>8, NumberedFinds
  <2> HIDE DEF tag
  <2>3. ASSUME NEW b \in Range(bs)
        PROVE  /\ owned'[b].tag = 0 \/ owned'[b].tag = ts[b]
               /\ owned'[b].tag # 0 => owned'[b].to = For(s, b, h)
    <3>1. b \in Boards /\ tag(b) = ts[b] /\ Numbered(ts[b], bs, ts) = b
      BY <1>3, <2>1, <2>2
    <3>2. CASE b \in alone
      <4>1. owned'[b].tag = tag(b) /\ owned'[b].to = For(s, Numbered(tag(b), bs, ts), h)
        BY <1>6, <3>1, <3>2
      <4> QED BY <3>1, <4>1
    <3>3. CASE b \notin alone
      BY <1>4, <1>5, <3>1, <3>3
    <3> QED BY <3>2, <3>3
  <2> QED BY <1>7, <2>3 DEF OwnRoutes, ToldOwn
<1> QED BY <1>0, <1>2, <1>7, <1>8

LEMMA ConfigInitInv == ConfigInit => ConfigInv
<1> SUFFICES ASSUME ConfigInit PROVE ConfigInv
  OBVIOUS
<1>1. PICK file \in Files :
        /\ config = Read(file) /\ onDisk = Json(Read(file)) /\ saveDue = FALSE
        /\ boards = << >> /\ tags = [b \in Boards |-> 1] /\ hushed = FALSE
        /\ owned = [b \in Boards |-> NoRouteOf]
        /\ root = [of |-> "none", to |-> For(Read(file), "none", FALSE)]
        /\ mixed = FALSE /\ answered = [changed |-> FALSE, rebinds |-> FALSE] /\ asked = 0
  BY Zenon DEF ConfigInit
<1>2. Shaped(config) /\ Read(onDisk) = config /\ onDisk = Json(config)
  BY <1>1, ReadShaped, ReadJson
<1>3. InLine(boards) /\ Range(boards) = {}
  BY <1>1 DEF InLine, Range
<1>4. tags \in [Boards -> 1 .. 2]
  BY <1>1
<1>5. DOMAIN owned = Boards /\ \A b \in Boards : owned[b].tag = 0
  <2>1. NoRouteOf.tag = 0
    BY Zenon DEF NoRouteOf
  <2> QED BY <1>1, <2>1
<1>6. root.to = For(config, root.of, hushed)
  <2>1. root.to = For(Read(file), "none", FALSE) /\ root.of = "none"
    BY <1>1, Zenon
  <2> QED BY <1>1, <2>1
<1>7. ChangesRebind
  BY <1>1, Zenon DEF ChangesRebind
<1>8. TagsDiffer(boards, tags) /\ OwnRoutes(boards, tags, owned) /\ ToldOwn(config, boards, hushed, owned)
  BY <1>3, <1>5 DEF TagsDiffer, OwnRoutes, ToldOwn
<1> QED BY <1>2, <1>3, <1>4, <1>5, <1>6, <1>7, <1>8 DEF ConfigInv

\* A request that changes the configuration tells every route of it.
LEMMA RetoldInv ==
  ASSUME ConfigInv, NEW next, Shaped(next), config' = next, TellsAll(next, boards, tags, hushed),
         saveDue' = TRUE, UNCHANGED << onDisk, boards, tags, hushed, mixed >>, ChangesRebind'
  PROVE  ConfigInv'
<1>1. InLine(boards) /\ tags \in [Boards -> 1 .. 2]
  BY DEF ConfigInv
<1>2. /\ DOMAIN owned' = Boards
      /\ \A b \in Boards : b \notin Range(boards) => owned'[b].tag = 0
      /\ TagsDiffer(boards, tags) /\ OwnRoutes(boards, tags, owned) =>
           OwnRoutes(boards, tags, owned') /\ ToldOwn(next, boards, hushed, owned')
      /\ root'.to = For(next, root'.of, hushed)
  BY <1>1, TellsThem
<1>3. Shaped(Read(onDisk)) /\ (~mixed => TagsDiffer(boards, tags) /\ OwnRoutes(boards, tags, owned))
  BY DEF ConfigInv
<1> QED BY <1>1, <1>2, <1>3 DEF ConfigInv

LEMMA FitShaped ==
  ASSUME NEW s, Shaped(s), NEW n \in Int PROVE Shaped([s EXCEPT !.fit = Clamped(n, 1, 3)])
<1> DEFINE t == [s EXCEPT !.fit = Clamped(n, 1, 3)]
<1>1. s = [mute |-> s.mute, focus |-> s.focus, fit |-> s.fit, clone |-> s.clone, first |-> s.first, prefs |-> s.prefs]
  BY DEF Shaped
<1>2. /\ t.focus = s.focus /\ t.fit = Clamped(n, 1, 3) /\ t.prefs = s.prefs
      /\ t = [mute |-> t.mute, focus |-> t.focus, fit |-> t.fit, clone |-> t.clone, first |-> t.first, prefs |-> t.prefs]
  BY <1>1
<1> HIDE DEF t
<1>3. t.fit \in 1 .. 3
  <2>1. Clamped(n, 1, 3) \in 1 .. 3
    BY DEF Clamped
  <2> QED BY <1>2, <2>1
<1>4. Shaped(t)
  BY <1>2, <1>3 DEF Shaped
<1> QED BY <1>4 DEF t

LEMMA MuteShaped ==
  ASSUME NEW s, Shaped(s), NEW m PROVE Shaped([s EXCEPT !.mute = m])
<1> DEFINE t == [s EXCEPT !.mute = m]
<1>1. s = [mute |-> s.mute, focus |-> s.focus, fit |-> s.fit, clone |-> s.clone, first |-> s.first, prefs |-> s.prefs]
  BY DEF Shaped
<1>2. /\ t.focus = s.focus /\ t.fit = s.fit /\ t.prefs = s.prefs
      /\ t = [mute |-> t.mute, focus |-> t.focus, fit |-> t.fit, clone |-> t.clone, first |-> t.first, prefs |-> t.prefs]
  BY <1>1
<1> HIDE DEF t
<1>3. Shaped(t)
  BY <1>2 DEF Shaped
<1> QED BY <1>3 DEF t

LEMMA PayloadShaped ==
  ASSUME NEW s, Shaped(s), NEW q, Asking(q) PROVE Shaped(WithPayload(s, q))
BY DefaultsShaped, TakenShaped DEF WithPayload

\* A daemon that starts has what the file says and no display.
LEMMA StartedInv ==
  ASSUME NEW file, Shaped(Read(file)), Started(file), tags' = tags, tags \in [Boards -> 1 .. 2] PROVE ConfigInv'
<1>1. /\ config' = Read(file) /\ onDisk' = Json(Read(file)) /\ saveDue' = FALSE
      /\ boards' = << >> /\ hushed' = FALSE /\ owned' = [b \in Boards |-> NoRouteOf]
      /\ root' = [of |-> "none", to |-> For(Read(file), "none", FALSE)]
      /\ mixed' = FALSE /\ answered' = [changed |-> FALSE, rebinds |-> FALSE]
  BY Zenon DEF Started
<1>2. Shaped(config') /\ Shaped(Read(onDisk')) /\ onDisk' = Json(config')
  BY <1>1, ReadJson
<1>3. InLine(boards') /\ Range(boards') = {}
  BY <1>1 DEF InLine, Range
<1>4. DOMAIN owned' = Boards /\ \A b \in Boards : owned'[b].tag = 0
  <2>1. NoRouteOf.tag = 0
    BY Zenon DEF NoRouteOf
  <2> QED BY <1>1, <2>1
<1>5. root'.to = For(config', root'.of, hushed')
  <2>1. root'.to = For(Read(file), "none", FALSE) /\ root'.of = "none"
    BY <1>1, Zenon
  <2> QED BY <1>1, <2>1
<1>6. ChangesRebind'
  BY <1>1, Zenon DEF ChangesRebind
<1>7. TagsDiffer(boards', tags') /\ OwnRoutes(boards', tags', owned') /\ ToldOwn(config', boards', hushed', owned')
  BY <1>3, <1>4 DEF TagsDiffer, OwnRoutes, ToldOwn
<1> QED BY <1>2, <1>3, <1>4, <1>5, <1>6, <1>7 DEF ConfigInv

LEMMA ConfigInvStep == ConfigInv /\ [ConfigNext]_configVars => ConfigInv'
<1> SUFFICES ASSUME ConfigInv, [ConfigNext]_configVars PROVE ConfigInv'
  OBVIOUS
<1>1. /\ Shaped(config) /\ Shaped(Read(onDisk)) /\ (~saveDue => onDisk = Json(config))
      /\ InLine(boards) /\ tags \in [Boards -> 1 .. 2] /\ DOMAIN owned = Boards
      /\ \A b \in Boards : b \notin Range(boards) => owned[b].tag = 0
      /\ root.to = For(config, root.of, hushed)
      /\ ChangesRebind
  BY DEF ConfigInv
<1>2. ~mixed => TagsDiffer(boards, tags) /\ OwnRoutes(boards, tags, owned) /\ ToldOwn(config, boards, hushed, owned)
  BY DEF ConfigInv
<1>3. Range(boards) \subseteq Boards
  BY <1>1 DEF InLine, Range
<1>4. ASSUME UNCHANGED << answered, mixed >> PROVE ChangesRebind'
  BY <1>1, <1>4 DEF ChangesRebind
<1>5. ASSUME NEW q \in Payloads, SetsState(q) PROVE ConfigInv'
  <2> DEFINE next == WithPayload(config, q)
  <2>1. UNCHANGED << onDisk, boards, tags, hushed, mixed >>
    BY <1>5 DEF SetsState
  <2>2. CASE q.wrong
    <3>1. UNCHANGED << config, saveDue, owned, root, answered >>
      BY <1>5, <2>2 DEF SetsState
    <3> QED BY <1>1, <1>2, <1>4, <2>1, <3>1 DEF ConfigInv
  <2>3. CASE ~q.wrong
    <3>1. /\ config' = next /\ saveDue' = TRUE /\ TellsAll(next, boards, tags, hushed)
          /\ answered' = [changed |-> \E b \in Boards : owned[b].tag # 0 /\ owned'[b].tag # 0
                                        /\ Look(owned[b].to) # Look(owned'[b].to),
                          rebinds |-> NeedsRebind(config, q, next)]
      BY <1>5, <2>3 DEF SetsState
    <3>2. Asking(q)
      BY ConfigAssumption DEF Asking
    <3>3. Shaped(next)
      BY <1>1, <3>2, PayloadShaped
    <3>4. ChangesRebind'
      <4> SUFFICES ASSUME answered'.changed, ~mixed' PROVE answered'.rebinds
        BY DEF ChangesRebind
      <4>1. PICK b \in Boards : owned[b].tag # 0 /\ owned'[b].tag # 0 /\ Look(owned[b].to) # Look(owned'[b].to)
        BY <3>1, Zenon
      <4>2. b \in Range(boards) /\ ~mixed
        BY <1>1, <2>1, <4>1
      <4>3. owned[b].to = For(config, b, hushed)
        BY <1>2, <4>1, <4>2 DEF ToldOwn
      <4>4. ToldOwn(next, boards, hushed, owned')
        BY <1>1, <1>2, <3>1, <4>2, TellsThem
      <4>5. owned'[b].to = For(next, b, hushed)
        BY <4>1, <4>2, <4>4 DEF ToldOwn
      <4>6. NeedsRebind(config, q, next)
        BY <1>1, <3>2, <4>1, <4>3, <4>5, LookRebinds
      <4> QED BY <3>1, <4>6, Zenon
    <3> HIDE DEF next
    <3> QED BY <2>1, <3>1, <3>3, <3>4, RetoldInv
  <2> QED BY <2>2, <2>3
<1>6. ASSUME NEW m \in BOOLEAN, SetsMuted(m) PROVE ConfigInv'
  <2> DEFINE next == [config EXCEPT !.mute = m]
  <2>1. /\ config' = next /\ TellsAll(next, boards, tags, hushed) /\ saveDue' = TRUE
        /\ UNCHANGED << onDisk, boards, tags, hushed, mixed, answered >>
    BY <1>6 DEF SetsMuted
  <2>2. Shaped(next)
    BY <1>1, MuteShaped
  <2> HIDE DEF next
  <2> QED BY <1>4, <2>1, <2>2, RetoldInv
<1>7. ASSUME NEW n \in {0, 2}, SetsFit(n) PROVE ConfigInv'
  <2> DEFINE next == [config EXCEPT !.fit = Clamped(n, 1, 3)]
  <2>1. /\ config' = next /\ TellsAll(next, boards, tags, hushed) /\ saveDue' = TRUE
        /\ UNCHANGED << onDisk, boards, tags, hushed, mixed, answered >>
    BY <1>7 DEF SetsFit
  <2>2. n \in Int
    BY <1>7
  <2>3. Shaped(next)
    BY <1>1, <2>2, FitShaped
  <2> HIDE DEF next
  <2> QED BY <1>4, <2>1, <2>3, RetoldInv
<1>8. ASSUME NEW b \in Boards, NEW n \in 1 .. 2, BoardRegisters(b, n) PROVE ConfigInv'
  <2>1. /\ b \notin Range(boards) /\ boards' = Append(boards, b) /\ tags' = [tags EXCEPT ![b] = n]
        /\ TellsAll(config, boards', tags', hushed)
        /\ mixed' = (mixed \/ \E c \in Range(boards) : tags[c] = n)
        /\ UNCHANGED << config, onDisk, saveDue, hushed, answered >>
    BY <1>8 DEF BoardRegisters
  <2>2. InLine(boards') /\ Range(boards') = Range(boards) \cup {b}
    <3>1. boards \in Seq(Boards) /\ Len(boards) \in Nat /\ DOMAIN boards = 1 .. Len(boards)
      BY <1>1 DEF InLine
    <3>2. /\ boards' \in Seq(Boards) /\ Len(boards') = Len(boards) + 1 /\ DOMAIN boards' = 1 .. Len(boards) + 1
          /\ boards'[Len(boards) + 1] = b /\ \A i \in 1 .. Len(boards) : boards'[i] = boards[i]
      BY <2>1, <3>1
    <3>3. \A i \in 1 .. Len(boards) : boards[i] \in Range(boards) /\ boards[i] # b
      BY <2>1, <3>1 DEF Range
    <3>4. \A i \in 1 .. Len(boards) + 1 : i \in 1 .. Len(boards) \/ i = Len(boards) + 1
      BY <3>1
    <3>5. \A i, j \in 1 .. Len(boards') : boards'[i] = boards'[j] => i = j
      BY <1>1, <3>2, <3>3, <3>4 DEF InLine
    <3>6. ASSUME NEW c PROVE c \in Range(boards') <=> c \in Range(boards) \/ c = b
      BY <3>1, <3>2, <3>4 DEF Range
    <3> QED BY <3>2, <3>5, <3>6 DEF InLine
  <2>3. tags' \in [Boards -> 1 .. 2] /\ tags'[b] = n /\ \A c \in Boards : c # b => tags'[c] = tags[c]
    BY <1>1, <2>1
  <2>4. owned[b].tag = 0
    BY <1>1, <2>1
  <2>5. ASSUME ~mixed' PROVE TagsDiffer(boards', tags') /\ OwnRoutes(boards', tags', owned)
    <3>1. TagsDiffer(boards, tags) /\ OwnRoutes(boards, tags, owned) /\ \A c \in Range(boards) : tags[c] # n
      BY <1>2, <2>1, <2>5
    <3>2. TagsDiffer(boards', tags')
      BY <1>3, <2>1, <2>2, <2>3, <3>1 DEF TagsDiffer
    <3>3. OwnRoutes(boards', tags', owned)
      BY <1>1, <1>3, <2>1, <2>2, <2>3, <2>4, <3>1 DEF OwnRoutes
    <3> QED BY <3>2, <3>3
  <2>6. /\ DOMAIN owned' = Boards
        /\ \A c \in Boards : c \notin Range(boards') => owned'[c].tag = 0
        /\ TagsDiffer(boards', tags') /\ OwnRoutes(boards', tags', owned) =>
             OwnRoutes(boards', tags', owned') /\ ToldOwn(config, boards', hushed, owned')
        /\ root'.to = For(config, root'.of, hushed)
    BY <2>1, <2>2, <2>3, TellsThem
  <2>7. ChangesRebind'
    BY <1>1, <2>1 DEF ChangesRebind
  <2> QED BY <1>1, <2>1, <2>2, <2>3, <2>5, <2>6, <2>7 DEF ConfigInv
<1>9. ASSUME NEW b \in Boards, NEW n \in 1 .. 2, BoardRenumbered(b, n) PROVE ConfigInv'
  <2>1. /\ tags' = [tags EXCEPT ![b] = n] /\ TellsAll(config, boards, tags', hushed) /\ mixed' = TRUE
        /\ UNCHANGED << config, onDisk, saveDue, boards, hushed, answered >>
    BY <1>9 DEF BoardRenumbered
  <2>2. tags' \in [Boards -> 1 .. 2]
    BY <1>1, <2>1
  <2>3. /\ DOMAIN owned' = Boards
        /\ \A c \in Boards : c \notin Range(boards) => owned'[c].tag = 0
        /\ root'.to = For(config, root'.of, hushed)
    BY <1>1, <2>1, <2>2, TellsThem
  <2>4. ChangesRebind'
    BY <2>1 DEF ChangesRebind
  <2> QED BY <1>1, <2>1, <2>2, <2>3, <2>4 DEF ConfigInv
<1>10. ASSUME NEW b \in Boards, BoardLeaves(b) PROVE ConfigInv'
  <2>1. /\ b \in Range(boards)
        /\ boards' = RemoveAt(boards, CHOOSE i \in DOMAIN boards : boards[i] = b)
        /\ owned' = [owned EXCEPT ![b] = NoRouteOf]
        /\ UNCHANGED << config, onDisk, saveDue, tags, hushed, root, mixed, answered >>
    BY <1>10 DEF BoardLeaves
  <2>2. PICK i \in DOMAIN boards : boards[i] = b /\ boards' = RemoveAt(boards, i)
    BY <2>1 DEF Range
  <2>3. InLine(boards') /\ Range(boards') = Range(boards) \ {b}
    BY <1>1, <2>1, <2>2, RestListed
  <2>4. \A c \in Boards : c \notin Range(boards') => owned'[c].tag = 0
    <3>1. NoRouteOf.tag = 0
      BY Zenon DEF NoRouteOf
    <3> QED BY <1>1, <2>1, <2>3, <3>1
  <2>5. DOMAIN owned' = Boards /\ \A c \in Boards : c # b => owned'[c] = owned[c]
    BY <1>1, <2>1
  <2>6. ASSUME ~mixed' PROVE TagsDiffer(boards', tags') /\ OwnRoutes(boards', tags', owned') /\ ToldOwn(config', boards', hushed', owned')
    <3>1. TagsDiffer(boards, tags) /\ OwnRoutes(boards, tags, owned) /\ ToldOwn(config, boards, hushed, owned)
      BY <1>2, <2>1, <2>6
    <3>2. TagsDiffer(boards', tags')
      BY <2>1, <2>3, <3>1 DEF TagsDiffer
    <3>3. OwnRoutes(boards', tags', owned')
      BY <1>3, <2>1, <2>3, <2>4, <2>5, <3>1 DEF OwnRoutes
    <3>4. ToldOwn(config', boards', hushed', owned')
      BY <1>3, <2>1, <2>3, <2>5, <3>1 DEF ToldOwn
    <3> QED BY <3>2, <3>3, <3>4
  <2> QED BY <1>1, <1>4, <2>1, <2>3, <2>4, <2>5, <2>6 DEF ConfigInv
<1>11. ASSUME NEW h \in BOOLEAN, Hushes(h) PROVE ConfigInv'
  <2>1. /\ hushed' = h /\ TellsAll(config, boards, tags, h)
        /\ UNCHANGED << config, onDisk, saveDue, boards, tags, mixed, answered >>
    BY <1>11 DEF Hushes
  <2>2. /\ DOMAIN owned' = Boards
        /\ \A c \in Boards : c \notin Range(boards) => owned'[c].tag = 0
        /\ TagsDiffer(boards, tags) /\ OwnRoutes(boards, tags, owned) =>
             OwnRoutes(boards, tags, owned') /\ ToldOwn(config, boards, h, owned')
        /\ root'.to = For(config, root'.of, h)
    BY <1>1, <2>1, TellsThem
  <2> QED BY <1>1, <1>2, <1>4, <2>1, <2>2 DEF ConfigInv
<1>12. CASE SaveComes
  <2>1. /\ saveDue' = FALSE /\ onDisk' = Json(config)
        /\ UNCHANGED << config, boards, tags, hushed, owned, root, mixed, answered >>
    BY <1>12 DEF SaveComes
  <2>2. Shaped(Read(onDisk'))
    BY <1>1, <2>1, ReadJson
  <2> QED BY <1>1, <1>2, <1>4, <2>1, <2>2 DEF ConfigInv
<1>13. ASSUME NEW flushed \in BOOLEAN, StartsAgain(flushed) PROVE ConfigInv'
  <2> DEFINE file == IF flushed THEN Json(config) ELSE onDisk
  <2>1. Started(file) /\ tags' = tags
    BY <1>13 DEF StartsAgain
  <2>2. Shaped(Read(file))
    BY <1>1, ReadJson
  <2> HIDE DEF file
  <2> QED BY <1>1, <2>1, <2>2, StartedInv
<1>14. CASE UNCHANGED configVars
  BY <1>1, <1>2, <1>4, <1>14 DEF configVars, ConfigInv
<1> QED
  BY <1>5, <1>6, <1>7, <1>8, <1>9, <1>10, <1>11, <1>12, <1>13, <1>14, Zenon DEF ConfigNext

LEMMA ConfigInvShows == ConfigInv => SettingsObeyed
<1> SUFFICES ASSUME ConfigInv PROVE SettingsObeyed
  OBVIOUS
<1>1. Shaped(config) /\ InLine(boards)
  BY DEF ConfigInv
<1>2. ConfigTypeOK
  <2>1. Range(boards) \subseteq Boards
    BY <1>1 DEF InLine, Range
  <2>2. PICK keys \in SUBSET Boards : config.prefs \in [keys -> Stored]
    BY <1>1 DEF Shaped, Kept
  <2>3. \A b \in DOMAIN config.prefs : config.prefs[b].fill \in UnsetFill .. 3
    BY <2>2 DEF Stored
  <2> QED BY <1>1, <2>1, <2>2, <2>3 DEF ConfigTypeOK, Shaped
<1>3. RestartKeeps
  BY <1>1, ReadJson DEF RestartKeeps, ConfigInv
<1>4. RenderersKnow
  BY DEF RenderersKnow, ConfigInv, ToldOwn
<1> QED BY <1>2, <1>3, <1>4 DEF SettingsObeyed, ConfigInv
=============================================================================
