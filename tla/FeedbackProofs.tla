--------------------------- MODULE FeedbackProofs ---------------------------
(***************************************************************************)
(* The two loops that read what the server counted since their last tick   *)
(* and adjust what it does: hedge_feedback.rs, with the token budget it    *)
(* contracts, and the monitor of kafka_incident.rs, with the publisher     *)
(* whose drops it watches.                                                 *)
(*                                                                         *)
(* The budget, for any number of callers, any capacity and any shed rates: *)
(* no token is minted, and the clamps of restore and of the feedback loop, *)
(* which race, leave no more above the capacity than there were restores   *)
(* that loaded an older one.  The publisher, for any handlers, queue,      *)
(* sampling rate and dwell: every event is counted once, and the monitor   *)
(* flips on nothing less than a whole dwell of samples.                    *)
(***************************************************************************)
EXTENDS HedgeBudget, KafkaPublisher, FiniteSetTheorems, SequenceTheorems, TLAPS

-----------------------------------------------------------------------------
(* The hedge budget                                                        *)

(* Restores that have still to find out that they went above the capacity, *)
Late == {c \in Callers : phase[c] = "added" /\ new[c] > cap}

(* and those whose clamp will bring the tokens within it.                  *)
Corrects(c) == phase[c] = "clamp" /\ capSeen[c] <= cap

(* While nobody is about to correct it, an excess is made up of restores   *)
(* that have not looked yet and of those that looked and missed the store. *)
ExcessExplained ==
    fb # "clamp" /\ (\A c \in Callers : ~Corrects(c))
        => tokens <= cap + missed + Cardinality(Late)

(* The constants are numbers, and the capacity that set_load_shed_rate     *)
(* computes is one.                                                        *)
LEMMA EffectiveType ==
    ASSUME NEW t \in Nat, NEW s \in Nat
    PROVE  Effective(t, s) \in Nat
  BY HedgeAssumption DEF HedgeAssumption, Effective

(* The budget starts full.                                                 *)
LEMMA InitType == HedgeInit => HedgeTypeOK
  BY HedgeAssumption DEF HedgeAssumption, HedgeInit, HedgeTypeOK, Phases

(* Every step keeps the types; try_consume looks before it subtracts.      *)
LEMMA TypeStep == HedgeTypeOK /\ [HedgeNext]_hedgeVars => HedgeTypeOK'
<1> SUFFICES ASSUME HedgeTypeOK, [HedgeNext]_hedgeVars
             PROVE  HedgeTypeOK'
  OBVIOUS
<1> USE DEF HedgeTypeOK, Phases
<1>1. ASSUME NEW c \in Callers, Call(c) \/ TryConsume(c) \/ FirstReturns(c)
      PROVE  HedgeTypeOK'
  <2>1. CASE Call(c)
    BY <2>1 DEF Call, capacity, feedback
  <2>2. CASE TryConsume(c)
    BY <2>2 DEF TryConsume, capacity, feedback, tracker
  <2>3. CASE FirstReturns(c)
    BY <2>3 DEF FirstReturns, capacity, feedback, tracker
  <2>4. QED BY <1>1, <2>1, <2>2, <2>3
<1>2. ASSUME NEW c \in Callers, RestoreAdd(c) \/ RestoreLoad(c)
      PROVE  HedgeTypeOK'
  <2>1. CASE RestoreAdd(c)
    BY <2>1 DEF RestoreAdd, capacity, feedback, tracker
  <2>2. CASE RestoreLoad(c)
    BY <2>2 DEF RestoreLoad, capacity, feedback, tracker
  <2>3. QED BY <1>2, <2>1, <2>2
<1>3. ASSUME NEW c \in Callers, RestoreClamp(c)
      PROVE  HedgeTypeOK'
  BY <1>3 DEF RestoreClamp, Least, capacity, feedback, tracker
<1>4. ASSUME NEW c \in Callers, Timeout(c)
      PROVE  HedgeTypeOK'
  BY <1>4 DEF Timeout, capacity, feedback
<1>5. CASE TickRequests
  BY <1>5 DEF TickRequests, caller, capacity
<1>6. CASE SetCap
  BY <1>6, EffectiveType DEF SetCap, caller
<1>7. CASE ClampTokens
  BY <1>7 DEF ClampTokens, Least, caller, capacity, tracker
<1>8. CASE UNCHANGED hedgeVars
  BY <1>8 DEF hedgeVars, caller, capacity, feedback, tracker
<1>9. QED
  BY <1>1, <1>2, <1>3, <1>4, <1>5, <1>6, <1>7, <1>8 DEF HedgeNext, Step, Feedback

-----------------------------------------------------------------------------
(* How the set of hedges in flight changes                                 *)

(* The hedges in flight can be counted.                                    *)
LEMMA HoldersFinite == IsFiniteSet(Holders) /\ Cardinality(Holders) \in Nat
<1>1. Holders \in SUBSET Callers
  BY DEF Holders
<1>2. QED
  BY <1>1, FS_Subset, FS_CardinalityType, HedgeAssumption DEF HedgeAssumption

(* A caller that takes a token joins the holders.                          *)
LEMMA HolderJoins ==
    ASSUME HedgeTypeOK, NEW c \in Callers, phase[c] # "hedged",
           phase' = [phase EXCEPT ![c] = "hedged"]
    PROVE  Cardinality(Holders') = Cardinality(Holders) + 1
<1>1. Holders' = Holders \cup {c} /\ c \notin Holders
  BY DEF Holders, HedgeTypeOK
<1>2. QED
  BY <1>1, HoldersFinite, FS_AddElement

(* A caller that gives its token back or is dropped leaves them.           *)
LEMMA HolderLeaves ==
    ASSUME HedgeTypeOK, NEW c \in Callers, phase[c] = "hedged", NEW p, p # "hedged",
           phase' = [phase EXCEPT ![c] = p]
    PROVE  /\ Cardinality(Holders') = Cardinality(Holders) - 1
           /\ Cardinality(Holders') \in Nat
<1>1. Holders' = Holders \ {c} /\ c \in Holders
  BY DEF Holders, HedgeTypeOK
<1>2. IsFiniteSet(Holders') /\ Cardinality(Holders') = Cardinality(Holders) - 1
  BY <1>1, HoldersFinite, FS_RemoveElement
<1>3. QED
  BY <1>2, FS_CardinalityType

(* Any other move leaves the holders alone.                                *)
LEMMA HoldersKept ==
    ASSUME HedgeTypeOK, NEW c \in Callers, phase[c] # "hedged", NEW p, p # "hedged",
           phase' = [phase EXCEPT ![c] = p]
    PROVE  Holders' = Holders
  BY DEF Holders, HedgeTypeOK

(* No step mints a token.                                                  *)
LEMMA BoundStep == HedgeTypeOK /\ HedgesBounded /\ [HedgeNext]_hedgeVars => HedgesBounded'
<1> SUFFICES ASSUME HedgeTypeOK, HedgesBounded, [HedgeNext]_hedgeVars
             PROVE  HedgesBounded'
  OBVIOUS
<1> DEFINE n == Cardinality(Holders)
<1>n. n \in Nat /\ tokens \in Nat /\ leaked \in Nat /\ Nominal \in Nat
  BY HoldersFinite, HedgeAssumption DEF HedgeTypeOK, HedgeAssumption
<1>b. tokens + n + leaked <= Nominal
  BY DEF HedgesBounded
<1>1. ASSUME NEW c \in Callers, Call(c) \/ FirstReturns(c) \/ RestoreLoad(c)
      PROVE  HedgesBounded'
  <2>1. PICK p : p # "hedged" /\ phase' = [phase EXCEPT ![c] = p]
    BY <1>1 DEF Call, FirstReturns, RestoreLoad
  <2>2. phase[c] # "hedged" /\ UNCHANGED <<tokens, leaked>>
    BY <1>1 DEF Call, FirstReturns, RestoreLoad
  <2>3. Holders' = Holders
    BY <2>1, <2>2, HoldersKept
  <2>4. QED BY <2>2, <2>3 DEF HedgesBounded
<1>2. ASSUME NEW c \in Callers, TryConsume(c)
      PROVE  HedgesBounded'
  <2>1. CASE phase' = [phase EXCEPT ![c] = "hedged"] /\ tokens' = tokens - 1
    <3>1. Cardinality(Holders') = n + 1
      BY <1>2, <2>1, HolderJoins DEF TryConsume
    <3>2. QED BY <1>2, <1>n, <1>b, <2>1, <3>1 DEF HedgesBounded, TryConsume
  <2>2. CASE phase' = [phase EXCEPT ![c] = "blocked"] /\ UNCHANGED tokens
    <3>1. Holders' = Holders
      BY <1>2, <2>2, HoldersKept DEF TryConsume
    <3>2. QED BY <1>2, <2>2, <3>1 DEF HedgesBounded, TryConsume
  <2>3. QED BY <1>2, <2>1, <2>2 DEF TryConsume
<1>3. ASSUME NEW c \in Callers, RestoreAdd(c)
      PROVE  HedgesBounded'
  <2>1. Cardinality(Holders') = n - 1
    BY <1>3, HolderLeaves DEF RestoreAdd
  <2>2. tokens' = tokens + 1 /\ leaked' = leaked
    BY <1>3 DEF RestoreAdd
  <2>3. QED BY <1>n, <1>b, <2>1, <2>2 DEF HedgesBounded
<1>4. ASSUME NEW c \in Callers, RestoreClamp(c)
      PROVE  HedgesBounded'
  <2>1. Holders' = Holders
    BY <1>4, HoldersKept DEF RestoreClamp
  <2>2. capSeen[c] \in Nat
    BY DEF HedgeTypeOK
  <2>3. tokens' \in Nat /\ tokens' <= tokens /\ leaked' = leaked
    BY <1>4, <1>n, <2>2 DEF RestoreClamp, Least
  <2>4. QED BY <1>n, <1>b, <2>1, <2>3 DEF HedgesBounded
<1>5. ASSUME NEW c \in Callers, Timeout(c)
      PROVE  HedgesBounded'
  <2>1. CASE phase[c] = "hedged"
    <3>1. Cardinality(Holders') = n - 1
      BY <1>5, <2>1, HolderLeaves DEF Timeout
    <3>2. tokens' = tokens /\ leaked' = leaked + 1
      BY <1>5, <2>1 DEF Timeout
    <3>3. QED BY <1>n, <1>b, <3>1, <3>2 DEF HedgesBounded
  <2>2. CASE phase[c] # "hedged"
    <3>1. Holders' = Holders
      BY <1>5, <2>2, HoldersKept DEF Timeout
    <3>2. UNCHANGED <<tokens, leaked>>
      BY <1>5, <2>2 DEF Timeout
    <3>3. QED BY <3>1, <3>2 DEF HedgesBounded
  <2>3. QED BY <2>1, <2>2
<1>6. CASE TickRequests \/ SetCap \/ UNCHANGED hedgeVars
  BY <1>6 DEF TickRequests, SetCap, hedgeVars, caller, HedgesBounded, Holders
<1>7. CASE ClampTokens
  <2>1. Holders' = Holders
    BY <1>7 DEF ClampTokens, caller, Holders
  <2>2. cap \in Nat
    BY DEF HedgeTypeOK
  <2>3. tokens' \in Nat /\ tokens' <= tokens /\ leaked' = leaked
    BY <1>7, <1>n, <2>2 DEF ClampTokens, Least
  <2>4. QED BY <1>n, <1>b, <2>1, <2>3 DEF HedgesBounded
<1>8. QED
  BY <1>1, <1>2, <1>3, <1>4, <1>5, <1>6, <1>7 DEF HedgeNext, Step, Feedback

-----------------------------------------------------------------------------
(* The restores that have still to look                                    *)

(* They can be counted, before and after a step.                           *)
LEMMA LateFinite == IsFiniteSet(Late) /\ Cardinality(Late) \in Nat
<1>1. Late \in SUBSET Callers
  BY DEF Late
<1>2. QED
  BY <1>1, FS_Subset, FS_CardinalityType, HedgeAssumption DEF HedgeAssumption

(* The same of the set after a step.                                       *)
LEMMA LateStaysFinite == IsFiniteSet(Late') /\ Cardinality(Late') \in Nat
<1>1. Late' \in SUBSET Callers
  BY DEF Late
<1>2. QED
  BY <1>1, FS_Subset, FS_CardinalityType, HedgeAssumption DEF HedgeAssumption

(* A caller that moves outside restore changes nothing that restore's      *)
(* clamps depend on.                                                       *)
LEMMA OthersUndisturbed ==
    ASSUME HedgeTypeOK, NEW c \in Callers, phase[c] \notin {"added", "clamp"},
           NEW p, p \notin {"added", "clamp"}, phase' = [phase EXCEPT ![c] = p],
           UNCHANGED <<new, capSeen, cap>>
    PROVE  Late' = Late /\ \A d \in Callers : Corrects(d)' <=> Corrects(d)
  BY DEF Late, Corrects, HedgeTypeOK

(* Every step keeps the excess explained.                                  *)
LEMMA ExcessStep ==
    HedgeTypeOK /\ ExcessExplained /\ [HedgeNext]_hedgeVars => ExcessExplained'
<1> SUFFICES ASSUME HedgeTypeOK, ExcessExplained, [HedgeNext]_hedgeVars,
                    fb' # "clamp", \A d \in Callers : ~Corrects(d)'
             PROVE  tokens' <= cap' + missed' + Cardinality(Late')
  BY DEF ExcessExplained
<1> DEFINE n == Cardinality(Late)
           m == Cardinality(Late')
<1>t. /\ tokens \in Nat /\ cap \in Nat /\ missed \in Nat /\ older \subseteq Nat
      /\ \A c \in Callers : new[c] \in Nat /\ capSeen[c] \in Nat
  BY DEF HedgeTypeOK
<1>n. n \in Nat /\ m \in Nat
  BY LateFinite, LateStaysFinite
<1>e. fb # "clamp" /\ (\A d \in Callers : ~Corrects(d)) => tokens <= cap + missed + n
  BY DEF ExcessExplained
<1> HIDE DEF n, m
<1>1. ASSUME NEW c \in Callers,
             Call(c) \/ TryConsume(c) \/ FirstReturns(c) \/ Timeout(c)
      PROVE  tokens' <= cap' + missed' + m
  <2>1. /\ tokens' \in Nat /\ tokens' <= tokens /\ cap' = cap /\ fb' = fb
        /\ missed' = missed /\ UNCHANGED <<new, capSeen, cap>>
        /\ phase[c] \notin {"added", "clamp"}
    BY <1>1, <1>t DEF Call, TryConsume, FirstReturns, Timeout, feedback, capacity
  <2>2. PICK p : p \notin {"added", "clamp"} /\ phase' = [phase EXCEPT ![c] = p]
    BY <1>1 DEF Call, TryConsume, FirstReturns, Timeout
  <2>3. m = n /\ \A d \in Callers : ~Corrects(d)
    BY <2>1, <2>2, OthersUndisturbed DEF m, n
  <2>4. tokens <= cap + missed + n
    BY <1>e, <2>1, <2>3
  <2>5. QED BY <1>t, <1>n, <2>1, <2>3, <2>4
<1>2. ASSUME NEW c \in Callers, RestoreAdd(c)
      PROVE  tokens' <= cap' + missed' + m
  <2>1. /\ tokens' = tokens + 1 /\ cap' = cap /\ fb' = fb /\ missed' = missed
        /\ phase[c] = "hedged" /\ phase' = [phase EXCEPT ![c] = "added"]
        /\ new' = [new EXCEPT ![c] = tokens + 1] /\ capSeen' = capSeen
    BY <1>2 DEF RestoreAdd, feedback, capacity
  <2>2. \A d \in Callers : ~Corrects(d)
    BY <2>1 DEF Corrects, HedgeTypeOK
  <2>3. tokens <= cap + missed + n
    BY <1>e, <2>1, <2>2
  <2>4. CASE tokens + 1 > cap
    <3>1. Late' = Late \cup {c} /\ c \notin Late
      BY <2>1, <2>4 DEF Late, HedgeTypeOK
    <3>2. m = n + 1
      BY <3>1, LateFinite, FS_AddElement DEF m, n
    <3>3. QED BY <1>t, <1>n, <2>1, <2>3, <3>2
  <2>5. CASE ~(tokens + 1 > cap)
    BY <1>t, <1>n, <2>1, <2>5
  <2>6. QED BY <2>4, <2>5
<1>3. ASSUME NEW c \in Callers, RestoreLoad(c)
      PROVE  tokens' <= cap' + missed' + m
  <2>1. /\ tokens' = tokens /\ cap' = cap /\ fb' = fb
        /\ phase[c] = "added" /\ new' = [new EXCEPT ![c] = 0]
    BY <1>3 DEF RestoreLoad, feedback, capacity
  <2>2. PICK loaded \in older \cup {cap} :
          /\ IF new[c] > loaded
             THEN /\ capSeen' = [capSeen EXCEPT ![c] = loaded]
                  /\ phase' = [phase EXCEPT ![c] = "clamp"]
             ELSE /\ UNCHANGED capSeen
                  /\ phase' = [phase EXCEPT ![c] = "idle"]
          /\ missed' = IF new[c] > cap /\ loaded > cap THEN missed + 1 ELSE missed
    BY <1>3 DEF RestoreLoad
  <2>3. loaded \in Nat /\ new[c] \in Nat
    BY <1>t, <2>2
  <2>4. PICK p : p # "added" /\ phase' = [phase EXCEPT ![c] = p]
    BY <2>2
  <2>5. \A d \in Callers : d # c => capSeen'[d] = capSeen[d] /\ phase'[d] = phase[d]
    BY <2>2, <2>4 DEF HedgeTypeOK
  <2>6. \A d \in Callers : ~Corrects(d)
    BY <2>1, <2>5 DEF Corrects
  <2>7. tokens <= cap + missed + n
    BY <1>e, <2>1, <2>6
  <2>8. Late' = Late \ {c}
    BY <2>1, <2>4 DEF Late, HedgeTypeOK
  <2>9. CASE new[c] > cap /\ loaded > cap
    <3>1. c \in Late
      BY <2>1, <2>9 DEF Late
    <3>2. m = n - 1
      BY <2>8, <3>1, LateFinite, FS_RemoveElement DEF m, n
    <3>3. missed' = missed + 1
      BY <2>2, <2>9
    <3>4. QED BY <1>t, <1>n, <2>1, <2>7, <3>2, <3>3
  <2>10. CASE new[c] > cap /\ ~(loaded > cap)
    <3>1. new[c] > loaded /\ loaded <= cap
      BY <1>t, <2>3, <2>10
    <3>2. phase'[c] = "clamp" /\ capSeen'[c] = loaded
      BY <2>2, <3>1 DEF HedgeTypeOK
    <3>3. Corrects(c)'
      BY <2>1, <3>1, <3>2 DEF Corrects
    <3>4. QED BY <3>3
  <2>11. CASE ~(new[c] > cap)
    <3>1. c \notin Late
      BY <2>11 DEF Late
    <3>2. m = n
      BY <2>8, <3>1 DEF m, n
    <3>3. missed' = missed
      BY <2>2, <2>11
    <3>4. QED BY <2>1, <2>7, <3>2, <3>3
  <2>12. QED BY <2>9, <2>10, <2>11
<1>4. ASSUME NEW c \in Callers, RestoreClamp(c)
      PROVE  tokens' <= cap' + missed' + m
  <2>1. /\ cap' = cap /\ fb' = fb /\ new' = new /\ missed' = missed
        /\ tokens' \in Nat /\ tokens' <= tokens /\ tokens' <= capSeen[c]
        /\ phase[c] = "clamp" /\ phase' = [phase EXCEPT ![c] = "idle"]
        /\ capSeen' = [capSeen EXCEPT ![c] = 0]
    BY <1>4, <1>t DEF RestoreClamp, Least, feedback, capacity
  <2>2. Late' = Late
    BY <2>1 DEF Late, HedgeTypeOK
  <2>3. CASE capSeen[c] <= cap
    BY <1>t, <1>n, <2>1, <2>3
  <2>4. CASE ~(capSeen[c] <= cap)
    <3>1. ~Corrects(c)
      BY <2>4 DEF Corrects
    <3>2. \A d \in Callers : d # c => capSeen'[d] = capSeen[d] /\ phase'[d] = phase[d]
      BY <2>1 DEF HedgeTypeOK
    <3>3. \A d \in Callers : ~Corrects(d)
      BY <2>1, <3>1, <3>2 DEF Corrects
    <3>4. tokens <= cap + missed + n /\ m = n
      BY <1>e, <2>1, <2>2, <3>3 DEF m, n
    <3>5. QED BY <1>t, <1>n, <2>1, <3>4
  <2>5. QED BY <2>3, <2>4
<1>5. ASSUME TickRequests \/ UNCHANGED hedgeVars
      PROVE  tokens' <= cap' + missed' + m
  <2>1. UNCHANGED <<tokens, capacity, caller, missed>> /\ fb # "clamp"
    BY <1>5 DEF TickRequests, hedgeVars, feedback
  <2>2. m = n /\ \A d \in Callers : ~Corrects(d)
    BY <2>1 DEF m, n, Late, Corrects, caller, capacity
  <2>3. QED BY <1>e, <2>1, <2>2 DEF capacity
<1>6. CASE SetCap
  BY <1>6 DEF SetCap
<1>7. ASSUME ClampTokens
      PROVE  tokens' <= cap' + missed' + m
  <2>1. cap' = cap /\ missed' = 0 /\ tokens' \in Nat /\ tokens' <= cap
    BY <1>7, <1>t DEF ClampTokens, Least, capacity
  <2>2. QED BY <1>t, <1>n, <2>1
<1>8. QED
  BY <1>1, <1>2, <1>3, <1>4, <1>5, <1>6, <1>7 DEF HedgeNext, Step, Feedback, m

-----------------------------------------------------------------------------
(* HedgeBudget::tokens never wraps, for any number of callers.             *)
THEOREM HedgeTypeCorrect == HedgeSpec => []HedgeTypeOK
<1>1. QED BY InitType, TypeStep, PTL DEF HedgeSpec

(* hedged_call, restore and set_load_shed_rate together never mint a       *)
(* token: with any number of callers, dropped or not, Redis never sees     *)
(* more hedges at a time than the nominal capacity.                        *)
THEOREM HedgesStayBounded == HedgeSpec => []HedgesBounded
<1>1. HedgeInit => HedgesBounded
  <2> SUFFICES ASSUME HedgeInit PROVE HedgesBounded
    OBVIOUS
  <2>1. Holders = {}
    BY DEF HedgeInit, Holders
  <2>2. Cardinality(Holders) = 0
    BY <2>1, FS_EmptySet
  <2>3. QED BY <2>2, HedgeAssumption DEF HedgeAssumption, HedgeInit, HedgesBounded
<1>2. QED BY <1>1, BoundStep, HedgeTypeCorrect, PTL DEF HedgeSpec

(* restore's clamp, with loads of effective_cap that may miss a store:     *)
(* whatever restores and feedback ticks it races with, the tokens end up   *)
(* above the capacity by at most the restores that missed it.              *)
THEOREM OvershootsAreMissed == HedgeSpec => []OvershootIsMissed
<1>1. HedgeInit => ExcessExplained
  <2> SUFFICES ASSUME HedgeInit PROVE tokens <= cap + missed + Cardinality(Late)
    BY DEF ExcessExplained
  <2>1. tokens = Nominal /\ cap = Nominal /\ missed = 0 /\ Nominal \in Nat
    BY HedgeAssumption DEF HedgeInit, HedgeAssumption
  <2>2. QED BY <2>1, LateFinite
<1>2. HedgeTypeOK /\ ExcessExplained => OvershootIsMissed
  <2> SUFFICES ASSUME HedgeTypeOK, ExcessExplained, fb # "clamp",
                      \A c \in Callers : phase[c] \notin {"added", "clamp"}
               PROVE  tokens <= cap + missed
    BY DEF OvershootIsMissed
  <2>1. Late = {} /\ \A c \in Callers : ~Corrects(c)
    BY DEF Late, Corrects
  <2>2. Cardinality(Late) = 0
    BY <2>1, FS_EmptySet
  <2>3. tokens <= cap + missed + 0
    BY <2>1, <2>2 DEF ExcessExplained
  <2>4. QED BY <2>3 DEF HedgeTypeOK
<1>3. QED BY <1>1, <1>2, ExcessStep, HedgeTypeCorrect, PTL DEF HedgeSpec

-----------------------------------------------------------------------------
(* The event publisher: every event is counted once                        *)

(* Handlers on their way into librdkafka's queue.                          *)
Sending == {p \in Publishers : pc[p] = "send"}

KafkaInv == TypeOK /\ CountedOnce

(* They are finitely many.                                                 *)
LEMMA SendingFinite == IsFiniteSet(Sending) /\ Cardinality(Sending) \in Nat
<1>1. IsFiniteSet(Sending)
  BY KafkaAssumption, FS_Subset DEF Sending
<1>2. QED BY <1>1, FS_CardinalityType

(* A handler that goes on to send() is one more that owes an outcome,      *)
LEMMA SenderJoins ==
    ASSUME TypeOK, NEW p \in Publishers, pc[p] = "idle", pc' = [pc EXCEPT ![p] = "send"]
    PROVE  Cardinality(Sending') = Cardinality(Sending) + 1
<1>1. Sending' = Sending \cup {p} /\ p \notin Sending
  BY DEF TypeOK, Sending
<1>2. QED BY <1>1, SendingFinite, FS_AddElement

(* and one that returns from send() is one less.                           *)
LEMMA SenderLeaves ==
    ASSUME TypeOK, NEW p \in Publishers, pc[p] = "send", pc' = [pc EXCEPT ![p] = "idle"]
    PROVE  /\ Cardinality(Sending') = Cardinality(Sending) - 1
           /\ Cardinality(Sending) > 0
<1>1. Sending' = Sending \ {p} /\ p \in Sending
  BY DEF TypeOK, Sending
<1>2. Cardinality(Sending') = Cardinality(Sending) - 1
  BY <1>1, SendingFinite, FS_RemoveElement
<1>3. Cardinality(Sending) # 0
  BY <1>1, SendingFinite, FS_EmptySet
<1>4. QED BY <1>2, <1>3, SendingFinite

(* The monitor's history shifts by one verdict and keeps at most Dwell.    *)
LEMMA Shifted ==
    ASSUME NEW s \in Seq(BOOLEAN), Len(s) <= Dwell, NEW bad \in BOOLEAN
    PROVE  LET t == SubSeq(<<bad>> \o s, 1, UpTo(Len(s) + 1, Dwell))
           IN  /\ t \in Seq(BOOLEAN) /\ Len(t) = UpTo(Len(s) + 1, Dwell)
               /\ t[1] = bad
               /\ \A i \in 2..Len(t) : t[i] = s[i - 1]
<1> DEFINE u == <<bad>> \o s
           n == UpTo(Len(s) + 1, Dwell)
<1>1. Dwell \in Nat \ {0} /\ Len(s) \in Nat
  BY KafkaAssumption
<1>2. n \in 1..(Len(s) + 1)
  BY <1>1 DEF UpTo
<1>3. u \in Seq(BOOLEAN) /\ Len(u) = Len(s) + 1
  OBVIOUS
<1>4. u[1] = bad /\ \A i \in 2..(Len(s) + 1) : u[i] = s[i - 1]
  OBVIOUS
<1> HIDE DEF u, n
<1>5. /\ SubSeq(u, 1, n) \in Seq(BOOLEAN) /\ Len(SubSeq(u, 1, n)) = n
      /\ \A i \in 1..n : SubSeq(u, 1, n)[i] = u[i]
  BY <1>1, <1>2, <1>3, SubSeqProperties
<1>6. QED BY <1>1, <1>2, <1>4, <1>5 DEF u, n

(* Steps that touch no event: the thread, the broker and the monitor.      *)
LEMMA QuietStep ==
    ASSUME KafkaInv,
           \/ PollReturns \/ FlushReturns \/ Wedge \/ Drop \/ Join \/ BrokerChanges
           \/ Tick \/ UNCHANGED vars
    PROVE  KafkaInv'
<1>1. UNCHANGED <<pc, queue, owed>>
  BY DEF PollReturns, FlushReturns, Wedge, Drop, Join, BrokerChanges, Tick, vars
<1>2. CountedOnce'
  BY <1>1 DEF KafkaInv, CountedOnce
<1>3. TypeOK'
  BY DEF KafkaInv, TypeOK, PollReturns, FlushReturns, Wedge, Drop, Join, BrokerChanges,
         Tick, vars, counts, monitor
<1>4. QED BY <1>2, <1>3 DEF KafkaInv

(* publish either counts the event as sampled away or owes its outcome.    *)
LEMMA PublishStep ==
    ASSUME KafkaInv, NEW p \in Publishers, Publish(p) PROVE KafkaInv'
<1> USE DEF Publish, Counted
<1>1. TypeOK
  BY DEF KafkaInv
<1>2. sample' \in 0..(Denominator - 1)
  <2>1. Denominator \in Nat \ {0} /\ sample \in 0..(Denominator - 1)
    BY <1>1, KafkaAssumption DEF TypeOK
  <2>2. (sample + 1) % Denominator \in 0..(Denominator - 1)
    BY <2>1
  <2>3. QED BY <2>1, <2>2
<1>3. TypeOK'
  BY <1>1, <1>2, SMTT(30) DEF TypeOK, counts, monitor
<1>4. CASE pc' = [pc EXCEPT ![p] = "send"] /\ owed' = owed + 1
  <2>1. Cardinality(Sending') = Cardinality(Sending) + 1
    BY <1>1, <1>4, SenderJoins
  <2>2. queue' = queue /\ queue \in Nat
    BY <1>1, KafkaAssumption DEF TypeOK
  <2>3. CountedOnce'
    BY <1>4, <2>1, <2>2, SendingFinite DEF KafkaInv, CountedOnce, Sending
  <2>4. QED BY <1>3, <2>3 DEF KafkaInv
<1>5. CASE UNCHANGED <<pc, owed>>
  BY <1>3, <1>5 DEF KafkaInv, CountedOnce
<1>6. QED BY <1>4, <1>5

(* send() hands the event to the queue, or drops it and counts the drop.   *)
LEMMA SendStep ==
    ASSUME KafkaInv, NEW p \in Publishers, Send(p) PROVE KafkaInv'
<1>1. TypeOK /\ Capacity \in Nat
  BY KafkaAssumption DEF KafkaInv
<1>2. /\ Cardinality(Sending') = Cardinality(Sending) - 1 /\ Cardinality(Sending) > 0
      /\ Cardinality(Sending) \in Nat
  BY <1>1, SenderLeaves, SendingFinite DEF Send
<1>3. owed = queue + Cardinality(Sending) /\ queue \in 0..Capacity
  BY <1>1 DEF KafkaInv, CountedOnce, Sending, TypeOK
<1>4. \/ queue < Capacity /\ queue' = queue + 1 /\ UNCHANGED <<counts, owed>>
      \/ Counted(0, 1) /\ owed' = owed - 1 /\ queue' = queue
  BY DEF Send
<1>5. owed' = queue' + Cardinality(Sending') /\ owed' \in Nat /\ queue' \in 0..Capacity
  BY <1>1, <1>2, <1>3, <1>4
<1>6. CountedOnce'
  BY <1>5 DEF CountedOnce, Sending
<1>7. published' \in Nat /\ dropped' \in Nat
  BY <1>1, <1>4 DEF TypeOK, Counted, counts
<1>8. TypeOK'
  BY <1>1, <1>5, <1>7 DEF TypeOK, Send, monitor
<1>9. QED BY <1>6, <1>8 DEF KafkaInv

(* The delivery callback takes the event off the queue and counts it.      *)
LEMMA DeliveryStep == ASSUME KafkaInv, Delivery PROVE KafkaInv'
<1>1. TypeOK /\ Capacity \in Nat
  BY KafkaAssumption DEF KafkaInv
<1>2. Sending' = Sending /\ Cardinality(Sending) \in Nat
  BY SendingFinite DEF Delivery, Sending
<1>3. owed = queue + Cardinality(Sending) /\ queue \in 0..Capacity
  BY <1>1 DEF KafkaInv, CountedOnce, Sending, TypeOK
<1>4. queue > 0 /\ queue' = queue - 1 /\ owed' = owed - 1
  BY DEF Delivery
<1>5. owed' = queue' + Cardinality(Sending') /\ owed' \in Nat /\ queue' \in 0..Capacity
  BY <1>1, <1>2, <1>3, <1>4
<1>6. CountedOnce'
  BY <1>5 DEF CountedOnce, Sending
<1>7. published' \in Nat /\ dropped' \in Nat
  BY <1>1 DEF TypeOK, Delivery, Counted
<1>8. TypeOK'
  BY <1>1, <1>5, <1>7 DEF TypeOK, Delivery, monitor
<1>9. QED BY <1>6, <1>8 DEF KafkaInv

(* A sample is over the threshold or it is not.                            *)
LEMMA VerdictType == ASSUME NEW p, NEW d PROVE TooManyDrops(p, d) \in BOOLEAN
  BY DEF TooManyDrops

(* The monitor's counters are capped at Dwell.                             *)
LEMMA UpToType ==
    ASSUME NEW n \in 0..Dwell PROVE UpTo(n + 1, Dwell) \in 0..Dwell /\ 0 \in 0..Dwell
  BY KafkaAssumption DEF UpTo

(* The monitor changes no event's outcome; its counters stay within Dwell. *)
LEMMA JudgeStep == ASSUME KafkaInv, Judge PROVE KafkaInv'
<1> DEFINE bad == TooManyDrops(pubDelta, dropped)
<1>1. TypeOK /\ Base \in {"Newest", "Oldest", "RandomSample"}
  BY KafkaAssumption DEF KafkaInv, Base
<1>2. bad \in BOOLEAN
  BY VerdictType
<1> HIDE DEF bad
<1>3. over \in 0..Dwell /\ under \in 0..Dwell
  BY <1>1 DEF TypeOK
<1>4. over' \in 0..Dwell /\ under' \in 0..Dwell
  <2>1. UNCHANGED <<over, under>> \/ CountSample(bad)
    BY DEF Judge, bad
  <2>2. QED BY <1>3, <2>1, UpToType DEF CountSample
<1>5. recent' \in Seq(BOOLEAN) /\ Len(recent') <= Dwell
  <2>1. \/ recent' = recent
        \/ recent' = SubSeq(<<bad>> \o recent, 1, UpTo(Len(recent) + 1, Dwell))
    BY DEF Judge, bad
  <2>2. recent \in Seq(BOOLEAN) /\ Len(recent) <= Dwell
    BY <1>1 DEF TypeOK
  <2>3. UpTo(Len(recent) + 1, Dwell) <= Dwell
    BY <2>2, KafkaAssumption DEF UpTo
  <2> DEFINE t == SubSeq(<<bad>> \o recent, 1, UpTo(Len(recent) + 1, Dwell))
  <2>4. t \in Seq(BOOLEAN) /\ Len(t) = UpTo(Len(recent) + 1, Dwell)
    BY <1>2, <2>2, Shifted, Zenon
  <2>5. recent' = recent \/ recent' = t
    BY <2>1
  <2> HIDE DEF t
  <2>6. QED BY <2>2, <2>3, <2>4, <2>5
<1>6. policy' \in {policy, "RandomSample", Base} /\ incident' \in {incident, TRUE, FALSE}
  BY DEF Judge
<1>7. dropped' = 0 /\ tick' = "wait" /\ pubDelta' = 0
  BY DEF Judge
<1>8. UNCHANGED <<published, sample, pc, queue, broker, poll, publisher, owed>>
  BY DEF Judge
<1>9. TypeOK'
  BY <1>1, <1>4, <1>5, <1>6, <1>7, <1>8 DEF TypeOK
<1>10. CountedOnce'
  BY <1>8 DEF KafkaInv, CountedOnce
<1>11. QED BY <1>9, <1>10 DEF KafkaInv

(* The publisher starts with nothing published and nothing owed.           *)
LEMMA KafkaInit == Init => KafkaInv
<1> SUFFICES ASSUME Init PROVE KafkaInv
  OBVIOUS
<1>0. /\ Base \in {"Newest", "Oldest", "RandomSample"}
      /\ 0 \in 0..(Denominator - 1) /\ 0 \in 0..Capacity /\ 0 \in 0..Dwell
  BY KafkaAssumption DEF Base
<1>1. TypeOK
  <2>1. <<>> \in Seq(BOOLEAN) /\ Len(<<>>) <= Dwell
    BY KafkaAssumption
  <2>2. incident \in BOOLEAN
    BY DEF Init
  <2>3. QED BY <1>0, <2>1, <2>2 DEF Init, TypeOK
<1>2. Sending = {}
  BY DEF Init, Sending
<1>3. CountedOnce
  BY <1>2, FS_EmptySet DEF Init, CountedOnce, Sending
<1>4. QED BY <1>1, <1>3 DEF KafkaInv

(* Every step keeps the account.                                           *)
LEMMA KafkaStep == KafkaInv /\ [Next]_vars => KafkaInv'
  BY PublishStep, SendStep, DeliveryStep, QuietStep, JudgeStep DEF Next

(* TypeOK for any handlers, queue, sampling rate and dwell: the queue is   *)
(* bounded, and the number of events without an outcome never goes below   *)
(* zero.                                                                   *)
THEOREM KafkaTypeCorrect == Spec => []TypeOK
<1>1. KafkaInv => TypeOK
  BY DEF KafkaInv
<1>2. QED BY <1>1, KafkaInit, KafkaStep, PTL DEF Spec

(* Every event is counted once, as published or as dropped, whatever the   *)
(* broker, the poll thread and the policy do between publish and the       *)
(* delivery callback.                                                      *)
THEOREM EventsAreCountedOnce == Spec => []CountedOnce
<1>1. KafkaInv => CountedOnce
  BY DEF KafkaInv
<1>2. QED BY <1>1, KafkaInit, KafkaStep, PTL DEF Spec

-----------------------------------------------------------------------------
(* The monitor flips on a whole dwell of samples                           *)

(* over_count and under_count are the samples in a row, the latest first.  *)
DwellCounted ==
    /\ over <= Len(recent) /\ \A i \in 1..over : recent[i] = TRUE
    /\ under <= Len(recent) /\ \A i \in 1..under : recent[i] = FALSE

(* A sample counts for one side and clears the other.                      *)
LEMMA SampleCounted ==
    ASSUME KafkaInv, DwellCounted, Judge, AutoFlip
    PROVE  /\ DwellCounted'
           /\ over' >= Dwell => recent' = [i \in 1..Dwell |-> TRUE]
           /\ under' >= Dwell => recent' = [i \in 1..Dwell |-> FALSE]
<1> DEFINE bad == TooManyDrops(pubDelta, dropped)
           n == UpTo(Len(recent) + 1, Dwell)
<1>1. bad \in BOOLEAN
  BY VerdictType
<1>2. /\ recent \in Seq(BOOLEAN) /\ Len(recent) \in 0..Dwell /\ Dwell \in Nat \ {0}
      /\ over \in 0..Dwell /\ under \in 0..Dwell
  BY KafkaAssumption DEF KafkaInv, TypeOK
<1>3. CountSample(bad) /\ recent' = SubSeq(<<bad>> \o recent, 1, n)
  BY DEF Judge
<1> HIDE DEF bad
<1>4. /\ recent' \in Seq(BOOLEAN) /\ Len(recent') = n /\ recent'[1] = bad
      /\ \A i \in 2..n : recent'[i] = recent[i - 1]
  <2>1. Len(recent) <= Dwell
    BY <1>2
  <2> DEFINE t == SubSeq(<<bad>> \o recent, 1, n)
  <2>2. /\ t \in Seq(BOOLEAN) /\ Len(t) = n
        /\ t[1] = bad
        /\ \A i \in 2..Len(t) : t[i] = recent[i - 1]
    BY <1>1, <1>2, <2>1, Shifted, Zenon
  <2> HIDE DEF t, n
  <2>3. QED BY <1>3, <2>2 DEF t
<1>5. n \in 1..Dwell /\ (Len(recent) >= Dwell - 1 => n = Dwell)
      /\ \A k \in 0..Len(recent) : UpTo(k + 1, Dwell) \in 1..n /\ UpTo(k + 1, Dwell) <= k + 1
  BY <1>2 DEF UpTo
<1> HIDE DEF n
<1>6. CASE bad = TRUE
  <2>1. over' = UpTo(over + 1, Dwell) /\ under' = 0
    BY <1>3, <1>6 DEF CountSample
  <2>2. over' \in 1..n /\ over' <= over + 1
    BY <1>2, <1>5, <2>1 DEF DwellCounted
  <2>3. ASSUME NEW i \in 1..over' PROVE recent'[i] = TRUE
    <3>1. CASE i = 1
      BY <1>4, <1>6, <3>1
    <3>2. CASE i # 1
      <4>1. i \in 2..n /\ i - 1 \in 1..over
        BY <1>2, <1>5, <2>2, <3>2
      <4>2. QED BY <1>4, <4>1 DEF DwellCounted
    <3>3. QED BY <3>1, <3>2
  <2>4. under' <= Len(recent') /\ \A i \in 1..under' : recent'[i] = FALSE
    BY <1>4, <1>5, <2>1
  <2>5. DwellCounted'
    <3>1. over' <= Len(recent')
      BY <1>4, <1>5, <2>2
    <3>2. QED BY <2>3, <2>4, <3>1, Zenon DEF DwellCounted
  <2>6. ASSUME over' >= Dwell PROVE recent' = [i \in 1..Dwell |-> TRUE]
    <3>1. over' = Dwell /\ n = Dwell
      BY <1>2, <1>5, <2>2, <2>6
    <3>2. recent' = [i \in 1..Dwell |-> recent'[i]]
      BY <1>4, <3>1
    <3>3. QED BY <2>3, <3>1, <3>2
  <2>7. ~(under' >= Dwell)
    BY <1>2, <2>1
  <2>8. QED BY <2>5, <2>6, <2>7
<1>7. CASE bad = FALSE
  <2>1. under' = UpTo(under + 1, Dwell) /\ over' = 0
    BY <1>3, <1>7 DEF CountSample
  <2>2. under' \in 1..n /\ under' <= under + 1
    BY <1>2, <1>5, <2>1 DEF DwellCounted
  <2>3. ASSUME NEW i \in 1..under' PROVE recent'[i] = FALSE
    <3>1. CASE i = 1
      BY <1>4, <1>7, <3>1
    <3>2. CASE i # 1
      <4>1. i \in 2..n /\ i - 1 \in 1..under
        BY <1>2, <1>5, <2>2, <3>2
      <4>2. QED BY <1>4, <4>1 DEF DwellCounted
    <3>3. QED BY <3>1, <3>2
  <2>4. over' <= Len(recent') /\ \A i \in 1..over' : recent'[i] = TRUE
    BY <1>4, <1>5, <2>1
  <2>5. DwellCounted'
    <3>1. under' <= Len(recent')
      BY <1>4, <1>5, <2>2
    <3>2. QED BY <2>3, <2>4, <3>1, Zenon DEF DwellCounted
  <2>6. ASSUME under' >= Dwell PROVE recent' = [i \in 1..Dwell |-> FALSE]
    <3>1. under' = Dwell /\ n = Dwell
      BY <1>2, <1>5, <2>2, <2>6
    <3>2. recent' = [i \in 1..Dwell |-> recent'[i]]
      BY <1>4, <3>1
    <3>3. QED BY <2>3, <3>1, <3>2
  <2>7. ~(over' >= Dwell)
    BY <1>2, <2>1
  <2>8. QED BY <2>5, <2>6, <2>7
<1>8. QED BY <1>1, <1>6, <1>7

(* No other step moves the counters, the history or the policy.            *)
LEMMA MonitorKept ==
    ASSUME [Next]_vars, ~Judge
    PROVE  UNCHANGED <<policy, over, under, recent>>
  BY DEF Next, Publish, Send, Delivery, PollReturns, FlushReturns, Wedge, Drop, Join,
         BrokerChanges, Tick, vars, monitor

(* spawn_monitor flips "when the drop rate sustains above a threshold for  *)
(* the dwell duration" and back when it is below "for the same dwell", for *)
(* any dwell: whatever came between two flips, one needs Dwell samples in  *)
(* a row that say so.                                                      *)
THEOREM FlipsTakeADwell == Spec => FlipsAreSustained
<1> DEFINE MonitorInv == KafkaInv /\ (AutoFlip => DwellCounted)
           Flip == /\ policy' = "RandomSample" /\ policy # policy' =>
                        recent' = [i \in 1..Dwell |-> TRUE]
                   /\ policy' = Base /\ policy # policy' =>
                        recent' = [i \in 1..Dwell |-> FALSE]
<1>1. Init => MonitorInv
  <2>1. Init => DwellCounted
    BY DEF Init, DwellCounted
  <2>2. QED BY <2>1, KafkaInit
<1>2. ASSUME MonitorInv, [Next]_vars PROVE MonitorInv' /\ [Flip]_vars
  <2>1. KafkaInv'
    BY <1>2, KafkaStep
  <2>2. CASE ~Judge
    <3>1. UNCHANGED <<policy, over, under, recent>>
      BY <1>2, <2>2, MonitorKept
    <3>2. AutoFlip => DwellCounted'
      BY <1>2, <3>1 DEF DwellCounted
    <3>3. QED BY <2>1, <3>1, <3>2 DEF AutoFlip
  <2>3. CASE Judge /\ ~AutoFlip
    <3>1. policy' = policy
      BY <2>3 DEF Judge
    <3>2. QED BY <2>1, <2>3, <3>1 DEF AutoFlip
  <2>4. CASE Judge /\ AutoFlip
    <3>1. /\ DwellCounted'
          /\ over' >= Dwell => recent' = [i \in 1..Dwell |-> TRUE]
          /\ under' >= Dwell => recent' = [i \in 1..Dwell |-> FALSE]
      BY <1>2, <2>4, SampleCounted
    <3>2. Base = "Newest"
      BY <2>4 DEF AutoFlip, Base
    <3>3. \/ policy' = "RandomSample" /\ over' >= Dwell
          \/ policy' = Base /\ under' >= Dwell
          \/ policy' = policy
      BY <2>4 DEF Judge
    <3>4. QED BY <2>1, <3>1, <3>2, <3>3
  <2>5. QED BY <2>2, <2>3, <2>4
<1>3. QED BY <1>1, <1>2, PTL DEF Spec, FlipsAreSustained

=============================================================================
