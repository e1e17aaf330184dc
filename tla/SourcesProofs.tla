---------------------------- MODULE SourcesProofs ----------------------------
(***************************************************************************)
(* The program's ways to other people's data, proved about one by one, for *)
(* every value of their constants: the cache of a public source, Yahoo's   *)
(* gates, the legs of `fcc sync`, and the joins of the sources' players.   *)
(***************************************************************************)
EXTENDS SourceCache, YahooAccess, ProjectionSync, Identity, TLAPS

-----------------------------------------------------------------------------
(* SourceCache.                                                            *)

Copies == [version : Nat, at : Nat]

\* The values of the variables a caller's answer depends on.
CacheTypeOK ==
  /\ hour \in Nat /\ version \in Nat
  /\ cache \in Copies \cup {None}
  /\ ask \in [Callers -> [at : {"idle", "try", "put"}, tried : Nat, got : Nat]]
  /\ DOMAIN answer = Callers

\* What OldIsFlagged asks of a result given at this hour.
IsFlagged(result) ==
  /\ hour - result.at > MaxAge => result.stale
  /\ ~result.cached => result.at = hour

\* Initially nothing is cached, asked or answered.
LEMMA CacheTypeInit == CacheInit => CacheTypeOK
BY DEF CacheInit, CacheTypeOK

\* An answer leaves the caller idle and changes no other caller's.
LEMMA GiveOne ==
  ASSUME CacheTypeOK, NEW c \in Callers, NEW result, Give(c, result)
  PROVE  /\ ask' \in [Callers -> [at : {"idle", "try", "put"}, tried : Nat, got : Nat]]
         /\ DOMAIN answer' = Callers
         /\ answer'[c] = result
         /\ \A d \in Callers \ {c} : answer'[d] = answer[d]
BY DEF CacheTypeOK, Give

\* Every step keeps the types.
LEMMA CacheTypeStep == CacheTypeOK /\ [CacheNext]_cacheVars => CacheTypeOK'
<1> SUFFICES ASSUME CacheTypeOK, [CacheNext]_cacheVars
             PROVE  CacheTypeOK'
  OBVIOUS
<1>1. ASSUME NEW c \in Callers, GetJson(c)
      PROVE  CacheTypeOK'
  <2>1. CASE \E result : Give(c, result)
    BY <1>1, <2>1, GiveOne DEF GetJson, CacheTypeOK
  <2>2. CASE ask' = [ask EXCEPT ![c].at = "try"] /\ UNCHANGED answer
    BY <1>1, <2>2 DEF GetJson, CacheTypeOK
  <2> QED
    BY <1>1, <2>1, <2>2 DEF GetJson
<1>2. ASSUME NEW c \in Callers, Attempt(c)
      PROVE  CacheTypeOK'
  <2> DEFINE Stages == {"idle", "try", "put"}
             Asks == [at : Stages, tried : Nat, got : Nat]
             label == IF reachable THEN "put" ELSE "try"
             seen == IF reachable THEN version ELSE 0
             tries == ask[c].tried + 1
             asked == [ask[c] EXCEPT !.tried = tries, !.at = label, !.got = seen]
  <2>1. label \in Stages /\ seen \in Nat /\ tries \in Nat /\ ask[c] \in Asks
    BY DEF CacheTypeOK
  <2>2. ask \in [Callers -> Asks] /\ ask' = [ask EXCEPT ![c] = asked]
    BY <1>2 DEF Attempt, CacheTypeOK
  <2> HIDE DEF label, seen, tries, Stages
  <2>3. asked \in Asks
    BY <2>1
  <2> HIDE DEF asked, Asks
  <2>4. ask' \in [Callers -> Asks]
    BY <2>2, <2>3
  <2> QED
    BY <1>2, <2>4 DEF Attempt, CacheTypeOK, Asks, Stages
<1>3. ASSUME NEW c \in Callers, Put(c)
      PROVE  CacheTypeOK'
  <2>1. CASE \E result : Give(c, result) /\ cache' = Copy(ask[c].got, hour)
    BY <1>3, <2>1, GiveOne DEF Put, CacheTypeOK, Copy, Copies
  <2>2. CASE ask' = [ask EXCEPT ![c].at = "try"] /\ UNCHANGED <<cache, answer>>
    BY <1>3, <2>2 DEF Put, CacheTypeOK
  <2> QED
    BY <1>3, <2>1, <2>2 DEF Put
<1>4. ASSUME NEW c \in Callers, FallBack(c)
      PROVE  CacheTypeOK'
  BY <1>4, GiveOne DEF FallBack, CacheTypeOK
<1>5. CASE Tick \/ Publish \/ Outage \/ UNCHANGED cacheVars
  BY <1>5 DEF Tick, Publish, Outage, cacheVars, CacheTypeOK
<1> QED
  BY <1>1, <1>2, <1>3, <1>4, <1>5 DEF CacheNext

\* A fallback says that it is stale when it is.
LEMMA FallBackIsFlagged ==
  ASSUME NEW copy
  PROVE  IsFlagged(Result(copy, TRUE, hour - copy.at > MaxAge))
<1> DEFINE old == hour - copy.at > MaxAge
           r == Result(copy, TRUE, old)
<1> HIDE DEF old
<1>1. r.at = copy.at /\ r.cached /\ r.stale = old
  BY Zenon DEF Result
<1> HIDE DEF r
<1>2. IsFlagged(r)
  BY <1>1 DEF IsFlagged, old
<1> QED
  BY <1>2 DEF r, old

\* A caller whose answer changes is given one that says how old it is.
LEMMA AnswersAreFlagged ==
  ASSUME CacheTypeOK, CacheNext, NEW c \in Callers,
         answer'[c] # answer[c], answer'[c] # None
  PROVE  IsFlagged(answer'[c])
<1>1. PICK d \in Callers : GetJson(d) \/ Put(d) \/ FallBack(d)
  BY DEF CacheNext, Attempt, Tick, Publish, Outage
<1>2. \E result : Give(d, result)
  BY <1>1 DEF GetJson, Put, FallBack
<1>3. d = c
  BY <1>2, GiveOne
<1>4. CASE GetJson(c)
  <2>1. /\ cache # None /\ hour - cache.at <= FreshFor
        /\ answer'[c] = Result(cache, TRUE, FALSE)
    BY <1>4, GiveOne DEF GetJson, Age
  <2> QED
    BY <2>1, AgeAssumption DEF IsFlagged, Result, CacheTypeOK, Copies
<1>5. CASE Put(c)
  <2>1. answer'[c] = Result(Copy(ask[c].got, hour), FALSE, FALSE)
    BY <1>5, GiveOne DEF Put
  <2> QED
    BY <2>1, AgeAssumption DEF IsFlagged, Result, Copy, CacheTypeOK
<1>6. CASE FallBack(c)
  <2>1. answer'[c] = Result(cache, TRUE, hour - cache.at > MaxAge)
    BY <1>6, GiveOne DEF FallBack, Age
  <2> QED
    BY <2>1, FallBackIsFlagged
<1> QED
  BY <1>1, <1>3, <1>4, <1>5, <1>6

(***************************************************************************)
(* For any callers, ages and number of attempts, an answer more than       *)
(* MaxAge hours old when it is given says so, and one that is not from the *)
(* cache is of that hour (Source.get_json, src/sources/base.py:146).       *)
(***************************************************************************)
THEOREM OldIsAlwaysFlagged == CacheSpec => OldIsFlagged
<1> DEFINE Flagged ==
       \A c \in Callers :
         answer'[c] # answer[c] /\ answer'[c] # None =>
           /\ hour - answer'[c].at > MaxAge => answer'[c].stale
           /\ ~answer'[c].cached => answer'[c].at = hour
<1>1. CacheTypeOK /\ [CacheNext]_cacheVars => [Flagged]_cacheVars
  BY AnswersAreFlagged DEF IsFlagged
<1> QED
  BY CacheTypeInit, CacheTypeStep, <1>1, PTL DEF CacheSpec, OldIsFlagged

-----------------------------------------------------------------------------
(* YahooAccess.  The gates only open, and where a runner's check has got   *)
(* to says which of them it has found open: that is the strengthening.     *)

Labels ==
  {"idle", "token", "call", "tell attached?", "tell attached", "tell working?", "tell working"}

\* The values of the variables.
AccessTypeOK ==
  /\ attached \in BOOLEAN /\ enabled \in BOOLEAN
  /\ token \in [Runners -> {"none", "stale", "good"}]
  /\ at \in [Runners -> Labels]
  /\ sent \in [Notes -> Nat]

\* What a runner's place in its check, and its token, say of Yahoo.
PlacesAreTrue ==
  \A r \in Runners :
    /\ at[r] # "idle" => attached
    /\ at[r] \in {"tell working?", "tell working"} => enabled
    /\ token[r] = "good" => attached

AccessInv == AccessTypeOK /\ PlacesAreTrue /\ NotesAreTrue

\* Initially nothing is attached, and nothing was announced.
LEMMA AccessInvInit == AccessInit => AccessInv
<1> SUFFICES ASSUME AccessInit
             PROVE  AccessInv
  OBVIOUS
<1>1. AccessTypeOK
  BY DEF AccessInit, AccessTypeOK, Labels, Notes
<1>2. PlacesAreTrue
  BY DEF AccessInit, PlacesAreTrue
<1>3. NotesAreTrue
  BY DEF AccessInit, NotesAreTrue, Notes
<1> QED
  BY <1>1, <1>2, <1>3 DEF AccessInv

\* The probe finds the scope only when it is attached.
LEMMA ProbeIsTrue ==
  ASSUME attached \in BOOLEAN, NEW reply \in ProbeAnswers, Verdict(reply) = "attached"
  PROVE  attached
  BY DEF ProbeAnswers, Verdict

\* A call succeeds only with a good token, once data is enabled.
LEMMA SuccessIsTrue ==
  ASSUME AccessTypeOK, NEW r \in Runners, NEW text \in CallAnswers(r), Succeeds(text)
  PROVE  enabled /\ token[r] = "good"
  BY DEF CallAnswers, Succeeds, AccessTypeOK

\* Each step of a check, of Yahoo or of the manager keeps the invariant.
LEMMA AccessInvStep == AccessInv /\ [AccessNext]_accessVars => AccessInv'
<1> SUFFICES ASSUME AccessInv, [AccessNext]_accessVars
             PROVE  AccessInv'
  OBVIOUS
<1> USE DEF AccessInv, AccessTypeOK, PlacesAreTrue, NotesAreTrue, Notes
<1>1. CASE Attach
  BY <1>1 DEF Attach
<1>2. CASE Enable
  BY <1>2 DEF Enable
<1>3. ASSUME NEW r \in Runners, Consent(r)
      PROVE  AccessInv'
  BY <1>3 DEF Consent
<1>4. ASSUME NEW r \in Runners, DeleteToken(r)
      PROVE  AccessInv'
  BY <1>4 DEF DeleteToken
<1>5. ASSUME NEW r \in Runners, Probe(r)
      PROVE  AccessInv'
  <2>1. PICK reply \in ProbeAnswers :
          at' = [at EXCEPT ![r] = IF Verdict(reply) = "attached" THEN "token" ELSE "idle"]
    BY <1>5 DEF Probe, Go
  <2>2. Verdict(reply) = "attached" => attached
    BY ProbeIsTrue
  <2> QED
    BY <1>5, <2>1, <2>2 DEF Probe, Labels
<1>6. ASSUME NEW r \in Runners, LookForToken(r)
      PROVE  AccessInv'
  BY <1>6 DEF LookForToken, Go, Labels
<1>7. ASSUME NEW r \in Runners, Call(r)
      PROVE  AccessInv'
  <2>1. PICK text \in CallAnswers(r) :
          at' = [at EXCEPT ![r] = IF Succeeds(text) THEN "tell working?" ELSE "idle"]
    BY <1>7 DEF Call, Go
  <2>2. Succeeds(text) => enabled /\ token[r] = "good"
    BY SuccessIsTrue
  <2> QED
    BY <1>7, <2>1, <2>2 DEF Call, Labels
<1>8. ASSUME NEW r \in Runners,
             \/ EverSent(r, "attached", "tell attached?", "tell attached")
             \/ EverSent(r, "working", "tell working?", "tell working")
      PROVE  AccessInv'
  BY <1>8 DEF EverSent, Go, Labels
<1>9. ASSUME NEW r \in Runners,
             \/ Send(r, "attached", "tell attached")
             \/ Send(r, "working", "tell working")
      PROVE  AccessInv'
  <2>1. at' = [at EXCEPT ![r] = "idle"] /\ UNCHANGED <<attached, enabled, token>>
    BY <1>9 DEF Send, Go
  <2>2. PICK note \in Notes :
          /\ attached /\ (note = "working" => enabled)
          /\ sent' = sent \/ sent' = [sent EXCEPT ![note] = sent[note] + 1]
    BY <1>9 DEF Send
  <2>3. sent' \in [Notes -> Nat]
    BY ONLY <2>2, sent \in [Notes -> Nat], note \in Notes, SMT
  <2>4. PlacesAreTrue'
    BY <2>1
  <2>5. NotesAreTrue'
    BY <2>1, <2>2
  <2>6. at' \in [Runners -> Labels]
    BY <2>1 DEF Labels
  <2> QED
    BY <2>1, <2>3, <2>4, <2>5, <2>6
<1>10. CASE UNCHANGED accessVars
  BY <1>10 DEF accessVars
<1> HIDE DEF AccessInv, AccessTypeOK, PlacesAreTrue, NotesAreTrue
<1>11. ASSUME NEW r \in Runners, Announce(r)
       PROVE  AccessInv'
  BY <1>5, <1>6, <1>7, <1>8, <1>9, <1>11 DEF Announce
<1> QED
  BY <1>1, <1>2, <1>3, <1>4, <1>10, <1>11 DEF AccessNext

(***************************************************************************)
(* For any number of runners, terminals and announcements, no note is sent *)
(* before what it announces has happened (announce_yahoo_scope,            *)
(* src/cli.py:444).                                                        *)
(***************************************************************************)
THEOREM NotesAreAlwaysTrue == AccessSpec => []NotesAreTrue
<1>1. AccessInv => NotesAreTrue
  BY DEF AccessInv
<1> QED
  BY AccessInvInit, AccessInvStep, <1>1, PTL DEF AccessSpec

\* The five classes, one by one: what each is called, and is known by.
LEMMA ClassesAre ==
  /\ DOMAIN Classes = {1, 2, 3, 4, 5}
  /\ Classes[1].kind = "stale-scope" /\ Classes[2].kind = "no-consent"
  /\ Classes[3].kind = "rate-limited" /\ Classes[4].kind = "not-provisioned"
<1>1. DOMAIN Classes = 1..5
  BY DEF Classes
<1>2. Classes[1].kind = "stale-scope" /\ Classes[2].kind = "no-consent"
  BY DEF Classes
<1>3. Classes[3].kind = "rate-limited" /\ Classes[4].kind = "not-provisioned"
  BY DEF Classes
<1> QED
  BY <1>1, <1>2, <1>3

\* A text is of the first class that has one of its markers.
LEMMA FirstClassWins ==
  ASSUME NEW text, NEW i \in DOMAIN Classes, Classes[i].markers \cap text # {},
         \A j \in DOMAIN Classes : j < i => Classes[j].markers \cap text = {}
  PROVE  Classify(text) = Classes[i].kind
<1> DEFINE hits == {j \in DOMAIN Classes : Classes[j].markers \cap text # {}}
<1>1. DOMAIN Classes \subseteq Nat
  BY ClassesAre
<1>2. i \in hits /\ hits \subseteq Nat /\ \A j \in hits : ~(j < i)
  BY <1>1
<1>3. Classify(text) = Classes[CHOOSE j \in hits : \A k \in hits : j <= k].kind
  BY <1>2, Zenon DEF Classify
<1> HIDE DEF hits
<1>4. (CHOOSE j \in hits : \A k \in hits : j <= k) = i
  BY <1>2
<1> QED
  BY <1>3, <1>4

\* Of a text with one marker, it is the first class that has that.
LEMMA ClassOfMarker ==
  ASSUME NEW m, NEW i \in {1, 2, 3, 4}, m \in Classes[i].markers,
         \A j \in {1, 2, 3} : j < i => m \notin Classes[j].markers
  PROVE  Classify({m}) = Classes[i].kind
<1>1. i \in DOMAIN Classes /\ Classes[i].markers \cap {m} # {}
  BY ClassesAre
<1>2. \A j \in DOMAIN Classes : j < i => Classes[j].markers \cap {m} = {}
  BY ClassesAre
<1> QED
  BY <1>1, <1>2, FirstClassWins

\* What each answer a call can get is taken for.
LEMMA AnswersAreClassified ==
  /\ Classify({"timed out"}) = "error"
  /\ Classify({"999"}) = "rate-limited"
  /\ Classify({"eof when reading"}) = "no-consent"
  /\ Classify({"additional_authorization_required", "valid credentials"}) = "stale-scope"
  /\ Classify({"not authorized to perform this action"}) = "not-provisioned"
<1>1. Classify({"timed out"}) = "error"
  <2>1. "timed out" \notin Classes[1].markers /\ "timed out" \notin Classes[2].markers
    BY DEF Classes
  <2>2. "timed out" \notin Classes[3].markers /\ "timed out" \notin Classes[5].markers
    BY DEF Classes
  <2>3. "timed out" \notin Classes[4].markers
    BY DEF Classes
  <2>4. {i \in DOMAIN Classes : Classes[i].markers \cap {"timed out"} # {}} = {}
    BY <2>1, <2>2, <2>3, ClassesAre
  <2> QED
    BY <2>4, Zenon DEF Classify
<1>2. Classify({"999"}) = Classes[3].kind
  <2>1. /\ "999" \notin Classes[1].markers /\ "999" \notin Classes[2].markers
        /\ "999" \in Classes[3].markers
    BY DEF Classes
  <2> QED
    BY <2>1, ClassOfMarker
<1>3. Classify({"eof when reading"}) = Classes[2].kind
  <2> DEFINE eof == "eof when reading"
  <2>1. eof \notin Classes[1].markers /\ eof \in Classes[2].markers
    BY DEF Classes
  <2> HIDE DEF eof
  <2>2. ASSUME NEW j \in {1, 2, 3}, j < 2
        PROVE  eof \notin Classes[j].markers
    <3>1. j = 1
      BY <2>2
    <3> QED
      BY <2>1, <3>1
  <2>3. Classify({eof}) = Classes[2].kind
    BY <2>1, <2>2, ClassOfMarker
  <2> QED
    BY <2>3 DEF eof
<1>4. Classify({"additional_authorization_required", "valid credentials"}) = Classes[1].kind
  <2>1. "additional_authorization_required" \in Classes[1].markers
    BY DEF Classes
  <2> DEFINE text == {"additional_authorization_required", "valid credentials"}
  <2>2. Classes[1].markers \cap text # {} /\ 1 \in DOMAIN Classes
    BY <2>1, ClassesAre
  <2>3. \A j \in DOMAIN Classes : ~(j < 1)
    BY ClassesAre
  <2> HIDE DEF text
  <2>4. Classify(text) = Classes[1].kind
    BY <2>2, <2>3, FirstClassWins
  <2> QED
    BY <2>4 DEF text
<1>5. Classify({"not authorized to perform this action"}) = Classes[4].kind
  <2> DEFINE refused == "not authorized to perform this action"
  <2>1. /\ refused \notin Classes[1].markers /\ refused \notin Classes[2].markers
        /\ refused \notin Classes[3].markers
    BY DEF Classes
  <2>2. refused \in Classes[4].markers
    BY DEF Classes
  <2> QED
    BY <2>1, <2>2, ClassOfMarker
<1> QED
  BY <1>1, <1>2, <1>3, <1>4, <1>5, ClassesAre

\* The probe's answer is bad only when the scope is not attached.
LEMMA VerdictIsRight ==
  ASSUME NEW reply \in ProbeAnswers
  PROVE  /\ Verdict(reply) # "bad-client"
         /\ Verdict(reply) = "not-attached" <=> reply = "invalid_scope"
         /\ attached /\ attached \in BOOLEAN => reply # "invalid_scope"
BY DEF ProbeAnswers, Verdict

(***************************************************************************)
(* Whatever Yahoo and the network answer, doctor says "working" only of a  *)
(* runner whose call would be answered, blames consent exactly on a runner *)
(* without a token, and reports a refusal only where there is one          *)
(* (_describe_yahoo_access, src/cli.py; classify_access_error,             *)
(* src/yahoo_client.py).                                                   *)
(***************************************************************************)
THEOREM DoctorIsAlwaysRight == AccessSpec => []DoctorIsRight
<1>1. ASSUME AccessInv
      PROVE  DoctorIsRight
  <2> SUFFICES ASSUME NEW r \in Runners, NEW reply \in ProbeAnswers,
                      NEW text \in CallAnswers(r)
               PROVE  LET said == Diagnosis(r, reply, text) IN
                      /\ said = "working" => enabled /\ token[r] = "good"
                      /\ said = "not-attached" => ~attached
                      /\ said = "no-consent" <=>
                           token[r] = "none" /\ ~(r \in Keyed /\ reply = "invalid_scope")
                      /\ said = "not-provisioned" => token[r] = "good" /\ ~enabled
    BY DEF DoctorIsRight
  <2>1. token[r] \in {"none", "stale", "good"} /\ enabled \in BOOLEAN /\ attached \in BOOLEAN
    BY <1>1 DEF AccessInv, AccessTypeOK
  <2>2. CASE r \in Keyed /\ reply = "invalid_scope"
    <3>1. Diagnosis(r, reply, text) = "not-attached"
      BY <2>2, VerdictIsRight DEF Diagnosis
    <3> QED
      BY <2>1, <2>2, <3>1, VerdictIsRight
  <2>3. CASE ~(r \in Keyed /\ reply = "invalid_scope") /\ token[r] = "none"
    <3>1. Diagnosis(r, reply, text) = "no-consent"
      BY <2>3, VerdictIsRight DEF Diagnosis
    <3> QED
      BY <2>3, <3>1
  <2>4. CASE ~(r \in Keyed /\ reply = "invalid_scope") /\ token[r] # "none"
    <3>1. Diagnosis(r, reply, text) = IF Succeeds(text) THEN "working" ELSE Classify(text)
      BY <2>4, VerdictIsRight DEF Diagnosis
    <3>2. CASE text = {}
      <4>1. enabled /\ token[r] = "good"
        BY <1>1, <3>2, SuccessIsTrue DEF AccessInv, Succeeds
      <4> QED
        BY <2>4, <3>1, <3>2, <4>1 DEF Succeeds
    <3>3. CASE text # {}
      <4>1. \/ text = {"timed out"} \/ text = {"999"}
            \/ text = {"additional_authorization_required", "valid credentials"}
            \/ /\ text = {"not authorized to perform this action"}
               /\ token[r] = "good" /\ ~enabled
        BY <2>1, <2>4, <3>3 DEF CallAnswers
      <4> QED
        BY <2>4, <3>1, <3>3, <4>1, AnswersAreClassified DEF Succeeds
    <3> QED
      BY <3>2, <3>3
  <2> QED
    BY <2>2, <2>3, <2>4
<1> QED
  BY AccessInvInit, AccessInvStep, <1>1, PTL DEF AccessSpec

-----------------------------------------------------------------------------
(* ProjectionSync.  A blend is current from the leg that makes it, but for *)
(* the consensus, until a second blend has followed it: that, leg by leg,  *)
(* is the strengthening.                                                   *)

\* The values of the variables.
SyncTypeOK ==
  /\ settings \in Settings
  /\ week \in 0 .. LastWeek
  /\ leg \in 0 .. 10
  /\ proj \in [ProjectionSources -> [AllWeeks -> {Absent, Old, New}]]
  /\ {"parts", "graded"} \subseteq DOMAIN blend
  /\ blend.graded \subseteq 1 .. week - 1

\* The blend has what is stored of these sources for the week.
IsCurrent(S) ==
  \A s \in S : s \in DOMAIN blend.parts /\ blend.parts[s] = proj[s][week]

TheConsensus == {"fantasypros"}

\* Of what the blend is current, at each leg after it was made.
BlendKeepsUp ==
  week > 0 =>
    /\ leg = 8 => IsCurrent(Usable(week, earned))
    /\ leg = 9 =>
         IsCurrent(Usable(week, earned)
                     \ (IF "fantasypros" \in settings.on THEN TheConsensus ELSE {}))
    /\ leg = 10 \/ (leg = 0 /\ ended = "ok") =>
         IsCurrent(Usable(week, earned) \ (IF raised THEN TheConsensus ELSE {}))

SyncInv == SyncTypeOK /\ BlendKeepsUp

\* The ten legs.
LEMMA LegsAre ==
  /\ Len(Legs) = 10
  /\ Legs[1] = "season" /\ Legs[2] = "optional" /\ Legs[3] = "weekly proj"
  /\ Legs[4] = "espn week" /\ Legs[5] = "season blend" /\ Legs[6] = "back-fill"
  /\ Legs[7] = "weekly blend" /\ Legs[8] = "consensus" /\ Legs[9] = "blend again"
  /\ Legs[10] = "yahoo"
BY DEF Legs

\* Which leg it is, by its name, and what else the name says.
LEMMA LegOf ==
  ASSUME NEW n \in 0 .. 10, n > 0
  PROVE  /\ Legs[n] = "weekly proj" <=> n = 3
         /\ Legs[n] = "espn week" <=> n = 4
         /\ Legs[n] = "back-fill" <=> n = 6
         /\ Legs[n] = "weekly blend" <=> n = 7
         /\ Legs[n] = "consensus" <=> n = 8
         /\ Legs[n] = "blend again" <=> n = 9
<1>1. n \in {1, 2, 3, 4, 5, 6, 7, 8, 9, 10}
  OBVIOUS
<1> QED
  BY <1>1, LegsAre

\* Initially no run is on and nothing is blended.
LEMMA SyncInvInit == SyncInit => SyncInv
<1> SUFFICES ASSUME SyncInit
             PROVE  SyncInv
  OBVIOUS
<1>1. week = 0 /\ leg = 0 /\ settings \in Settings /\ blend = NoBlend
  BY DEF SyncInit
<1>2. proj \in [ProjectionSources -> [AllWeeks -> {Absent, Old, New}]]
  BY DEF SyncInit
<1>3. {"parts", "graded"} \subseteq DOMAIN NoBlend /\ NoBlend.graded = {}
  BY DEF NoBlend
<1>4. SyncTypeOK
  BY <1>1, <1>2, <1>3, ProjectionSyncAssumption DEF SyncTypeOK
<1>5. BlendKeepsUp
  BY <1>1 DEF BlendKeepsUp
<1> QED
  BY <1>4, <1>5 DEF SyncInv

\* A leg that is over leaves the run at the next, or ends it well after the last.
LEMMA GoesOn ==
  ASSUME SyncTypeOK, leg > 0, GoOn
  PROVE  /\ leg' \in 0 .. 10
         /\ leg < 10 => leg' = leg + 1
         /\ leg = 10 => leg' = 0 /\ ended' = "ok"
<1>1. leg \in 0 .. 10 /\ Len(Legs) = 10
  BY LegsAre DEF SyncTypeOK
<1> QED
  BY <1>1 DEF GoOn

\* What a leg does that changes neither the stored rows nor the blend.
LEMMA GoingOnKeepsUp ==
  ASSUME SyncInv, leg > 0, GoOn, leg = 7 => week = 0,
         leg = 8 => week = 0 \/ "fantasypros" \notin settings.on,
         leg = 9 => week = 0 \/ "fantasypros" \notin settings.on \/ raised,
         UNCHANGED <<settings, week, played, proj, earned, blend, raised>>
  PROVE  SyncInv'
<1>1. SyncTypeOK'
  BY GoesOn DEF SyncInv, SyncTypeOK
<1>2. /\ \A S : IsCurrent(S)' <=> IsCurrent(S)
      /\ Usable(week, earned)' = Usable(week, earned)
  BY DEF IsCurrent, Usable, Stored
<1>3. BlendKeepsUp'
  BY <1>2, GoesOn DEF SyncInv, SyncTypeOK, BlendKeepsUp, IsCurrent
<1> QED
  BY <1>1, <1>3 DEF SyncInv

\* A blend of what is stored is current.
LEMMA BlendIsMade ==
  ASSUME SyncTypeOK, NEW e, BlendAll(week, e),
         UNCHANGED <<settings, week, played, proj>>
  PROVE  /\ IsCurrent(Usable(week, e))'
         /\ {"parts", "graded"} \subseteq DOMAIN blend'
         /\ blend'.graded \subseteq 1 .. week - 1
<1>1. CASE Stored(week) = {}
  BY <1>1 DEF BlendAll, Usable, Stored, IsCurrent, SyncTypeOK
<1>2. CASE Stored(week) # {}
  <2>1. blend' = BlendOf(week, e)
    BY <1>2 DEF BlendAll
  <2>2. Usable(week, e)' = Usable(week, e)
    BY DEF Usable, Stored
  <2>3. /\ blend'.parts = [s \in Usable(week, e) |-> proj[s][week]]
        /\ {"parts", "graded"} \subseteq DOMAIN blend'
        /\ blend'.graded = IF e THEN UNION {GradedOn(s, week) : s \in Scored(week)} ELSE {}
    BY <2>1, Zenon DEF BlendOf
  <2>4. \A s : GradedOn(s, week) \subseteq 1 .. week - 1
    BY DEF GradedOn, GradedBefore
  <2> QED
    BY <2>2, <2>3, <2>4 DEF IsCurrent
<1> QED
  BY <1>1, <1>2

\* Between runs, and on the legs before the blend, nothing is claimed of it.
LEMMA NothingClaimed ==
  ASSUME leg' \in 0 .. 7, leg' = 0 => ended' # "ok"
  PROVE  BlendKeepsUp'
BY DEF BlendKeepsUp

\* A row stored for a source and a week of the season.
LEMMA RowIsStored ==
  ASSUME SyncTypeOK, NEW s \in ProjectionSources, NEW w \in AllWeeks,
         proj' = [proj EXCEPT ![s][w] = New]
  PROVE  /\ proj' \in [ProjectionSources -> [AllWeeks -> {Absent, Old, New}]]
         /\ \A t \in ProjectionSources \ {s} : proj'[t] = proj[t]
BY DEF SyncTypeOK

\* A leg that stores a source's rows of the week, before the blend.
LEMMA StoringKeepsUp ==
  ASSUME SyncInv, NEW s \in ProjectionSources, leg = 3 \/ leg = 4, GoOn, week > 0,
         proj' = [proj EXCEPT ![s][week] = New] \/ UNCHANGED proj,
         UNCHANGED <<settings, week, blend>>
  PROVE  SyncInv'
<1>1. leg > 0 /\ leg < 10 /\ week \in 1 .. LastWeek
  BY ProjectionSyncAssumption DEF SyncInv, SyncTypeOK
<1>2. leg' \in 0 .. 10 /\ leg' = leg + 1
  BY <1>1, GoesOn DEF SyncInv
<1>3. leg' \in 0 .. 7 /\ leg' # 0
  BY <1>2
<1>4. proj' \in [ProjectionSources -> [AllWeeks -> {Absent, Old, New}]]
  BY <1>1, RowIsStored DEF SyncInv, SyncTypeOK, AllWeeks
<1>5. SyncTypeOK'
  BY <1>2, <1>4 DEF SyncInv, SyncTypeOK
<1>6. BlendKeepsUp'
  BY <1>3, NothingClaimed
<1> QED
  BY <1>5, <1>6 DEF SyncInv

\* Every step of a run, the next week and new results keep the invariant.
LEMMA SyncInvStep == SyncInv /\ [SyncNext]_syncVars => SyncInv'
<1> SUFFICES ASSUME SyncInv, [SyncNext]_syncVars
             PROVE  SyncInv'
  OBVIOUS
<1>0. leg \in 0 .. 10 /\ week \in 0 .. LastWeek
  BY DEF SyncInv, SyncTypeOK
<1>1. CASE Start
  <2>1. \A f : f \in [AllWeeks -> {Absent, Old, New}]
                  => Aged(f) \in [AllWeeks -> {Absent, Old, New}]
    BY DEF Aged
  <2>2. proj' \in [ProjectionSources -> [AllWeeks -> {Absent, Old, New}]]
    BY <1>1, <2>1 DEF Start, SyncInv, SyncTypeOK
  <2>3. /\ DOMAIN blend' = DOMAIN blend /\ blend'.graded = blend.graded
    BY <1>1 DEF Start, SyncInv, SyncTypeOK
  <2>4. leg' = 1 /\ UNCHANGED <<settings, week>>
    BY <1>1 DEF Start
  <2> QED
    BY <2>2, <2>3, <2>4, NothingClaimed DEF SyncInv, SyncTypeOK
<1>2. CASE Skip
  <2>1. /\ leg > 0 /\ GoOn /\ ~SwitchedOn(Legs[leg])
        /\ UNCHANGED <<settings, week, played, proj, earned, blend, raised>>
    BY <1>2 DEF Skip
  <2>0. week > 0 \/ week = 0
    BY <1>0, ProjectionSyncAssumption
  <2>2. leg = 7 => week = 0
    BY <2>0, <2>1, LegsAre DEF SwitchedOn
  <2>3. leg = 8 => week = 0 \/ "fantasypros" \notin settings.on
    BY <2>0, <2>1, LegsAre DEF SwitchedOn
  <2>4. leg = 9 => week = 0 \/ "fantasypros" \notin settings.on \/ raised
    BY <2>0, <2>1, LegsAre DEF SwitchedOn
  <2> QED
    BY <2>1, <2>2, <2>3, <2>4, GoingOnKeepsUp
<1>3. CASE Other
  <2>1. /\ leg > 0 /\ GoOn
        /\ Legs[leg] \in {"season", "optional", "season blend", "yahoo"}
        /\ UNCHANGED <<settings, week, played, proj, earned, blend, raised>>
    BY <1>3 DEF Other, Leg, At
  <2>2. leg \notin {7, 8, 9}
    BY <2>1, LegsAre
  <2> QED
    BY <2>1, <2>2, GoingOnKeepsUp
<1>4. ASSUME leg > 0, leg' = 0, ended' = "failed",
             UNCHANGED <<settings, week, played, proj, earned, blend, raised>>
      PROVE  SyncInv'
  BY <1>4, NothingClaimed DEF SyncInv, SyncTypeOK
<1>5. CASE LegRaises
  <2>1. /\ leg > 0 /\ Raise
        /\ Legs[leg] \notin {"consensus", "blend again", "back-fill"}
        /\ UNCHANGED <<settings, week, played, proj, earned, blend, raised>>
    BY <1>5 DEF LegRaises
  <2>2. CASE Legs[leg] \in Mandatory
    BY <1>4, <2>1, <2>2 DEF Raise
  <2>3. CASE Legs[leg] \notin Mandatory
    <3>1. GoOn /\ leg \notin {7, 8, 9}
      BY <2>1, <2>3, LegsAre DEF Raise, Mandatory
    <3> QED
      BY <2>1, <3>1, GoingOnKeepsUp
  <2> QED
    BY <2>2, <2>3
<1>6. CASE Killed
  BY <1>4, <1>6 DEF Killed
<1>7. CASE SleeperWeek \/ EspnWeek
  <2>1. PICK s \in ProjectionSources :
          proj' = [proj EXCEPT ![s][week] = New] \/ UNCHANGED proj
    BY <1>7 DEF SleeperWeek, EspnWeek, StoreLeg, Stores, ProjectionSources
  <2>2. /\ leg > 0 /\ GoOn /\ week > 0
        /\ Legs[leg] = "weekly proj" \/ Legs[leg] = "espn week"
        /\ UNCHANGED <<settings, week, blend>>
    BY <1>7 DEF SleeperWeek, EspnWeek, StoreLeg, Leg, At, SwitchedOn, InSeason
  <2>3. leg = 3 \/ leg = 4
    BY <1>0, <2>2, LegOf
  <2> QED
    BY <2>1, <2>2, <2>3, StoringKeepsUp
<1>8. CASE BackFill
  <2>1. /\ leg > 0 /\ Legs[leg] = "back-fill" /\ GoOn
        /\ UNCHANGED <<settings, week, played, earned, blend, raised>>
    BY <1>8 DEF BackFill, Leg, At
  <2>0. leg = 6
    BY <1>0, <2>1, LegOf
  <2>2. leg' = 7
    BY <2>0, <2>1, GoesOn DEF SyncInv
  <2>3. proj' \in [ProjectionSources -> [AllWeeks -> {Absent, Old, New}]]
    BY <1>8 DEF BackFill, SyncInv, SyncTypeOK, ProjectionSources
  <2> QED
    BY <2>1, <2>2, <2>3, NothingClaimed DEF SyncInv, SyncTypeOK
<1>9. CASE BlendWeek
  <2>1. /\ leg > 0 /\ Legs[leg] = "weekly blend" /\ GoOn
        /\ UNCHANGED <<settings, week, played, proj, raised>>
    BY <1>9 DEF BlendWeek, Leg, At
  <2>0. leg = 7
    BY <1>0, <2>1, LegOf
  <2>2. leg' = 8
    <3>1. leg > 0 /\ leg < 10
      BY ONLY <2>0
    <3>2. leg' = leg + 1
      BY <2>1, <3>1, GoesOn DEF SyncInv
    <3> QED
      BY ONLY <2>0, <3>2
  <2>3. /\ IsCurrent(Usable(week, earned))'
        /\ {"parts", "graded"} \subseteq DOMAIN blend'
        /\ blend'.graded \subseteq 1 .. week - 1
    BY <1>9, BlendIsMade DEF BlendWeek, SyncInv
  <2>4. BlendKeepsUp'
    BY <2>2, <2>3 DEF BlendKeepsUp
  <2>5. leg' \in 0 .. 10
    BY ONLY <2>2
  <2>6. SyncTypeOK'
    BY <2>1, <2>3, <2>5 DEF SyncInv, SyncTypeOK
  <2> QED
    BY <2>4, <2>6 DEF SyncInv
<1>10. CASE BlendAgain
  <2>1. /\ leg > 0 /\ Legs[leg] = "blend again" /\ GoOn
        /\ UNCHANGED <<settings, week, played, proj, earned, raised>>
    BY <1>10 DEF BlendAgain, Leg, At
  <2>0. leg = 9
    BY <1>0, <2>1, LegOf
  <2>2. leg' = 10
    <3>1. leg > 0 /\ leg < 10
      BY ONLY <2>0
    <3>2. leg' = leg + 1
      BY <2>1, <3>1, GoesOn DEF SyncInv
    <3> QED
      BY ONLY <2>0, <3>2
  <2>3. /\ IsCurrent(Usable(week, earned))'
        /\ {"parts", "graded"} \subseteq DOMAIN blend'
        /\ blend'.graded \subseteq 1 .. week - 1
    BY <1>10, BlendIsMade DEF BlendAgain, SyncInv
  <2>4. BlendKeepsUp'
    BY <2>2, <2>3 DEF BlendKeepsUp, IsCurrent
  <2>5. leg' \in 0 .. 10
    BY ONLY <2>2
  <2>6. SyncTypeOK'
    BY <2>1, <2>3, <2>5 DEF SyncInv, SyncTypeOK
  <2> QED
    BY <2>4, <2>6 DEF SyncInv
<1>11. CASE Consensus
  <2>1. /\ leg > 0 /\ Legs[leg] = "consensus" /\ GoOn /\ raised' \in BOOLEAN
        /\ proj' = proj \/ proj' = [proj EXCEPT !["fantasypros"][week] = New]
        /\ UNCHANGED <<settings, week, played, earned, blend>>
        /\ week > 0 /\ "fantasypros" \in settings.on
    BY <1>11 DEF Consensus, Leg, At, SwitchedOn, InSeason
  <2>0. leg = 8 /\ week > 0
    BY <1>0, <2>1, LegOf
  <2>a. leg' = 9
    BY <2>0, <2>1, GoesOn DEF SyncInv
  <2>b. week \in AllWeeks
    BY <1>0, <2>0, ProjectionSyncAssumption DEF AllWeeks
  <2>2. leg = 8 /\ leg' = 9 /\ week \in AllWeeks
    BY <2>0, <2>a, <2>b
  <2>3. /\ proj' \in [ProjectionSources -> [AllWeeks -> {Absent, Old, New}]]
        /\ \A t \in ProjectionSources \ TheConsensus : proj'[t] = proj[t]
    BY <2>1, <2>2, RowIsStored DEF SyncInv, SyncTypeOK, TheConsensus, ProjectionSources
  <2>4. Usable(week, earned)' \ TheConsensus = Usable(week, earned) \ TheConsensus
    BY <2>1, <2>3 DEF Usable, Stored
  <2>5. IsCurrent(Usable(week, earned))
    BY <2>1, <2>2 DEF SyncInv, BlendKeepsUp
  <2>6. IsCurrent(Usable(week, earned) \ TheConsensus)'
    <3> SUFFICES ASSUME NEW s \in Usable(week, earned) \ TheConsensus
                 PROVE  s \in DOMAIN blend.parts /\ blend.parts[s] = proj'[s][week]
      BY <2>1, <2>4 DEF IsCurrent, TheConsensus
    <3>1. s \in ProjectionSources \ TheConsensus
      BY DEF Usable, Stored
    <3> QED
      BY <2>3, <2>5, <3>1 DEF IsCurrent
  <2>7. BlendKeepsUp'
    BY <2>1, <2>2, <2>6 DEF BlendKeepsUp, TheConsensus
  <2> QED
    BY <2>1, <2>2, <2>3, <2>7 DEF SyncInv, SyncTypeOK
<1>12. CASE NewWeek
  <2>1. leg' = 0 /\ ended' # "ok" /\ week' = week + 1 /\ week < LastWeek /\ blend' = NoBlend
        /\ UNCHANGED <<settings, proj>>
    BY <1>12, Zenon DEF NewWeek
  <2>2. {"parts", "graded"} \subseteq DOMAIN NoBlend /\ NoBlend.graded = {}
    BY DEF NoBlend
  <2>3. week' \in 0 .. LastWeek
    BY <1>0, <2>1, ProjectionSyncAssumption
  <2>4. BlendKeepsUp'
    BY <2>1, NothingClaimed
  <2>5. SyncTypeOK'
    BY <2>1, <2>2, <2>3 DEF SyncInv, SyncTypeOK
  <2> QED
    BY <2>4, <2>5 DEF SyncInv
<1>13. CASE Results
  <2>1. leg' = 0 /\ ended' # "ok" /\ UNCHANGED <<settings, week, proj, blend>>
    BY <1>13, Zenon DEF Results
  <2>2. BlendKeepsUp'
    BY <2>1, NothingClaimed
  <2>3. SyncTypeOK'
    BY <2>1 DEF SyncInv, SyncTypeOK
  <2> QED
    BY <2>2, <2>3 DEF SyncInv
<1>14. CASE UNCHANGED syncVars
  <2>1. /\ UNCHANGED <<settings, week, proj, earned, blend, leg, raised, ended>>
        /\ Usable(week, earned)' = Usable(week, earned)
    BY <1>14 DEF syncVars, Usable, Stored
  <2> QED
    BY <2>1 DEF SyncInv, SyncTypeOK, BlendKeepsUp, IsCurrent
<1> QED
  BY <1>1, <1>2, <1>3, <1>5, <1>6, <1>7, <1>8, <1>9, <1>10, <1>11, <1>12, <1>13, <1>14
     DEF SyncNext, Step

(***************************************************************************)
(* For a season of any length, whatever the settings, failures and weights *)
(* of its runs: a run that ends well leaves the week's blend made of       *)
(* exactly what is stored, but for a consensus that raised                 *)
(* (src/cli.py:968-991), and no source is graded on the week it is blended *)
(* for (src/analytics/accuracy.py:257).                                    *)
(***************************************************************************)
THEOREM SyncIsAlwaysSound == SyncSpec => []SyncIsSound
<1>1. ASSUME SyncInv
      PROVE  SyncIsSound
  <2>1. BlendIsCurrent
    BY <1>1 DEF SyncInv, BlendKeepsUp, BlendIsCurrent, IsCurrent, TheConsensus
  <2>2. NotOnTheAnswerKey
    BY <1>1 DEF SyncInv, SyncTypeOK, NotOnTheAnswerKey
  <2> QED
    BY <2>1, <2>2 DEF SyncIsSound
<1> QED
  BY SyncInvInit, SyncInvStep, <1>1, PTL DEF SyncSpec

-----------------------------------------------------------------------------
(* Identity.                                                               *)

\* A table of ids has this one, as this key's.
Maps(table, i, k) == i \in DOMAIN table /\ table[i].key = k

\* The dumps speak of people the model knows, and say what it lets them say.
FromLives(dump) ==
  /\ DOMAIN dump \subseteq DOMAIN Lives
  /\ \A p \in DOMAIN dump : dump[p] \in Lives[p]

\* The id is the key's in the store, on disk, and in what the run has loaded.
EspnResolves(i, k) ==
  /\ Maps(idmap, i, k)
  /\ Maps(durable.idmap, i, k)
  /\ "espn" \in recalled.sources => Maps(recalled.map, i, k)

IdentityInv ==
  /\ FromLives(feed) /\ FromLives(synced)
  /\ \A p \in DOMAIN synced :
       /\ synced[p].espn # Unsaid
       /\ <<"espn", synced[p].espn>> \notin DOMAIN Overrides
       => EspnResolves(<<"espn", synced[p].espn>>, Key(synced[p]))

\* A key that the later table gives, or the earlier one where the later does
\* not speak, is the key that Merge gives.
LEMMA MergeMaps ==
  ASSUME NEW f, NEW g, NEW i, NEW k,
         i \in DOMAIN g => g[i].key = k,
         i \in DOMAIN g \/ Maps(f, i, k)
  PROVE  Maps(Merge(f, g), i, k)
<1>1. DOMAIN Merge(f, g) = DOMAIN f \cup DOMAIN g
  BY DEF Merge
<1>2. CASE i \in DOMAIN g
  <2>1. Merge(f, g)[i] = g[i]
    BY <1>2 DEF Merge
  <2> QED
    BY <1>1, <1>2, <2>1 DEF Maps
<1>3. CASE i \notin DOMAIN g
  <2>1. Maps(f, i, k)
    BY <1>3
  <2>2. Merge(f, g)[i] = f[i]
    BY <1>3, <2>1 DEF Maps, Merge
  <2> QED
    BY <1>1, <2>1, <2>2 DEF Maps
<1> QED
  BY <1>2, <1>3

\* What is loaded of the store is what is stored, over what was known.
LEMMA LoadingMaps ==
  ASSUME NEW known, NEW L, NEW i, NEW k, L \subseteq DOMAIN idmap,
         Maps(idmap, i, k),
         i \in L \/ Maps(known, i, k)
  PROVE  Maps(Merge(known, Restrict(idmap, L)), i, k)
<1>1. DOMAIN Restrict(idmap, L) = L /\ \A x \in L : Restrict(idmap, L)[x] = idmap[x]
  BY DEF Restrict
<1>2. i \in L => Restrict(idmap, L)[i].key = k
  BY <1>1 DEF Maps
<1> QED
  BY <1>1, <1>2, MergeMaps

\* What is recorded agrees with the key, if it speaks of the id; then so do the
\* store and what the run remembers of the source.
LEMMA RecordingMaps ==
  ASSUME NEW new, NEW i, NEW k, RecordMappings(new),
         i \in DOMAIN new => new[i].key = k,
         \/ i \in DOMAIN new
         \/ Maps(idmap, i, k) /\ (i[1] \in recalled.sources => Maps(recalled.map, i, k))
  PROVE  /\ Maps(idmap', i, k)
         /\ i[1] \in recalled'.sources => Maps(recalled'.map, i, k)
<1> DEFINE said == {j[1] : j \in DOMAIN new}
           loaded == UNION {MappingsOf(s) : s \in said \ recalled.sources}
           base == Merge(recalled.map, Restrict(idmap, loaded))
<1>1. /\ idmap' = Merge(idmap, new)
      /\ recalled'.sources = recalled.sources \cup said
      /\ recalled'.map = Merge(base, new)
  BY DEF RecordMappings
<1>2. Maps(idmap', i, k)
  BY <1>1, MergeMaps
<1>3. ASSUME i[1] \in recalled'.sources, i \notin DOMAIN new
      PROVE  Maps(base, i, k)
  <2>1. loaded \subseteq DOMAIN idmap
    BY DEF MappingsOf
  <2>2. Maps(idmap, i, k)
    BY <1>3
  <2>3. i \in loaded \/ Maps(recalled.map, i, k)
    <3>1. CASE i[1] \in recalled.sources
      BY <1>3, <3>1
    <3>2. CASE i[1] \in said \ recalled.sources
      <4>1. i \in MappingsOf(i[1])
        BY <2>2 DEF MappingsOf, Maps
      <4> QED
        BY <3>2, <4>1
    <3> QED
      BY <1>1, <1>3, <3>1, <3>2
  <2> HIDE DEF loaded
  <2> QED
    BY <2>1, <2>2, <2>3, LoadingMaps
<1> HIDE DEF base
<1>4. ASSUME i[1] \in recalled'.sources
      PROVE  Maps(recalled'.map, i, k)
  BY <1>1, <1>3, <1>4, MergeMaps
<1> QED
  BY <1>2, <1>4

\* Reading a source's mappings forgets none.
LEMMA RememberingMaps ==
  ASSUME NEW source, NEW i, NEW k, Maps(idmap, i, k),
         i[1] \in recalled.sources => Maps(recalled.map, i, k)
  PROVE  i[1] \in Remembered(source).sources => Maps(Remembered(source).map, i, k)
<1>1. CASE source \in recalled.sources
  BY <1>1 DEF Remembered
<1>2. CASE source \notin recalled.sources
  <2>1. /\ Remembered(source).sources = recalled.sources \cup {source}
        /\ Remembered(source).map = Merge(recalled.map, Restrict(idmap, MappingsOf(source)))
    BY <1>2 DEF Remembered
  <2>2. SUFFICES ASSUME i[1] \in recalled.sources \cup {source}
                 PROVE  Maps(Merge(recalled.map, Restrict(idmap, MappingsOf(source))), i, k)
    BY <2>1
  <2>3. MappingsOf(source) \subseteq DOMAIN idmap
    BY DEF MappingsOf
  <2>4. i \in MappingsOf(source) \/ Maps(recalled.map, i, k)
    BY <2>2 DEF MappingsOf, Maps
  <2> QED
    BY <2>3, <2>4, LoadingMaps
<1> QED
  BY <1>1, <1>2

\* The dump vouches for an ESPN id of one of its people as that person's key.
LEMMA VouchedSays ==
  ASSUME FromLives(feed), NEW p \in DOMAIN feed, feed[p].espn # Unsaid
  PROVE  LET i == <<"espn", feed[p].espn>> IN
         i \in DOMAIN Vouched /\ Vouched[i].key = Key(feed[p])
<1> DEFINE i == <<"espn", feed[p].espn>>
<1>1. PICK n \in DOMAIN People : People[n] = p
  BY LivesAssumption DEF FromLives
<1>2. n \in Listed /\ feed[People[n]] = feed[p]
  BY <1>1 DEF Listed
<1>3. i \in VouchedIds
  <2>1. i \in {<<f, feed[People[m]][f]>> : f \in {"yahoo", "espn"}, m \in Listed}
    BY <1>2
  <2>2. i # <<"yahoo", Unsaid>> /\ i # <<"espn", Unsaid>>
    OBVIOUS
  <2> HIDE DEF i
  <2> QED
    BY <2>1, <2>2 DEF VouchedIds
<1>4. Places(i) = {n}
  <2>1. n \in Places(i)
    BY <1>2 DEF Places
  <2>2. ASSUME NEW m \in Places(i)
        PROVE  m = n
    <3>1. /\ m \in DOMAIN People /\ People[m] \in DOMAIN feed
          /\ feed[People[m]].espn = feed[p].espn
      BY <2>2 DEF Places, Listed
    <3>2. People[m] = p
      <4>1. /\ People[m] \in DOMAIN Lives /\ feed[People[m]] \in Lives[People[m]]
            /\ p \in DOMAIN Lives /\ feed[p] \in Lives[p]
        BY <3>1 DEF FromLives
      <4> QED
        BY <3>1, <4>1, LivesAssumption
    <3> QED
      BY <1>1, <3>1, <3>2, LivesAssumption
  <2> QED
    BY <2>1, <2>2
<1>5. Max(Places(i)) = n
  <2>1. n \in Nat
    BY LivesAssumption
  <2> QED
    BY <1>4, <2>1 DEF Max
<1>6. Vouched[i] = Hit(Key(feed[p]), "exact")
  BY <1>2, <1>3, <1>5 DEF Vouched
<1>7. Hit(Key(feed[p]), "exact").key = Key(feed[p])
  BY DEF Hit
<1> QED
  BY <1>3, <1>6, <1>7 DEF Vouched

LEMMA IdentityInvInit == IdentityInit => IdentityInv
BY DEF IdentityInit, IdentityInv, FromLives

\* A person the stored dump gives an ESPN id, the id, and the key.
Holds(p, i, k) ==
  /\ p \in DOMAIN synced /\ synced[p].espn # Unsaid
  /\ i = <<"espn", synced[p].espn>> /\ i \notin DOMAIN Overrides
  /\ k = Key(synced[p])

\* Every step keeps the invariant.
LEMMA IdentityInvStep == IdentityInv /\ [IdentityNext]_identityVars => IdentityInv'
<1> SUFFICES ASSUME IdentityInv, [IdentityNext]_identityVars
             PROVE  IdentityInv'
  OBVIOUS
<1>0. FromLives(feed) /\ FromLives(synced)
  BY DEF IdentityInv
<1>a. ASSUME NEW p, NEW i, NEW k, Holds(p, i, k)
      PROVE  EspnResolves(i, k) /\ i[1] = "espn"
  BY <1>a DEF Holds, IdentityInv
<1>b. ASSUME UNCHANGED <<feed, synced>>,
             \A p, i, k : Holds(p, i, k) => EspnResolves(i, k)'
      PROVE  IdentityInv'
  BY <1>0, <1>b DEF IdentityInv, FromLives, Holds, Key
<1>1. CASE SyncPlayers
  <2>1. RecordMappings(Vouched) /\ durable'.idmap = idmap' /\ synced' = feed /\ feed' = feed
    BY <1>1 DEF SyncPlayers
  <2>2. ASSUME NEW p \in DOMAIN feed, feed[p].espn # Unsaid
        PROVE  EspnResolves(<<"espn", feed[p].espn>>, Key(feed[p]))'
    <3> DEFINE i == <<"espn", feed[p].espn>>
               k == Key(feed[p])
    <3>1. i \in DOMAIN Vouched /\ Vouched[i].key = k
      BY <1>0, <2>2, VouchedSays
    <3>2. i[1] = "espn" /\ i' = i /\ k' = k
      BY <2>1 DEF Key
    <3> HIDE DEF i, k
    <3>3. /\ Maps(idmap', i, k)
          /\ i[1] \in recalled'.sources => Maps(recalled'.map, i, k)
      BY <2>1, <3>1, RecordingMaps
    <3>4. EspnResolves(i, k)'
      BY <2>1, <3>2, <3>3 DEF EspnResolves, Maps
    <3> QED
      BY <3>4 DEF i, k
  <2> QED
    BY <1>0, <2>1, <2>2 DEF IdentityInv, FromLives, Key
<1>2. CASE Resolve
  <2>1. PICK a \in Askers : ByOverride(a) \/ ByMemory(a) \/ ByName(a)
    BY <1>2 DEF Resolve
  <2>2. UNCHANGED <<feed, synced, durable>>
    BY <1>2 DEF Resolve
  <2>3. ASSUME NEW p, NEW i, NEW k, Holds(p, i, k)
        PROVE  EspnResolves(i, k)'
    <3>1. /\ Maps(idmap, i, k) /\ Maps(durable.idmap, i, k) /\ i[1] = "espn"
          /\ i[1] \in recalled.sources => Maps(recalled.map, i, k)
      BY <1>a, <2>3 DEF EspnResolves
    <3>2. ASSUME NEW hit, RecordMappings(Single(Id(a), hit)), i # Id(a)
          PROVE  /\ Maps(idmap', i, k)
                 /\ i[1] \in recalled'.sources => Maps(recalled'.map, i, k)
      <4>1. i \notin DOMAIN Single(Id(a), hit)
        BY <3>2 DEF Single
      <4> QED
        BY <3>1, <3>2, <4>1, RecordingMaps
    <3>3. /\ i[1] \in Remembered(a.source).sources => Maps(Remembered(a.source).map, i, k)
          /\ a.source \in Remembered(a.source).sources
      BY <3>1, RememberingMaps DEF Remembered
    <3>4. ASSUME idmap' = idmap, recalled' = Remembered(a.source)
          PROVE  /\ Maps(idmap', i, k)
                 /\ i[1] \in recalled'.sources => Maps(recalled'.map, i, k)
      BY <3>1, <3>3, <3>4
    <3>5. /\ Maps(idmap', i, k)
          /\ i[1] \in recalled'.sources => Maps(recalled'.map, i, k)
      <4>1. CASE ByOverride(a)
        <5>1. i # Id(a)
          BY <2>3, <4>1 DEF Holds, ByOverride
        <5> QED
          BY <3>2, <4>1, <5>1 DEF ByOverride
      <4>2. CASE ByMemory(a)
        BY <3>4, <4>2 DEF ByMemory
      <4>3. CASE ByName(a)
        <5>1. i # Id(a)
          <6>1. SUFFICES ASSUME i = Id(a)
                         PROVE  FALSE
            OBVIOUS
          <6>2. i[1] = a.source
            BY <6>1 DEF Id
          <6>3. i \in DOMAIN Remembered(a.source).map
            BY <3>3, <6>2 DEF Maps
          <6> QED
            BY <4>3, <6>1, <6>3 DEF ByName
        <5> QED
          BY <3>2, <3>4, <4>3, <5>1 DEF ByName
      <4> QED
        BY <2>1, <4>1, <4>2, <4>3
    <3> QED
      BY <2>2, <3>1, <3>5 DEF EspnResolves, Maps
  <2> QED
    BY <1>b, <2>2, <2>3
<1>3. CASE EndLeg
  <2>1. /\ UNCHANGED <<feed, synced, idmap, recalled>> /\ durable'.idmap = idmap
    BY <1>3 DEF EndLeg, Committed
  <2> QED
    BY <1>a, <1>b, <2>1 DEF EspnResolves, Maps
<1>4. CASE LegFails
  <2>1. /\ UNCHANGED <<feed, synced, durable, recalled>> /\ idmap' = durable.idmap
    BY <1>4 DEF LegFails
  <2> QED
    BY <1>a, <1>b, <2>1 DEF EspnResolves, Maps
<1>5. CASE NextIdentityRun
  <2>1. /\ UNCHANGED <<feed, synced, durable>> /\ idmap' = durable.idmap
        /\ recalled'.sources = {}
    BY <1>5 DEF NextIdentityRun, Forgot
  <2> QED
    BY <1>a, <1>b, <2>1 DEF EspnResolves, Maps
<1>6. CASE FeedChanges
  <2>1. PICK p \in DOMAIN Lives : \E r \in Lives[p] : feed' = Merge(feed, Single(p, r))
    BY <1>6 DEF FeedChanges
  <2>2. FromLives(feed')
    BY <1>0, <2>1 DEF FromLives, Merge, Single
  <2>3. UNCHANGED <<synced, idmap, durable, recalled>>
    BY <1>6 DEF FeedChanges
  <2> QED
    BY <2>2, <2>3 DEF IdentityInv, FromLives, EspnResolves, Maps, Key
<1>7. CASE UNCHANGED identityVars
  <2>1. UNCHANGED <<feed, synced, idmap, durable, recalled>>
    BY <1>7 DEF identityVars
  <2> QED
    BY <2>1 DEF IdentityInv, FromLives, EspnResolves, Maps, Key
<1> QED
  BY <1>1, <1>2, <1>3, <1>4, <1>5, <1>6, <1>7 DEF IdentityNext

(***************************************************************************)
(* Whatever the dumps say, whoever asks, whatever was guessed before and   *)
(* whichever runs fail: an ESPN id that Sleeper vouches for is its         *)
(* player's, in the store, on disk and in the run's memory, unless the     *)
(* manager overrides it (src/idmap.py:341-368, 383-396).                   *)
(***************************************************************************)
THEOREM VouchedIdsAlwaysResolve == IdentitySpec => []VouchedIdsResolve
<1>1. IdentityInv => VouchedIdsResolve
  BY DEF IdentityInv, EspnResolves, Maps, VouchedIdsResolve
<1> QED
  BY IdentityInvInit, IdentityInvStep, <1>1, PTL DEF IdentitySpec
=============================================================================
