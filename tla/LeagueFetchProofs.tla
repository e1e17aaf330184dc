-------------------------- MODULE LeagueFetchProofs --------------------------
(***************************************************************************)
(* For any league, any number of jobs and any moves of the teams between   *)
(* two calls: a process reasons from one league, is never given a league   *)
(* without the manager's own roster, and takes the typed roster only at a  *)
(* refusal.                                                                *)
(*                                                                         *)
(* What makes it so is the memo, which only grows: every roster a job was  *)
(* given, or will be given, is what the memo holds for that team and week, *)
(* and once the teams are in the memo no fetch is refused any more.        *)
(*                                                                         *)
(* And the wire a job reads is whole, for pages of any size, as long as    *)
(* nobody moves: what has been read is always the beginning of Yahoo's.    *)
(***************************************************************************)
EXTENDS LeagueFetch, SequenceTheorems, TLAPS

JobFields == {"at", "week", "failure"}
LeagueFields == {"teams", "rosters", "wire", "unavailable"}

\* The league's rosters are what memory m holds for week w.
Recalled(m, league, w) ==
  \A team \in DOMAIN league.rosters :
    /\ <<"roster", team, w>> \in DOMAIN m
    /\ m[<<"roster", team, w>>] = league.rosters[team]

\* The manager's own roster is there, unless Yahoo named no teams.
OwnIsThere(b, league) == Mine \in DOMAIN league.rosters \/ <<"teams">> \in b

Collecting == job.at \in {"wire", "roster"}

ShapesOK ==
  /\ DOMAIN job = JobFields
  /\ DOMAIN snapshot = LeagueFields
  /\ DOMAIN rosters = Team /\ \A team \in Team : rosters[team] # {}
  /\ \E S : given \in Seq(S)

\* An empty answer in the memo is one Yahoo gave.
MemoIsHonest ==
  /\ \A w : <<"roster", Mine, w>> \in DOMAIN memo =>
       memo[<<"roster", Mine, w>>] # {} \/ <<"roster", Mine, w>> \in blanks
  /\ <<"teams">> \in DOMAIN memo => memo[<<"teams">>] = Team \/ <<"teams">> \in blanks

SnapshotIsRecalled ==
  Collecting =>
    /\ <<"teams">> \in DOMAIN memo /\ snapshot.teams = memo[<<"teams">>]
    /\ Recalled(memo, snapshot, job.week)

KeptIsRecalled ==
  \A w \in DOMAIN kept :
    /\ <<"teams">> \in DOMAIN memo
    /\ Recalled(memo, kept[w], w)
    /\ OwnIsThere(blanks, kept[w])

GivenIsRecalled ==
  \A i \in DOMAIN given : IsLive(given[i]) =>
    /\ <<"teams">> \in DOMAIN memo
    /\ Recalled(memo, given[i].league, given[i].week)
    /\ OwnIsThere(blanks, given[i].league)

RefusedBeforeTheTeams ==
  job.at = "failed" /\ job.failure \in Refusals => <<"teams">> \notin DOMAIN memo

LeagueInv ==
  /\ ShapesOK /\ MemoIsHonest
  /\ SnapshotIsRecalled /\ KeptIsRecalled /\ GivenIsRecalled
  /\ RefusedBeforeTheTeams /\ ManualOnlyAtTheGate

-----------------------------------------------------------------------------
\* A sequence with one more element.
LEMMA AppendIs ==
  ASSUME NEW s, NEW S, s \in Seq(S), NEW e
  PROVE  /\ \E T : Append(s, e) \in Seq(T)
         /\ Len(s) \in Nat /\ DOMAIN s = 1..Len(s)
         /\ DOMAIN Append(s, e) = 1..(Len(s) + 1)
         /\ Append(s, e)[Len(s) + 1] = e
         /\ \A i \in 1..Len(s) : Append(s, e)[i] = s[i]
<1>1. s \in Seq(S \cup {e}) /\ e \in S \cup {e}
  OBVIOUS
<1>2. Append(s, e) \in Seq(S \cup {e})
  BY <1>1
<1> QED
  BY <1>1, <1>2

\* Remembering adds one key and forgets none.
LEMMA RememberIs ==
  ASSUME NEW f, NEW k, NEW v
  PROVE  /\ DOMAIN Remember(f, k, v) = DOMAIN f \cup {k}
         /\ Remember(f, k, v)[k] = v
         /\ \A x \in DOMAIN f : x # k => Remember(f, k, v)[x] = f[x]
  BY DEF Remember

\* A memory that grows recalls what it recalled.
Grows(m, n) == \A k \in DOMAIN m : k \in DOMAIN n /\ n[k] = m[k]

LEMMA RecallLasts ==
  ASSUME NEW m, NEW n, Grows(m, n), NEW league, NEW w, Recalled(m, league, w)
  PROVE  Recalled(n, league, w)
  BY DEF Grows, Recalled

\* A new key is remembered beside the others.
LEMMA NewKeyIs ==
  ASSUME NEW m, NEW n, NEW key, NEW v, key \notin DOMAIN m, n = Remember(m, key, v)
  PROVE  /\ Grows(m, n)
         /\ key \in DOMAIN n /\ n[key] = v
         /\ \A k \in DOMAIN n : k # key => k \in DOMAIN m /\ n[k] = m[k]
  BY DEF Remember, Grows

\* What a call to Yahoo leaves in the memo.
MemoStep ==
  /\ Grows(memo, memo') /\ blanks \subseteq blanks'
  /\ MemoIsHonest'

\* A call that only the memo, the snapshot and the job notice.
LEMMA CallKeeps ==
  ASSUME LeagueInv, MemoStep, UNCHANGED <<kept, given>>
  PROVE  /\ KeptIsRecalled' /\ GivenIsRecalled'
         /\ (\E S : given' \in Seq(S)) /\ ManualOnlyAtTheGate'
<1>1. ASSUME NEW w \in DOMAIN kept
      PROVE  <<"teams">> \in DOMAIN memo' /\ Recalled(memo', kept[w], w)
             /\ OwnIsThere(blanks', kept[w])
  BY RecallLasts DEF LeagueInv, KeptIsRecalled, MemoStep, Grows, OwnIsThere
<1>2. ASSUME NEW i \in DOMAIN given, IsLive(given[i])
      PROVE  <<"teams">> \in DOMAIN memo' /\ Recalled(memo', given[i].league, given[i].week)
             /\ OwnIsThere(blanks', given[i].league)
  BY <1>2, RecallLasts DEF LeagueInv, GivenIsRecalled, MemoStep, Grows, OwnIsThere
<1> QED
  BY <1>1, <1>2 DEF KeptIsRecalled, GivenIsRecalled, LeagueInv, ShapesOK, ManualOnlyAtTheGate,
     IsLive

\* Handing over an answer.
LEMMA DeliverIs ==
  ASSUME LeagueInv, NEW answer, Deliver(answer)
  PROVE  /\ \E S : given' \in Seq(S)
         /\ DOMAIN job' = JobFields /\ job'.at = "idle"
         /\ \A i \in DOMAIN given' :
              \/ i \in DOMAIN given /\ given'[i] = given[i]
              \/ given'[i] = answer /\ \A j \in 1..(i - 1) : j \in DOMAIN given /\ given'[j] = given[j]
         /\ \A i \in DOMAIN given : \A j \in 1..(i - 1) : j \in DOMAIN given /\ given'[j] = given[j]
<1>1. PICK S : given \in Seq(S)
  BY DEF LeagueInv, ShapesOK
<1>2. given' = Append(given, answer) /\ job' = [job EXCEPT !.at = "idle"]
  BY DEF Deliver, Proceed
<1>3. /\ \E T : given' \in Seq(T)
      /\ Len(given) \in Nat /\ DOMAIN given = 1..Len(given)
      /\ DOMAIN given' = 1..(Len(given) + 1)
      /\ given'[Len(given) + 1] = answer
      /\ \A i \in 1..Len(given) : given'[i] = given[i]
  <2>1. /\ \E T : Append(given, answer) \in Seq(T)
        /\ Len(given) \in Nat /\ DOMAIN given = 1..Len(given)
        /\ DOMAIN Append(given, answer) = 1..(Len(given) + 1)
        /\ Append(given, answer)[Len(given) + 1] = answer
        /\ \A i \in 1..Len(given) : Append(given, answer)[i] = given[i]
    BY <1>1, AppendIs
  <2> QED
    BY <1>2, <2>1, Zenon
<1>4. DOMAIN job' = JobFields /\ job'.at = "idle"
  BY <1>2 DEF LeagueInv, ShapesOK, JobFields
<1> QED
  BY <1>3, <1>4

\* A live league the process recalls, or none, may be handed over.
LEMMA DeliverKeeps ==
  ASSUME LeagueInv, NEW answer, Deliver(answer),
         UNCHANGED <<rosters, memo, snapshot, blanks>>,
         KeptIsRecalled',
         IsLive(answer) =>
           /\ <<"teams">> \in DOMAIN memo
           /\ Recalled(memo, answer.league, answer.week)
           /\ OwnIsThere(blanks, answer.league),
         answer.kind = "manual" => answer.why \in Refusals /\ <<"teams">> \notin DOMAIN memo
  PROVE  LeagueInv'
<1>1. /\ \E S : given' \in Seq(S)
      /\ DOMAIN job' = JobFields /\ job'.at = "idle"
      /\ \A i \in DOMAIN given' :
           \/ i \in DOMAIN given /\ given'[i] = given[i]
           \/ given'[i] = answer /\ \A j \in 1..(i - 1) : j \in DOMAIN given /\ given'[j] = given[j]
      /\ \A i \in DOMAIN given : \A j \in 1..(i - 1) : j \in DOMAIN given /\ given'[j] = given[j]
  BY DeliverIs
<1>2. ShapesOK' /\ MemoIsHonest'
  BY <1>1 DEF LeagueInv, ShapesOK, MemoIsHonest
<1>3. SnapshotIsRecalled' /\ RefusedBeforeTheTeams'
  BY <1>1 DEF SnapshotIsRecalled, Collecting, RefusedBeforeTheTeams
<1>4. GivenIsRecalled'
  <2>1. ASSUME NEW i \in DOMAIN given', IsLive(given'[i])
        PROVE  /\ <<"teams">> \in DOMAIN memo
               /\ Recalled(memo, given'[i].league, given'[i].week)
               /\ OwnIsThere(blanks, given'[i].league)
    BY <1>1, <2>1 DEF LeagueInv, GivenIsRecalled
  <2> QED
    BY <2>1 DEF GivenIsRecalled, IsLive
<1>5. ManualOnlyAtTheGate'
  <2>1. ASSUME NEW i \in DOMAIN given', given'[i].kind = "manual"
        PROVE  given'[i].why \in Refusals /\ \A j \in 1..(i - 1) : ~IsLive(given'[j])
    <3>1. CASE i \in DOMAIN given /\ given'[i] = given[i]
      BY <1>1, <2>1, <3>1 DEF LeagueInv, ManualOnlyAtTheGate
    <3>2. CASE /\ given'[i] = answer
               /\ \A j \in 1..(i - 1) : j \in DOMAIN given /\ given'[j] = given[j]
      BY <2>1, <3>2 DEF LeagueInv, GivenIsRecalled
    <3> QED
      BY <1>1, <3>1, <3>2
  <2> QED
    BY <2>1 DEF ManualOnlyAtTheGate, IsLive
<1> QED
  BY <1>2, <1>3, <1>4, <1>5 DEF LeagueInv

-----------------------------------------------------------------------------
(* The steps.                                                               *)

LEMMA AskKeeps ==
  ASSUME LeagueInv, NEW week, Ask(week)
  PROVE  LeagueInv'
<1> USE DEF LeagueInv
<1>1. DOMAIN job' = JobFields /\ job'.at = "asked"
  BY DEF Ask, JobFields
<1>2. ShapesOK' /\ MemoIsHonest'
  BY <1>1 DEF Ask, ShapesOK, MemoIsHonest
<1>3. SnapshotIsRecalled' /\ RefusedBeforeTheTeams'
  BY <1>1 DEF SnapshotIsRecalled, Collecting, RefusedBeforeTheTeams
<1>4. MemoStep
  BY <1>2 DEF Ask, MemoStep, Grows
<1> QED
  BY <1>2, <1>3, <1>4, CallKeeps DEF Ask

LEMMA ReuseKeeps ==
  ASSUME LeagueInv, Reuse
  PROVE  LeagueInv'
<1> DEFINE answer == Live(kept[job.week])
<1>1. answer.league = kept[job.week] /\ answer.week = job.week /\ answer.kind = "live"
  BY DEF Live
<1>2. KeptIsRecalled'
  BY DEF Reuse, LeagueInv, KeptIsRecalled
<1>3. /\ <<"teams">> \in DOMAIN memo
      /\ Recalled(memo, answer.league, answer.week)
      /\ OwnIsThere(blanks, answer.league)
  BY <1>1 DEF Reuse, LeagueInv, KeptIsRecalled
<1>4. Deliver(answer) /\ UNCHANGED <<rosters, memo, snapshot, blanks>>
  BY DEF Reuse
<1> HIDE DEF answer
<1> QED
  BY <1>1, <1>2, <1>3, <1>4, DeliverKeeps

\* What a call that answers does to the memo.
LEMMA AnswerIs ==
  ASSUME NEW key, NEW truth, truth # {}, NEW answer \in Answers(key, truth),
         Cached(key, answer)
  PROVE  \/ /\ key \in DOMAIN memo /\ answer = memo[key]
            /\ UNCHANGED <<memo, blanks>>
         \/ /\ key \notin DOMAIN memo /\ answer = truth
            /\ memo' = Remember(memo, key, truth) /\ UNCHANGED blanks
         \/ /\ key \notin DOMAIN memo /\ answer = {}
            /\ memo' = Remember(memo, key, {}) /\ blanks' = blanks \cup {key}
  BY DEF Answers, Cached, Known

LEMMA TeamsKeeps ==
  ASSUME LeagueInv, Teams
  PROVE  LeagueInv'
<1> USE DEF LeagueInv
<1>1. UNCHANGED <<rosters, kept, given>>
  BY DEF Teams
<1>2. \/ /\ <<"teams">> \in DOMAIN memo /\ UNCHANGED <<memo, blanks>>
         /\ snapshot' = [NoLeague EXCEPT !.teams = memo[<<"teams">>]]
         /\ job' = [job EXCEPT !.at = "wire"]
      \/ /\ <<"teams">> \notin DOMAIN memo
         /\ memo' = Remember(memo, <<"teams">>, Team) /\ UNCHANGED blanks
         /\ snapshot' = [NoLeague EXCEPT !.teams = Team]
         /\ job' = [job EXCEPT !.at = "wire"]
      \/ /\ <<"teams">> \notin DOMAIN memo
         /\ memo' = Remember(memo, <<"teams">>, {}) /\ blanks' = blanks \cup {<<"teams">>}
         /\ snapshot' = [NoLeague EXCEPT !.teams = {}]
         /\ job' = [job EXCEPT !.at = "wire"]
      \/ /\ <<"teams">> \notin DOMAIN memo /\ UNCHANGED <<memo, blanks, snapshot>>
         /\ \E failure \in Failures : job' = [job EXCEPT !.at = "failed", !.failure = failure]
  <2>1. CASE \E answer \in Answers(<<"teams">>, Team) :
               /\ Cached(<<"teams">>, answer)
               /\ snapshot' = [NoLeague EXCEPT !.teams = answer] /\ Proceed("wire")
    <3>1. PICK answer \in Answers(<<"teams">>, Team) :
               /\ Cached(<<"teams">>, answer)
               /\ snapshot' = [NoLeague EXCEPT !.teams = answer]
               /\ job' = [job EXCEPT !.at = "wire"]
      BY <2>1 DEF Proceed
    <3>2. Team # {}
      BY RosterAssumption DEF Team
    <3> DEFINE key == <<"teams">>
    <3> HIDE DEF key
    <3>3. answer \in Answers(key, Team) /\ Cached(key, answer)
      BY <3>1 DEF key
    <3>4. \/ /\ key \in DOMAIN memo /\ answer = memo[key]
             /\ UNCHANGED <<memo, blanks>>
          \/ /\ key \notin DOMAIN memo /\ answer = Team
             /\ memo' = Remember(memo, key, Team) /\ UNCHANGED blanks
          \/ /\ key \notin DOMAIN memo /\ answer = {}
             /\ memo' = Remember(memo, key, {}) /\ blanks' = blanks \cup {key}
      BY <3>2, <3>3, AnswerIs
    <3> QED
      BY <3>1, <3>4 DEF key
  <2> QED
    BY <2>1 DEF Teams, Known, FetchFails
<1>3. /\ <<"teams">> \in DOMAIN memo' \/ UNCHANGED memo
      /\ Grows(memo, memo') /\ blanks \subseteq blanks'
      /\ \A k \in DOMAIN memo' : k # <<"teams">> => k \in DOMAIN memo /\ memo'[k] = memo[k]
      /\ <<"teams">> \in DOMAIN memo' =>
           memo'[<<"teams">>] = Team \/ <<"teams">> \in blanks'
  <2> DEFINE key == <<"teams">>
  <2>1. key \in DOMAIN memo => memo[key] = Team \/ key \in blanks
    BY DEF MemoIsHonest
  <2>2. \/ UNCHANGED <<memo, blanks>>
        \/ key \notin DOMAIN memo /\ memo' = Remember(memo, key, Team) /\ UNCHANGED blanks
        \/ key \notin DOMAIN memo /\ memo' = Remember(memo, key, {}) /\ blanks' = blanks \cup {key}
    BY <1>2
  <2> HIDE DEF key
  <2>3. /\ key \in DOMAIN memo' \/ UNCHANGED memo
        /\ Grows(memo, memo') /\ blanks \subseteq blanks'
        /\ \A k \in DOMAIN memo' : k # key => k \in DOMAIN memo /\ memo'[k] = memo[k]
        /\ key \in DOMAIN memo' => memo'[key] = Team \/ key \in blanks'
    BY <2>1, <2>2 DEF Remember, Grows
  <2> QED
    BY <2>3 DEF key
<1>9. MemoStep
  <2>1. \A w : <<"roster", Mine, w>> # <<"teams">>
    OBVIOUS
  <2>2. MemoIsHonest'
    BY <1>3, <2>1 DEF MemoIsHonest
  <2> QED
    BY <1>3, <2>2 DEF MemoStep
<1>4. ShapesOK'
  BY <1>1, <1>2 DEF ShapesOK, JobFields, LeagueFields, NoLeague
<1>5. SnapshotIsRecalled'
  <2>1. CASE job'.at = "wire"
    <3>1. snapshot'.rosters = <<>> /\ <<"teams">> \in DOMAIN memo'
          /\ snapshot'.teams = memo'[<<"teams">>]
      <4> DEFINE key == <<"teams">>
      <4>1. /\ snapshot'.rosters = <<>>
            /\ \/ key \in DOMAIN memo /\ memo' = memo /\ snapshot'.teams = memo[key]
               \/ memo' = Remember(memo, key, Team) /\ snapshot'.teams = Team
               \/ memo' = Remember(memo, key, {}) /\ snapshot'.teams = {}
        BY <1>2, <2>1 DEF NoLeague, ShapesOK, JobFields
      <4> HIDE DEF key
      <4>2. key \in DOMAIN memo' /\ snapshot'.teams = memo'[key]
        BY <4>1 DEF Remember
      <4> QED
        BY <4>1, <4>2 DEF key
    <3>2. DOMAIN snapshot'.rosters = {}
      BY <3>1
    <3> QED
      BY <3>1, <3>2 DEF SnapshotIsRecalled, Recalled
  <2>2. CASE job'.at = "failed"
    BY <2>2 DEF SnapshotIsRecalled, Collecting
  <2> QED
    BY <1>2, <2>1, <2>2 DEF ShapesOK, JobFields
<1>6. RefusedBeforeTheTeams'
  BY <1>2 DEF RefusedBeforeTheTeams, ShapesOK, JobFields
<1> QED
  BY <1>1, <1>4, <1>5, <1>6, <1>9, CallKeeps DEF MemoStep

LEMMA WireKeeps ==
  ASSUME LeagueInv, FreeAgents \/ NoFreeAgents
  PROVE  LeagueInv'
<1> USE DEF LeagueInv
<1>1. UNCHANGED <<rosters, kept, given, blanks>>
  BY DEF FreeAgents, NoFreeAgents
<1>2. \/ UNCHANGED memo
      \/ /\ <<"wire">> \notin DOMAIN memo
         /\ \E agents : memo' = Remember(memo, <<"wire">>, agents)
  BY DEF FreeAgents, NoFreeAgents, Known
<1>3. /\ \E agents : snapshot' = [snapshot EXCEPT !.wire = agents]
      /\ job' = job \/ job' = [job EXCEPT !.at = "roster"]
      /\ job.at = "wire"
  BY DEF FreeAgents, NoFreeAgents, Collected, Proceed
<1>4. /\ DOMAIN snapshot' = LeagueFields
      /\ snapshot'.teams = snapshot.teams /\ snapshot'.rosters = snapshot.rosters
  BY <1>3 DEF ShapesOK, LeagueFields
<1>5. DOMAIN job' = JobFields /\ job'.week = job.week /\ job'.at \in {"wire", "roster"}
  BY <1>3 DEF ShapesOK, JobFields
<1>6. /\ Grows(memo, memo')
      /\ \A k \in DOMAIN memo' : k # <<"wire">> => k \in DOMAIN memo /\ memo'[k] = memo[k]
  <2>1. CASE UNCHANGED memo
    BY <2>1 DEF Grows
  <2>2. CASE /\ <<"wire">> \notin DOMAIN memo
             /\ \E agents : memo' = Remember(memo, <<"wire">>, agents)
    <3>1. PICK agents : memo' = Remember(memo, <<"wire">>, agents)
      BY <2>2
    <3> QED
      BY <2>2, <3>1, NewKeyIs, Zenon
  <2> QED
    BY <1>2, <2>1, <2>2
<1>7. MemoStep
  <2>1. <<"teams">> # <<"wire">> /\ \A w : <<"roster", Mine, w>> # <<"wire">>
    OBVIOUS
  <2>2. MemoIsHonest'
    BY <1>1, <1>6, <2>1 DEF MemoIsHonest
  <2> QED
    BY <1>1, <1>6, <2>2 DEF MemoStep
<1>8. ShapesOK' /\ RefusedBeforeTheTeams'
  BY <1>1, <1>4, <1>5 DEF ShapesOK, RefusedBeforeTheTeams
<1>9. SnapshotIsRecalled'
  <2>1. <<"teams">> \in DOMAIN memo /\ snapshot.teams = memo[<<"teams">>]
        /\ Recalled(memo, snapshot, job.week)
    BY <1>3 DEF SnapshotIsRecalled, Collecting
  <2> QED
    BY <1>4, <1>5, <1>6, <2>1 DEF SnapshotIsRecalled, Recalled, Grows
<1> QED
  BY <1>1, <1>7, <1>8, <1>9, CallKeeps DEF MemoStep

LEMMA RosterKeeps ==
  ASSUME LeagueInv, NEW team \in Team, RosterOf(team)
  PROVE  LeagueInv'
<1> USE DEF LeagueInv
<1> DEFINE key == <<"roster", team, job.week>>
<1>1. UNCHANGED <<rosters, kept, given, job>> /\ job.at = "roster"
  BY DEF RosterOf
<1>2. \/ /\ key \in DOMAIN memo /\ UNCHANGED <<memo, blanks>>
         /\ snapshot' = [snapshot EXCEPT !.rosters = Remember(@, team, memo[key])]
      \/ /\ key \notin DOMAIN memo
         /\ memo' = Remember(memo, key, rosters[team]) /\ UNCHANGED blanks
         /\ snapshot' = [snapshot EXCEPT !.rosters = Remember(@, team, rosters[team])]
      \/ /\ key \notin DOMAIN memo
         /\ memo' = Remember(memo, key, {}) /\ blanks' = blanks \cup {key}
         /\ snapshot' = [snapshot EXCEPT !.rosters = Remember(@, team, {})]
      \/ /\ UNCHANGED <<memo, blanks>>
         /\ snapshot' = [snapshot EXCEPT !.unavailable = @ \cup {team}]
  <2>1. CASE \E answer \in Answers(key, rosters[team]) :
               /\ Cached(key, answer)
               /\ snapshot' = [snapshot EXCEPT !.rosters = Remember(@, team, answer)]
    <3>1. PICK answer \in Answers(key, rosters[team]) :
               /\ Cached(key, answer)
               /\ snapshot' = [snapshot EXCEPT !.rosters = Remember(@, team, answer)]
      BY <2>1
    <3>2. rosters[team] # {}
      BY DEF ShapesOK
    <3> HIDE DEF key
    <3>3. \/ /\ key \in DOMAIN memo /\ answer = memo[key]
             /\ UNCHANGED <<memo, blanks>>
          \/ /\ key \notin DOMAIN memo /\ answer = rosters[team]
             /\ memo' = Remember(memo, key, rosters[team]) /\ UNCHANGED blanks
          \/ /\ key \notin DOMAIN memo /\ answer = {}
             /\ memo' = Remember(memo, key, {}) /\ blanks' = blanks \cup {key}
      BY <3>1, <3>2, AnswerIs
    <3> QED
      BY <3>1, <3>3
  <2> QED
    BY <2>1 DEF RosterOf
<1>3. /\ \A k \in DOMAIN memo' : k # key => k \in DOMAIN memo /\ memo'[k] = memo[k]
      /\ Grows(memo, memo') /\ blanks \subseteq blanks'
      /\ key \in DOMAIN memo' /\ key \notin DOMAIN memo =>
           memo'[key] = rosters[team] \/ key \in blanks'
  <2>1. CASE UNCHANGED <<memo, blanks>>
    BY <2>1 DEF Grows
  <2>2. CASE key \notin DOMAIN memo /\ memo' = Remember(memo, key, rosters[team])
             /\ UNCHANGED blanks
    <3> HIDE DEF key
    <3> QED
      BY <2>2 DEF Remember, Grows
  <2>3. CASE key \notin DOMAIN memo /\ memo' = Remember(memo, key, {})
             /\ blanks' = blanks \cup {key}
    <3>1. blanks \subseteq blanks' /\ key \in blanks'
      BY <2>3
    <3> HIDE DEF key
    <3> QED
      BY <2>3, <3>1, NewKeyIs, Zenon
  <2> QED
    BY <1>2, <2>1, <2>2, <2>3
<1>4. \/ snapshot'.rosters = snapshot.rosters
      \/ key \in DOMAIN memo' /\ snapshot'.rosters = Remember(snapshot.rosters, team, memo'[key])
  <2>1. snapshot'.rosters = snapshot.rosters
        \/ \E answer : /\ snapshot'.rosters = Remember(snapshot.rosters, team, answer)
                       /\ \/ key \in DOMAIN memo /\ UNCHANGED memo /\ answer = memo[key]
                          \/ key \notin DOMAIN memo /\ memo' = Remember(memo, key, answer)
    <3> HIDE DEF key
    <3> QED
      BY <1>2 DEF ShapesOK, LeagueFields
  <2>2. ASSUME NEW answer, key \notin DOMAIN memo, memo' = Remember(memo, key, answer)
        PROVE  key \in DOMAIN memo' /\ memo'[key] = answer
    <3> HIDE DEF key
    <3> QED
      BY <2>2 DEF Remember, Grows
  <2> HIDE DEF key
  <2> QED
    BY <2>1, <2>2
<1>5. DOMAIN snapshot' = LeagueFields /\ snapshot'.teams = snapshot.teams
  <2> HIDE DEF key
  <2> QED
    BY <1>2 DEF ShapesOK, LeagueFields
<1>6. MemoStep
  <2>1. ASSUME NEW w, <<"roster", Mine, w>> \in DOMAIN memo'
        PROVE  memo'[<<"roster", Mine, w>>] # {} \/ <<"roster", Mine, w>> \in blanks'
    <3> DEFINE own == <<"roster", Mine, w>>
    <3>1. own \in DOMAIN memo => memo[own] # {} \/ own \in blanks
      BY DEF MemoIsHonest
    <3>2. rosters[team] # {}
      BY DEF ShapesOK
    <3> HIDE DEF own, key
    <3>3. own \in DOMAIN memo'
      BY <2>1 DEF own
    <3>4. memo'[own] # {} \/ own \in blanks'
      BY <1>3, <3>1, <3>2, <3>3 DEF Grows
    <3> QED
      BY <3>4 DEF own
  <2>2. <<"teams">> \in DOMAIN memo' =>
          memo'[<<"teams">>] = Team \/ <<"teams">> \in blanks'
    <3>1. <<"teams">> # key
      OBVIOUS
    <3> HIDE DEF key
    <3> QED
      BY <1>3, <3>1 DEF MemoIsHonest
  <2> QED
    BY <1>3, <2>1, <2>2 DEF MemoStep, MemoIsHonest
<1>7. ShapesOK' /\ RefusedBeforeTheTeams'
  BY <1>1, <1>5 DEF ShapesOK, RefusedBeforeTheTeams
<1>8. SnapshotIsRecalled'
  <2>1. <<"teams">> \in DOMAIN memo /\ snapshot.teams = memo[<<"teams">>]
        /\ Recalled(memo, snapshot, job.week)
    BY <1>1 DEF SnapshotIsRecalled, Collecting
  <2>2. <<"teams">> \in DOMAIN memo' /\ snapshot'.teams = memo'[<<"teams">>]
    BY <1>3, <1>5, <2>1 DEF Grows
  <2>3. ASSUME NEW t \in DOMAIN snapshot'.rosters
        PROVE  /\ <<"roster", t, job.week>> \in DOMAIN memo'
               /\ memo'[<<"roster", t, job.week>>] = snapshot'.rosters[t]
    <3>1. CASE t \in DOMAIN snapshot.rosters /\ snapshot'.rosters[t] = snapshot.rosters[t]
      BY <1>3, <2>1, <3>1 DEF Recalled, Grows
    <3>2. CASE /\ t = team /\ key \in DOMAIN memo'
               /\ snapshot'.rosters = Remember(snapshot.rosters, team, memo'[key])
      <4> DEFINE told == memo'[key]
      <4> HIDE DEF told
      <4>1. snapshot'.rosters = Remember(snapshot.rosters, team, told)
        BY <3>2 DEF told
      <4>2. snapshot'.rosters[team] = told
        BY <4>1 DEF Remember
      <4> QED
        BY <3>2, <4>2 DEF told
    <3> QED
      <4> DEFINE told == memo'[key]
      <4>1. \/ snapshot'.rosters = snapshot.rosters
            \/ key \in DOMAIN memo' /\ snapshot'.rosters = Remember(snapshot.rosters, team, told)
        BY <1>4
      <4> HIDE DEF told, key
      <4>2. \/ t \in DOMAIN snapshot.rosters /\ snapshot'.rosters[t] = snapshot.rosters[t]
            \/ /\ t = team /\ key \in DOMAIN memo'
               /\ snapshot'.rosters = Remember(snapshot.rosters, team, told)
        BY <4>1 DEF Remember
      <4> QED
        BY <3>1, <3>2, <4>2 DEF told
  <2> QED
    BY <1>1, <2>2, <2>3 DEF SnapshotIsRecalled, Recalled
<1> QED
  BY <1>1, <1>6, <1>7, <1>8, CallKeeps DEF MemoStep

LEMMA CollectKeeps ==
  ASSUME LeagueInv, Collect
  PROVE  LeagueInv'
<1> USE DEF LeagueInv
<1>1. /\ <<"teams">> \in DOMAIN memo /\ snapshot.teams = memo[<<"teams">>]
      /\ Recalled(memo, snapshot, job.week)
  BY DEF Collect, SnapshotIsRecalled, Collecting
<1>2. CASE Complete
  <2>1. /\ Deliver(Live(snapshot)) /\ kept' = Remember(<<>>, job.week, snapshot)
        /\ UNCHANGED <<rosters, memo, snapshot, blanks>>
    BY <1>2 DEF Collect
  <2>2. OwnIsThere(blanks, snapshot)
    <3>1. snapshot.teams = DOMAIN snapshot.rosters \cup snapshot.unavailable
      BY DEF Collect
    <3>2. Mine \in Team
      BY RosterAssumption DEF Team
    <3> QED
      BY <1>1, <1>2, <3>1, <3>2 DEF Complete, OwnIsThere, MemoIsHonest
  <2>3. KeptIsRecalled'
    <3>1. DOMAIN kept' = {job.week} /\ kept'[job.week] = snapshot
      BY <2>1 DEF Remember
    <3> QED
      BY <1>1, <2>1, <2>2, <3>1 DEF KeptIsRecalled
  <2>4. LET answer == Live(snapshot) IN
        answer.league = snapshot /\ answer.week = job.week /\ answer.kind = "live"
    BY DEF Live
  <2> DEFINE answer == Live(snapshot)
  <2> HIDE DEF answer
  <2>5. /\ answer.league = snapshot /\ answer.week = job.week /\ answer.kind = "live"
        /\ Deliver(answer)
    BY <2>1, <2>4 DEF answer
  <2> QED
    BY <1>1, <2>1, <2>2, <2>3, <2>5, DeliverKeeps
<1>3. CASE ~Complete
  <2>1. /\ UNCHANGED <<rosters, memo, snapshot, blanks, given, kept>>
        /\ job' = [job EXCEPT !.at = "failed", !.failure = "error"]
    BY <1>3 DEF Collect, FetchFails
  <2>2. DOMAIN job' = JobFields /\ job'.at = "failed" /\ job'.failure = "error"
    BY <2>1 DEF ShapesOK, JobFields
  <2>3. ShapesOK' /\ MemoIsHonest'
    BY <2>1, <2>2 DEF ShapesOK, MemoIsHonest
  <2>4. SnapshotIsRecalled' /\ RefusedBeforeTheTeams'
    BY <2>2 DEF SnapshotIsRecalled, Collecting, RefusedBeforeTheTeams, Refusals
  <2>5. MemoStep
    BY <2>1, <2>3 DEF MemoStep, Grows
  <2> QED
    BY <2>1, <2>3, <2>4, <2>5, CallKeeps
<1> QED
  BY <1>2, <1>3

LEMMA SettleForKeeps ==
  ASSUME LeagueInv, SettleFor
  PROVE  LeagueInv'
<1> DEFINE kind == IF Refused(job.failure) /\ Typed THEN "manual" ELSE "raised"
<1> DEFINE answer == NotLive(kind)
<1>1. answer.kind = kind /\ answer.why = job.failure /\ kind \in {"manual", "raised"}
  BY DEF NotLive
<1>2. kind = "manual" => job.failure \in Refusals /\ <<"teams">> \notin DOMAIN memo
  BY DEF Refused, SettleFor, LeagueInv, RefusedBeforeTheTeams
<1>3. Deliver(answer) /\ UNCHANGED <<rosters, memo, snapshot, blanks, kept>>
  BY DEF SettleFor
<1>4. KeptIsRecalled'
  BY <1>3 DEF LeagueInv, KeptIsRecalled
<1> HIDE DEF answer, kind
<1> QED
  BY <1>1, <1>2, <1>3, <1>4, DeliverKeeps DEF IsLive

LEMMA ClaimKeeps ==
  ASSUME LeagueInv, NEW team \in Team, NEW dropped, Claim(team, dropped)
  PROVE  LeagueInv'
<1> USE DEF LeagueInv
<1>1. UNCHANGED <<memo, snapshot, kept, job, given, blanks>>
  BY DEF Claim
<1>2. DOMAIN rosters' = Team /\ \A t \in Team : rosters'[t] # {}
  BY DEF Claim, ShapesOK
<1>3. ShapesOK' /\ MemoIsHonest'
  BY <1>1, <1>2 DEF ShapesOK, MemoIsHonest
<1>4. SnapshotIsRecalled' /\ RefusedBeforeTheTeams'
  BY <1>1 DEF SnapshotIsRecalled, Collecting, RefusedBeforeTheTeams
<1>5. MemoStep
  BY <1>1, <1>3 DEF MemoStep, Grows
<1> QED
  BY <1>1, <1>3, <1>4, <1>5, CallKeeps

LEMMA LeagueInvInit == LeagueInit => LeagueInv
<1> SUFFICES ASSUME LeagueInit PROVE LeagueInv
  OBVIOUS
<1>1. /\ memo = <<>> /\ kept = <<>> /\ given = <<>> /\ rosters = Rosters
      /\ snapshot = NoLeague /\ job = [at |-> "idle", week |-> 0, failure |-> ""]
  BY DEF LeagueInit
<1>2. DOMAIN memo = {} /\ DOMAIN kept = {} /\ DOMAIN given = {} /\ given \in Seq({})
  <2>1. DOMAIN <<>> = {} /\ <<>> \in Seq({})
    OBVIOUS
  <2> QED
    BY <1>1, <2>1, Zenon
<1>3. ShapesOK
  BY <1>1, <1>2, RosterAssumption DEF ShapesOK, JobFields, LeagueFields, NoLeague, Team
<1>4. job.at = "idle"
  BY <1>1
<1> QED
  BY <1>2, <1>3, <1>4 DEF LeagueInv, MemoIsHonest, SnapshotIsRecalled, Collecting,
     KeptIsRecalled, GivenIsRecalled, RefusedBeforeTheTeams, ManualOnlyAtTheGate

LEMMA LeagueInvStep == LeagueInv /\ [LeagueNext]_leagueVars => LeagueInv'
<1> SUFFICES ASSUME LeagueInv, [LeagueNext]_leagueVars PROVE LeagueInv'
  OBVIOUS
<1>1. ASSUME NEW week \in Weeks, Ask(week) PROVE LeagueInv'
  BY <1>1, AskKeeps
<1>2. CASE Reuse
  BY <1>2, ReuseKeeps
<1>3. CASE Teams
  BY <1>3, TeamsKeeps
<1>4. CASE FreeAgents \/ NoFreeAgents
  BY <1>4, WireKeeps
<1>5. ASSUME NEW team \in Team, RosterOf(team) PROVE LeagueInv'
  BY <1>5, RosterKeeps
<1>6. CASE Collect
  BY <1>6, CollectKeeps
<1>7. CASE SettleFor
  BY <1>7, SettleForKeeps
<1>8. ASSUME NEW team \in Team, NEW dropped \in rosters[team], Claim(team, dropped)
      PROVE  LeagueInv'
  BY <1>8, ClaimKeeps
<1>9. CASE UNCHANGED leagueVars
  <2>1. UNCHANGED <<rosters, memo, snapshot, kept, job, given, blanks>>
    BY <1>9 DEF leagueVars
  <2>2. MemoStep
    BY <2>1 DEF MemoStep, Grows, LeagueInv, MemoIsHonest
  <2> QED
    BY <2>1, <2>2, CallKeeps DEF LeagueInv, ShapesOK, MemoIsHonest, SnapshotIsRecalled,
       Collecting, RefusedBeforeTheTeams
<1> QED
  BY <1>1, <1>2, <1>3, <1>4, <1>5, <1>6, <1>7, <1>8, <1>9 DEF LeagueNext

\* The invariant holds in every state of every process.
LEMMA LeagueInvAlways == LeagueSpec => []LeagueInv
<1>1. LeagueInit => LeagueInv
  BY LeagueInvInit
<1>2. LeagueInv /\ [LeagueNext]_leagueVars => LeagueInv'
  BY LeagueInvStep
<1> QED
  BY <1>1, <1>2, PTL DEF LeagueSpec

-----------------------------------------------------------------------------
(* What the jobs may rely on.                                               *)

\* Whatever is claimed between two jobs, the league they were given for a
\* week shows no team two rosters (Context.league_snapshot, src/cli.py, over
\* YahooClient._cached, src/yahoo_client.py).
THEOREM OneLeague == LeagueSpec => []OneLeaguePerRun
<1>1. LeagueInv => OneLeaguePerRun
  <2> SUFFICES ASSUME LeagueInv, NEW i \in DOMAIN given, NEW j \in DOMAIN given,
                      IsLive(given[i]), IsLive(given[j]), given[i].week = given[j].week,
                      NEW team \in DOMAIN given[i].league.rosters \cap DOMAIN given[j].league.rosters
               PROVE  given[i].league.rosters[team] = given[j].league.rosters[team]
    BY DEF OneLeaguePerRun
  <2>1. /\ Recalled(memo, given[i].league, given[i].week)
        /\ Recalled(memo, given[j].league, given[i].week)
    BY DEF LeagueInv, GivenIsRecalled
  <2> QED
    BY <2>1 DEF Recalled
<1> QED
  BY <1>1, LeagueInvAlways, PTL

\* A live league has the manager's own roster, and players on it, unless
\* Yahoo itself answered with nothing (collect_league, src/yahoo_client.py).
THEOREM OwnRoster == LeagueSpec => []OwnRosterOrRaise
<1>1. LeagueInv => OwnRosterOrRaise
  <2> SUFFICES ASSUME LeagueInv, NEW i \in DOMAIN given, IsLive(given[i]),
                      {<<"teams">>, <<"roster", Mine, given[i].week>>} \cap blanks = {}
               PROVE  /\ Mine \in DOMAIN given[i].league.rosters
                      /\ given[i].league.rosters[Mine] # {}
    BY DEF OwnRosterOrRaise
  <2>1. Mine \in DOMAIN given[i].league.rosters
    BY DEF LeagueInv, GivenIsRecalled, OwnIsThere
  <2>2. LET own == <<"roster", Mine, given[i].week>> IN
        own \in DOMAIN memo /\ memo[own] = given[i].league.rosters[Mine] /\ memo[own] # {}
    BY <2>1 DEF LeagueInv, GivenIsRecalled, Recalled, MemoIsHonest
  <2> QED
    BY <2>1, <2>2
<1> QED
  BY <1>1, LeagueInvAlways, PTL

\* The typed roster stands in only where Yahoo refuses the app, and never
\* after the live league was given (Context.league_snapshot, src/cli.py).
THEOREM ManualAtTheGate == LeagueSpec => []ManualOnlyAtTheGate
<1>1. LeagueInv => ManualOnlyAtTheGate
  BY DEF LeagueInv
<1> QED
  BY <1>1, LeagueInvAlways, PTL

-----------------------------------------------------------------------------
(***************************************************************************)
(* The wire.  Until somebody moves it is what it was, the pages read so    *)
(* far are its beginning, and what is remembered, kept or given is whole.  *)
(***************************************************************************)

\* The first n players of the wire.
First(n) == SubSeq(Wire, 1, n)

Whole(read) ==
  read = <<>> \/ (read = First(Len(read)) /\ (Len(read) >= Asked \/ read = Wire))

WireInv ==
  /\ moves \in Nat
  /\ moves = 0 =>
       /\ wire = Wire
       /\ job.at = "wire" => \E n \in 0..Len(Wire) : snapshot.wire = First(n)
       /\ job.at = "roster" => Whole(snapshot.wire)
       /\ <<"wire">> \in DOMAIN memo => Whole(memo[<<"wire">>])
       /\ \A w \in DOMAIN kept : Whole(kept[w].wire)
       /\ \A i \in DOMAIN given : IsLive(given[i]) => Whole(given[i].league.wire)

\* The beginning of the wire, and one more page of it.
LEMMA FirstIs ==
  ASSUME NEW n \in 0..Len(Wire)
  PROVE  /\ Len(Wire) \in Nat /\ DOMAIN First(n) = 1..n /\ Len(First(n)) = n
         /\ \A i \in 1..n : First(n)[i] = Wire[i]
         /\ First(Len(Wire)) = Wire /\ First(0) = <<>>
         /\ First(n) \in Seq({Wire[i] : i \in DOMAIN Wire})
<1> DEFINE S == {Wire[i] : i \in DOMAIN Wire}
<1>1. Wire \in Seq(S)
  BY WireAssumption
<1> HIDE DEF S
<1>2. /\ Len(Wire) \in Nat /\ DOMAIN First(n) = 1..n /\ Len(First(n)) = n
      /\ \A i \in 1..n : First(n)[i] = Wire[i]
  BY <1>1 DEF First
<1>3. First(Len(Wire)) = Wire /\ First(0) = <<>>
  BY <1>1 DEF First
<1>4. First(n) \in Seq(S)
  BY <1>1 DEF First
<1> QED
  BY <1>2, <1>3, <1>4 DEF S

LEMMA PageIs ==
  ASSUME NEW n \in 0..Len(Wire), wire = Wire
  PROVE  LET to == IF n + PageSize < Len(Wire) THEN n + PageSize ELSE Len(Wire)
         IN  /\ to \in 0..Len(Wire) /\ n <= to
             /\ Len(PageFrom(n)) = to - n
             /\ First(n) \o PageFrom(n) = First(to)
<1> DEFINE S == {Wire[i] : i \in DOMAIN Wire}
<1>1. Wire \in Seq(S) /\ PageSize \in Nat /\ Len(Wire) \in Nat
  BY WireAssumption, PageAssumption
<1> HIDE DEF S
<1>2. PICK to : to = IF n + PageSize < Len(Wire) THEN n + PageSize ELSE Len(Wire)
  OBVIOUS
<1>3. to \in 0..Len(Wire) /\ n <= to /\ PageFrom(n) = SubSeq(Wire, n + 1, to)
  BY <1>1, <1>2 DEF PageFrom
<1>4. First(n) \o PageFrom(n) = First(to)
  <2>1. 1 \in 1..(Len(Wire) + 1) /\ n \in (1 - 1)..Len(Wire) /\ to \in n..Len(Wire)
    BY <1>1, <1>3
  <2>2. SubSeq(Wire, 1, n) \o SubSeq(Wire, n + 1, to) = SubSeq(Wire, 1, to)
    BY <1>1, <2>1, ConcatAdjacentSubSeq
  <2> QED
    BY <1>3, <2>2 DEF First
<1>5. Len(PageFrom(n)) = to - n
  BY <1>1, <1>3
<1> QED
  BY <1>2, <1>3, <1>4, <1>5

\* The page a fetch stops at is the last one it needs.
LEMMA LastPageIs ==
  ASSUME NEW n \in 0..Len(Wire), wire = Wire
  PROVE  /\ \E m \in 0..Len(Wire) : First(n) \o PageFrom(n) = First(m)
         /\ LastPage(PageFrom(n), First(n)) => Whole(First(n) \o PageFrom(n))
<1>1. PICK to : to = IF n + PageSize < Len(Wire) THEN n + PageSize ELSE Len(Wire)
  OBVIOUS
<1>2. /\ to \in 0..Len(Wire) /\ n <= to
      /\ Len(PageFrom(n)) = to - n
      /\ First(n) \o PageFrom(n) = First(to)
  BY <1>1, PageIs
<1>3. Len(First(n)) = n /\ Len(First(to)) = to /\ First(Len(Wire)) = Wire /\ Len(Wire) \in Nat
  BY <1>2, FirstIs
<1>4. ASSUME LastPage(PageFrom(n), First(n))
      PROVE  to >= Asked \/ to = Len(Wire)
  BY <1>1, <1>2, <1>3, <1>4, PageAssumption DEF LastPage
<1> QED
  BY <1>2, <1>3, <1>4 DEF Whole

\* A step that reads no page: what it remembers, keeps and gives is as whole
\* as what it found.
LEMMA WireStays ==
  ASSUME WireInv, UNCHANGED <<moves, wire>>,
         moves = 0 =>
           /\ job'.at = "wire" => \E n \in 0..Len(Wire) : snapshot'.wire = First(n)
           /\ job'.at = "roster" => Whole(snapshot'.wire)
           /\ <<"wire">> \in DOMAIN memo' => Whole(memo'[<<"wire">>])
           /\ \A w \in DOMAIN kept' : Whole(kept'[w].wire)
           /\ \A i \in DOMAIN given' : IsLive(given'[i]) => Whole(given'[i].league.wire)
  PROVE  WireInv'
  BY DEF WireInv, IsLive, Whole, First

LEMMA WireInductive ==
  ASSUME LeagueInv, WireInv, [LeagueNext]_leagueVars
  PROVE  WireInv'
<1>0. DOMAIN job = JobFields /\ DOMAIN snapshot = LeagueFields
  BY DEF LeagueInv, ShapesOK
<1>1. CASE \E week \in Weeks : Ask(week)
  <2>1. job'.at = "asked" /\ UNCHANGED <<wire, moves, memo, snapshot, kept, given>>
    <3>1. PICK week \in Weeks : Ask(week)
      BY <1>1
    <3> QED
      BY <3>1 DEF Ask
  <2> QED
    BY <2>1, WireStays DEF WireInv
<1>2. CASE Reuse
  <2>1. UNCHANGED <<wire, moves, memo, snapshot, kept>>
    BY <1>2 DEF Reuse
  <2> DEFINE answer == Live(kept[job.week])
  <2>2. answer.league = kept[job.week] /\ Deliver(answer) /\ job.week \in DOMAIN kept
    BY <1>2 DEF Reuse, Live
  <2> HIDE DEF answer
  <2>3. job'.at = "idle" /\ \A i \in DOMAIN given' :
          (i \in DOMAIN given /\ given'[i] = given[i]) \/ given'[i] = answer
    BY <2>2, DeliverIs
  <2>4. moves = 0 => \A i \in DOMAIN given' : IsLive(given'[i]) => Whole(given'[i].league.wire)
    BY <2>2, <2>3 DEF WireInv
  <2> QED
    BY <2>1, <2>3, <2>4, WireStays DEF WireInv
<1>3. CASE Teams
  <2>1. UNCHANGED <<wire, moves, kept, given>>
    BY <1>3 DEF Teams
  <2>2. <<"wire">> \in DOMAIN memo' => <<"wire">> \in DOMAIN memo /\ memo'[<<"wire">>] = memo[<<"wire">>]
    <3>1. \/ UNCHANGED memo
          \/ \E answer : memo' = Remember(memo, <<"teams">>, answer)
      BY <1>3 DEF Teams, Cached
    <3>2. <<"wire">> # <<"teams">>
      OBVIOUS
    <3> QED
      BY <3>1, <3>2 DEF Remember
  <2>3. \/ job'.at = "wire" /\ snapshot'.wire = <<>>
        \/ job'.at = "failed"
    <3>1. \/ \E answer : /\ snapshot' = [NoLeague EXCEPT !.teams = answer]
                          /\ job' = [job EXCEPT !.at = "wire"]
          \/ \E failure : job' = [job EXCEPT !.at = "failed", !.failure = failure]
      BY <1>3 DEF Teams, Proceed, FetchFails
    <3> QED
      BY <1>0, <3>1 DEF NoLeague, JobFields
  <2>4. Len(Wire) \in Nat
    BY WireAssumption
  <2>5. 0 \in 0..Len(Wire)
    BY <2>4
  <2>6. 0 \in 0..Len(Wire) /\ First(0) = <<>>
    BY <2>5, FirstIs
  <2> QED
    BY <2>1, <2>2, <2>3, <2>6, WireStays DEF WireInv
<1>4. CASE FreeAgents
  <2>1. UNCHANGED <<wire, moves, kept, given>> /\ job.at = "wire"
    BY <1>4 DEF FreeAgents
  <2>2. CASE Known(<<"wire">>)
    <3>1. /\ job'.at = "roster" /\ snapshot'.wire = memo[<<"wire">>] /\ UNCHANGED memo
          /\ <<"wire">> \in DOMAIN memo
      BY <1>0, <1>4, <2>2 DEF FreeAgents, Collected, Proceed, Known, JobFields, LeagueFields
    <3> QED
      BY <2>1, <3>1, WireStays DEF WireInv
  <2>3. CASE ~Known(<<"wire">>)
    <3> DEFINE read == snapshot.wire
    <3> DEFINE batch == PageFrom(Len(read))
    <3>1. IF LastPage(batch, read)
          THEN /\ Collected(read \o batch)
               /\ memo' = Remember(memo, <<"wire">>, read \o batch)
          ELSE /\ snapshot' = [snapshot EXCEPT !.wire = read \o batch]
               /\ UNCHANGED <<memo, job>>
      BY <1>4, <2>3 DEF FreeAgents
    <3>2. moves = 0 => /\ \E m \in 0..Len(Wire) : read \o batch = First(m)
                       /\ LastPage(batch, read) => Whole(read \o batch)
      <4> SUFFICES ASSUME moves = 0
                   PROVE  /\ \E m \in 0..Len(Wire) : read \o batch = First(m)
                          /\ LastPage(batch, read) => Whole(read \o batch)
        OBVIOUS
      <4>1. PICK n \in 0..Len(Wire) : read = First(n)
        BY <2>1 DEF WireInv
      <4>2. Len(read) = n /\ wire = Wire
        BY <4>1, FirstIs DEF WireInv
      <4> QED
        BY <4>1, <4>2, LastPageIs
    <3>3. CASE LastPage(batch, read)
      <4>1. /\ job'.at = "roster" /\ snapshot'.wire = read \o batch
            /\ memo'[<<"wire">>] = read \o batch
        <5>1. /\ job' = [job EXCEPT !.at = "roster"]
              /\ snapshot' = [snapshot EXCEPT !.wire = read \o batch]
              /\ memo' = Remember(memo, <<"wire">>, read \o batch)
          BY <3>1, <3>3 DEF Collected, Proceed
        <5> HIDE DEF read, batch
        <5>2. memo'[<<"wire">>] = read \o batch
          <6>1. PICK all : all = read \o batch
            OBVIOUS
          <6>2. PICK key : key = <<"wire">>
            OBVIOUS
          <6>3. memo' = Remember(memo, key, all)
            BY <5>1, <6>1, <6>2, Zenon
          <6>4. memo'[key] = all
            BY <6>3 DEF Remember
          <6> QED
            BY <6>1, <6>2, <6>4, Zenon
        <5> QED
          BY <1>0, <5>1, <5>2 DEF JobFields, LeagueFields
      <4> HIDE DEF read, batch
      <4> QED
        BY <2>1, <3>2, <3>3, <4>1, WireStays DEF WireInv
    <3>4. CASE ~LastPage(batch, read)
      <4>1. snapshot'.wire = read \o batch /\ UNCHANGED <<memo, job>>
        BY <1>0, <3>1, <3>4 DEF LeagueFields
      <4> HIDE DEF read, batch
      <4> QED
        BY <2>1, <3>2, <4>1, WireStays DEF WireInv
    <3> QED
      BY <3>3, <3>4
  <2> QED
    BY <2>2, <2>3
<1>5. CASE NoFreeAgents
  <2>1. UNCHANGED <<wire, moves, memo, kept, given>> /\ job'.at = "roster" /\ snapshot'.wire = <<>>
    BY <1>0, <1>5 DEF NoFreeAgents, Collected, Proceed, JobFields, LeagueFields
  <2>2. Whole(<<>>)
    BY DEF Whole
  <2> QED
    BY <2>1, <2>2, WireStays DEF WireInv
<1>6. ASSUME NEW team \in Team, RosterOf(team)
      PROVE  WireInv'
  <2>1. UNCHANGED <<wire, moves, kept, given, job>> /\ job.at = "roster"
    BY <1>6 DEF RosterOf
  <2> DEFINE key == <<"roster", team, job.week>>
  <2>2. <<"wire">> \in DOMAIN memo' => <<"wire">> \in DOMAIN memo /\ memo'[<<"wire">>] = memo[<<"wire">>]
    <3>1. \/ UNCHANGED memo
          \/ \E answer : memo' = Remember(memo, key, answer)
      BY <1>6 DEF RosterOf, Cached
    <3>2. <<"wire">> # key
      OBVIOUS
    <3> HIDE DEF key
    <3> QED
      BY <3>1, <3>2 DEF Remember
  <2>3. snapshot'.wire = snapshot.wire
    BY <1>0, <1>6 DEF RosterOf, LeagueFields
  <2> QED
    BY <2>1, <2>2, <2>3, WireStays DEF WireInv
<1>7. CASE Collect
  <2>1. UNCHANGED <<wire, moves, memo, snapshot>> /\ job.at = "roster"
    BY <1>7 DEF Collect
  <2>2. CASE Complete
    <3> DEFINE answer == Live(snapshot)
    <3>1. answer.league = snapshot /\ Deliver(answer) /\ kept' = Remember(<<>>, job.week, snapshot)
      BY <1>7, <2>2 DEF Collect, Live
    <3> HIDE DEF answer
    <3>2. job'.at = "idle" /\ \A i \in DOMAIN given' :
            (i \in DOMAIN given /\ given'[i] = given[i]) \/ given'[i] = answer
      BY <3>1, DeliverIs
    <3>3. moves = 0 => \A i \in DOMAIN given' : IsLive(given'[i]) => Whole(given'[i].league.wire)
      BY <2>1, <3>1, <3>2 DEF WireInv
    <3>4. \A w \in DOMAIN kept' : kept'[w] = snapshot
      BY <3>1 DEF Remember
    <3> QED
      BY <2>1, <3>2, <3>3, <3>4, WireStays DEF WireInv
  <2>3. CASE ~Complete
    <3>1. job'.at = "failed" /\ UNCHANGED <<given, kept>>
      BY <1>0, <1>7, <2>3 DEF Collect, FetchFails, JobFields
    <3> QED
      BY <2>1, <3>1, WireStays DEF WireInv
  <2> QED
    BY <2>2, <2>3
<1>8. CASE SettleFor
  <2>1. UNCHANGED <<wire, moves, memo, snapshot, kept>>
    BY <1>8 DEF SettleFor
  <2> DEFINE kind == IF Refused(job.failure) /\ Typed THEN "manual" ELSE "raised"
  <2> DEFINE answer == NotLive(kind)
  <2>2. ~IsLive(answer) /\ Deliver(answer)
    BY <1>8 DEF SettleFor, NotLive, IsLive
  <2> HIDE DEF answer
  <2>3. job'.at = "idle" /\ \A i \in DOMAIN given' :
          (i \in DOMAIN given /\ given'[i] = given[i]) \/ given'[i] = answer
    BY <2>2, DeliverIs
  <2>4. moves = 0 => \A i \in DOMAIN given' : IsLive(given'[i]) => Whole(given'[i].league.wire)
    BY <2>2, <2>3 DEF WireInv
  <2> QED
    BY <2>1, <2>3, <2>4, WireStays DEF WireInv
<1>9. CASE \E team \in Team : \E dropped \in rosters[team] : Claim(team, dropped)
  <2>1. moves = 0 /\ moves' = moves + 1
    BY <1>9 DEF Claim
  <2> QED
    BY <2>1 DEF WireInv
<1>10. CASE UNCHANGED leagueVars
  BY <1>10, WireStays DEF leagueVars, WireInv
<1> QED
  BY <1>1, <1>2, <1>3, <1>4, <1>5, <1>6, <1>7, <1>8, <1>9, <1>10 DEF LeagueNext

\* A wire that nobody moved is read whole, up to the number a job asks for,
\* or not at all, whatever the size of Yahoo's pages and whichever of them
\* fails (fetch_free_agents, src/yahoo_client.py).
THEOREM WireIsAlwaysWhole == LeagueSpec => []WholeWire
<1>1. LeagueInit => WireInv
  <2> SUFFICES ASSUME LeagueInit PROVE WireInv
    OBVIOUS
  <2>1. /\ moves = 0 /\ wire = Wire /\ job.at = "idle"
        /\ memo = <<>> /\ kept = <<>> /\ given = <<>>
    BY DEF LeagueInit
  <2>2. DOMAIN memo = {} /\ DOMAIN kept = {} /\ DOMAIN given = {}
    <3>1. DOMAIN <<>> = {}
      OBVIOUS
    <3> QED
      BY <2>1, <3>1, Zenon
  <2> QED
    BY <2>1, <2>2 DEF WireInv
<1>2. LeagueInv /\ WireInv /\ [LeagueNext]_leagueVars => WireInv'
  BY WireInductive
<1>3. WireInv => WholeWire
  <2> SUFFICES ASSUME WireInv, NEW i \in DOMAIN given, IsLive(given[i]), moves = 0
               PROVE  LET read == given[i].league.wire IN
                      \/ read = <<>>
                      \/ read = SubSeq(Wire, 1, Len(read)) /\ (Len(read) >= Asked \/ read = Wire)
    BY DEF WholeWire
  <2>1. Whole(given[i].league.wire)
    BY DEF WireInv
  <2> QED
    BY <2>1 DEF Whole, First
<1> QED
  BY <1>1, <1>2, <1>3, LeagueInvAlways, PTL DEF LeagueSpec
=============================================================================
