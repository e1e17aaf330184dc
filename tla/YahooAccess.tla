----------------------------- MODULE YahooAccess ----------------------------
(***************************************************************************)
(* The gates between this program and Yahoo's league data, and how each    *)
(* runner learns that one has opened: `fcc yahoo-scope` and `fcc doctor`   *)
(* (src/cli.py), over probe_fantasy_scope, has_stored_token and            *)
(* classify_access_error (src/yahoo_client.py).                            *)
(*                                                                         *)
(* Yahoo attaches the Fantasy scope to the app, somebody consents in a     *)
(* terminal, and Yahoo then enables the Client ID for data, announcing     *)
(* nothing.  The laptop has a token once consent is done; the hosted       *)
(* runner never has one.                                                   *)
(***************************************************************************)
EXTENDS Naturals, Sequences

CONSTANTS
  Runners,    \* where `fcc yahoo-scope` runs
  Terminals,  \* the runners with a person at a terminal
  Keyed,      \* the runners that hold a Client ID
  MaxNotes    \* bounds the copies of one announcement

VARIABLES
  attached,   \* Yahoo has attached the scope to the app
  enabled,    \* Yahoo answers data calls of the Client ID
  token,      \* runner -> "none", "stale" (without the scope) or "good"
  at,         \* runner -> where its check is
  sent        \* note -> how many times it was delivered

accessVars == <<attached, enabled, token, at, sent>>

Notes == {"attached", "working"}

AccessInit ==
  /\ attached = FALSE /\ enabled = FALSE
  /\ token = [r \in Runners |-> "none"]
  /\ at = [r \in Runners |-> "idle"]
  /\ sent = [n \in Notes |-> 0]

-----------------------------------------------------------------------------
(* Reading Yahoo's answers.                                                *)

\* The authorization endpoint: an HTTP status, the error of the redirect, and
\* whether it goes to the login page.  No answer is the network's failure.
Verdict(answer) ==
  CASE answer = "invalid_scope" -> "not-attached"
    [] answer \in {"unauthorized_client", "invalid_client"} -> "bad-client"
    [] answer = "login" -> "attached"
    [] OTHER -> "unknown"

\* What the endpoint can do: the truth, or trouble of its own.
ProbeAnswers ==
  {IF attached THEN "login" ELSE "invalid_scope", "no answer", "no redirect", "elsewhere"}

(***************************************************************************)
(* The text of a failed call is the set of the markers it contains; the    *)
(* first of these that matches names the failure.                          *)
(***************************************************************************)
ClassesByStatus ==
  << [kind |-> "not-provisioned",
      markers |-> {"401", "403", "unauthorized", "forbidden", "insufficient scope",
                   "valid credentials", "oauth_problem",
                   "not authorized to perform this action"}],
     [kind |-> "stale-scope", markers |-> {"additional_authorization_required"}],
     [kind |-> "no-consent", markers |-> {"eof when reading", "enter verifier", "eoferror"}],
     [kind |-> "rate-limited", markers |-> {"999", "rate limit"}],
     [kind |-> "token-expired", markers |-> {"token expired", "token invalid"}] >>

Classes ==
  << [kind |-> "stale-scope", markers |-> {"additional_authorization_required"}],
     [kind |-> "no-consent", markers |-> {"eof when reading", "enter verifier", "eoferror"}],
     [kind |-> "rate-limited", markers |-> {"999", "rate limit"}],
     [kind |-> "not-provisioned",
      markers |-> {"401", "403", "unauthorized", "forbidden", "insufficient scope",
                   "valid credentials", "oauth_problem",
                   "not authorized to perform this action"}],
     [kind |-> "token-expired", markers |-> {"token expired", "token invalid"}] >>

Classify(text) ==
  LET hits == {i \in DOMAIN Classes : Classes[i].markers \cap text # {}} IN
  IF hits = {} THEN "error"
  ELSE Classes[CHOOSE i \in hits : \A j \in hits : i <= j].kind

\* What Yahoo, or the network, says to a data call from runner r.
CallAnswers(r) ==
  { {"timed out"}, {"999"} } \cup
  (CASE token[r] = "none"  -> {{"eof when reading"}}
     [] token[r] = "stale" -> {{"additional_authorization_required", "valid credentials"}}
     [] OTHER -> IF enabled THEN {{}} ELSE {{"not authorized to perform this action"}})

Succeeds(text) == text = {}

-----------------------------------------------------------------------------
(* What Yahoo and the manager do.                                          *)

Attach  == ~attached /\ attached' = TRUE /\ UNCHANGED <<enabled, token, at, sent>>

Enable  == ~enabled /\ enabled' = TRUE /\ UNCHANGED <<attached, token, at, sent>>

Consent(r) ==
  /\ r \in Terminals
  /\ token' = [token EXCEPT ![r] = IF attached THEN "good" ELSE "stale"]
  /\ UNCHANGED <<attached, enabled, at, sent>>

\* The YAHOO_* lines are deleted from .env.
DeleteToken(r) ==
  /\ r \in Terminals
  /\ token' = [token EXCEPT ![r] = "none"]
  /\ UNCHANGED <<attached, enabled, at, sent>>

-----------------------------------------------------------------------------
(* announce_yahoo_scope, as steps: the probe, the token, the call, and      *)
(* _notify_once, which asks whether a note was ever sent and then sends it. *)

Go(r, label) == at' = [at EXCEPT ![r] = label]

\* Without a Client ID the command fails, loudly.
Probe(r) ==
  /\ at[r] = "idle" /\ r \in Keyed
  /\ \E answer \in ProbeAnswers :
       Go(r, IF Verdict(answer) = "attached" THEN "token" ELSE "idle")
  /\ UNCHANGED <<attached, enabled, token, sent>>

LookForToken(r) ==
  /\ at[r] = "token"
  /\ Go(r, IF token[r] = "none" THEN "tell attached?" ELSE "call")
  /\ UNCHANGED <<attached, enabled, token, sent>>

AssumeWorking(r) ==
  /\ at[r] = "call"
  /\ Go(r, "tell working?")
  /\ UNCHANGED <<attached, enabled, token, sent>>

Call(r) ==
  /\ at[r] = "call"
  /\ \E text \in CallAnswers(r) : Go(r, IF Succeeds(text) THEN "tell working?" ELSE "idle")
  /\ UNCHANGED <<attached, enabled, token, sent>>

EverSent(r, note, ask, send) ==
  /\ at[r] = ask
  /\ Go(r, IF sent[note] > 0 THEN "idle" ELSE send)
  /\ UNCHANGED <<attached, enabled, token, sent>>

\* Delivered on some channel, or on none: then it is not recorded as sent.
Send(r, note, send) ==
  /\ at[r] = send
  /\ Go(r, "idle")
  /\ \/ sent[note] < MaxNotes /\ sent' = [sent EXCEPT ![note] = @ + 1]
     \/ UNCHANGED sent
  /\ UNCHANGED <<attached, enabled, token>>

Announce(r) ==
  \/ Probe(r) \/ LookForToken(r) \/ Call(r)
  \/ EverSent(r, "attached", "tell attached?", "tell attached")
  \/ Send(r, "attached", "tell attached")
  \/ EverSent(r, "working", "tell working?", "tell working")
  \/ Send(r, "working", "tell working")

AccessNext ==
  \/ Attach \/ Enable
  \/ \E r \in Runners : Consent(r) \/ DeleteToken(r) \/ Announce(r)

AccessSpec == AccessInit /\ [][AccessNext]_accessVars

(***************************************************************************)
(* `fcc doctor`: what _describe_yahoo_access says, given the probe's and   *)
(* the call's answers.  The call is made only with a token.                *)
(***************************************************************************)
Diagnosis(r, answer, text) ==
  IF r \in Keyed /\ Verdict(answer) \in {"not-attached", "bad-client"} THEN Verdict(answer)
  ELSE IF token[r] = "none" THEN "no-consent"
  ELSE IF Succeeds(text) THEN "working"
  ELSE Classify(text)

-----------------------------------------------------------------------------
(***************************************************************************)
(* A note is never sent before what it announces has happened, on either   *)
(* runner and in any order of Yahoo's gates, consents, outages and checks  *)
(* (announce_yahoo_scope, src/cli.py:444).                                 *)
(***************************************************************************)
NotesAreTrue ==
  /\ sent["attached"] > 0 => attached
  /\ sent["working"] > 0 => enabled /\ attached

(***************************************************************************)
(* doctor says "working" only of a runner whose call would be answered,    *)
(* never blames consent on a runner that has a token, and an outage is     *)
(* never reported as Yahoo's refusal.                                      *)
(***************************************************************************)
DoctorIsRight ==
  \A r \in Runners : \A answer \in ProbeAnswers : \A text \in CallAnswers(r) :
     LET said == Diagnosis(r, answer, text) IN
     /\ said = "working" => enabled /\ token[r] = "good"
     /\ said = "not-attached" => ~attached
     /\ said = "no-consent" <=> token[r] = "none" /\ ~(r \in Keyed /\ answer = "invalid_scope")
     /\ said = "not-provisioned" => token[r] = "good" /\ ~enabled
=============================================================================
