----------------------------- MODULE BrowserAccess -----------------------------
(***************************************************************************)
(* How a browser reaches the loopback server                               *)
(* (crates/desktop-bridge/src/server.rs): the launch tokens of "Open       *)
(* Browser Client", the pairing challenge with its PIN, and the sessions   *)
(* both exchanges establish.  Every mutex is taken for one step, so two    *)
(* requests interleave between them.                                       *)
(*                                                                         *)
(* A token, a challenge and a session is its number; 0 is none.  A clock   *)
(* runs out by an action of its own, the oldest token first.               *)
(***************************************************************************)
EXTENDS Naturals, Sequences, FiniteSets

CONSTANTS
  Browsers,        \* browsers, each with an origin proof of its own
  SessionLimit,    \* BROWSER_SESSION_LIMIT, of the tokens and of the sessions
  PairingAttempts, \* BROWSER_PAIRING_ATTEMPTS
  MaxTokens,       \* bound: launch URLs issued
  MaxChallenges,   \* bound: pairing challenges
  MaxSessions      \* bound: sessions

VARIABLES
  tokens,    \* pending_launch_tokens: a queue, in the order of their numbers
  sessions,  \* sessions: a queue
  pairing,   \* the pending challenge: {} or {challenge}
  lockout,   \* pairing_lockout
  browser,   \* each browser: where its request is, and what it was given
  via,       \* what each session was established with
  issued,    \* tokens and challenges so far
  ended      \* how each challenge that is no longer pending ended

bavars == <<tokens, sessions, pairing, lockout, browser, via, issued, ended>>

IdleBrowser == [at |-> "idle", for |-> 0, cookie |-> 0, challenge |-> 0, page |-> "pairing"]

BrowserInit ==
  /\ tokens = {} /\ sessions = <<>> /\ pairing = {} /\ lockout = FALSE
  /\ browser = [b \in Browsers |-> IdleBrowser]
  /\ via = <<>> /\ issued = [tokens |-> 0, challenges |-> 0] /\ ended = <<>>

Place(b, at, for) == browser' = [browser EXCEPT ![b].at = at, ![b].for = for]

-----------------------------------------------------------------------------
(* Launch tokens.                                                           *)

\* issue_launch_url_with_policy: expired tokens go, a development token
\* replaces its predecessor, and at the limit the oldest other one is evicted.
Oldest(queue) == CHOOSE t \in queue : \A u \in queue : t.id <= u.id
Issued(dev) ==
  LET kept == {t \in tokens : t.current /\ ~(dev /\ t.dev)}
      others == {t \in kept : ~t.dev}
      evicted == Oldest(IF others = {} THEN kept ELSE others)
      room == IF Cardinality(kept) >= SessionLimit THEN kept \ {evicted} ELSE kept
  IN  room \cup {[id |-> issued.tokens + 1, dev |-> dev, current |-> TRUE]}

IssueLaunchUrl(dev) ==
  /\ issued.tokens < MaxTokens
  /\ tokens' = Issued(dev) /\ issued' = [issued EXCEPT !.tokens = @ + 1]
  /\ UNCHANGED <<sessions, pairing, lockout, browser, via, ended>>

\* is_current: the two minutes of the oldest one-time token run out.
TokenExpires ==
  \E t \in tokens :
    /\ t.current /\ ~t.dev
    /\ \A u \in tokens : u.id < t.id => u.dev \/ ~u.current
    /\ tokens' = (tokens \ {t}) \cup {[t EXCEPT !.current = FALSE]}
    /\ UNCHANGED <<sessions, pairing, lockout, browser, via, issued, ended>>

\* The queue after a request has presented token id: what is current, without
\* the one-time token it consumed.
MutantPresented(id) == {t \in tokens : t.current}
Presented(id) == {t \in tokens : t.current /\ (t.id # id \/ t.dev)}

\* browser_bootstrap with a launch token.  The token is consumed before the
\* proof is looked at.
BootstrapWithToken(b, id, proven) ==
  LET accepted == {t \in tokens : t.id = id /\ t.current}
  IN  /\ browser[b].at = "idle"
      /\ tokens' = Presented(id)
      /\ IF accepted = {} \/ ~proven THEN UNCHANGED browser
         ELSE \E t \in accepted : Place(b, IF t.dev THEN "development" ELSE "token", id)
      /\ UNCHANGED <<sessions, pairing, lockout, via, issued, ended>>

\* has_browser_session: the cookie and the proof belong to one kept session.
HasSession(b) ==
  \E i \in 1 .. Len(sessions) : sessions[i].id = browser[b].cookie /\ sessions[i].proof = b

\* browser_bootstrap of a page that has only its cookie.
BootstrapWithSession(b) ==
  /\ browser[b].at = "idle"
  /\ browser' = [browser EXCEPT ![b].page = IF HasSession(b) THEN "running" ELSE "pairing"]
  /\ UNCHANGED <<tokens, sessions, pairing, lockout, via, issued, ended>>

\* establish_browser_session and the response with its cookie: the oldest
\* session makes room.
EstablishSession(b) ==
  /\ browser[b].at \in {"token", "development", "challenge"} /\ Len(via) < MaxSessions
  /\ sessions' = Append(IF Len(sessions) >= SessionLimit THEN Tail(sessions) ELSE sessions,
                        [id |-> Len(via) + 1, proof |-> b])
  /\ via' = Append(via, [kind |-> browser[b].at, id |-> browser[b].for])
  /\ browser' = [browser EXCEPT ![b] = [@ EXCEPT !.at = "idle", !.for = 0,
                                          !.cookie = Len(via) + 1, !.page = "running"]]
  /\ UNCHANGED <<tokens, pairing, lockout, issued, ended>>

-----------------------------------------------------------------------------
(* Pairing.                                                                 *)

EndsChallenge(how) == ended' = [ended EXCEPT ![(CHOOSE p \in pairing : TRUE).id] = how]

\* start_browser_pairing, under the lockout's mutex.
StartPairing(b) ==
  /\ browser[b].at = "idle" /\ ~lockout
  /\ Place(b, "admitted", 0)
  /\ UNCHANGED <<tokens, sessions, pairing, lockout, via, issued, ended>>

\* Under the challenge's mutex: a current challenge is shown again, an expired
\* one is replaced.
Challenge(b) ==
  /\ browser[b].at = "admitted"
  /\ \/ \E p \in pairing :
          /\ p.current /\ Place(b, "prompt", p.id) /\ UNCHANGED <<pairing, issued, ended>>
     \/ /\ \A p \in pairing : ~p.current
        /\ issued.challenges < MaxChallenges
        /\ LET id == issued.challenges + 1
           IN  /\ pairing' = {[id |-> id, left |-> PairingAttempts, current |-> TRUE]}
               /\ issued' = [issued EXCEPT !.challenges = id]
               /\ ended' = Append([i \in 1 .. Len(ended) |->
                                     IF ended[i] = "pending" THEN "expired" ELSE ended[i]], "pending")
               /\ Place(b, "prompt", id)
  /\ UNCHANGED <<tokens, sessions, lockout, via>>

\* The native prompt failed: only the challenge it was for is taken back.
Unshown(id) == \E p \in pairing : p.id = id

ShowPin(b, shown) ==
  LET id == browser[b].for
      gone == ~shown /\ Unshown(id)
  IN  /\ browser[b].at = "prompt"
      /\ browser' = [browser EXCEPT ![b] = [@ EXCEPT !.at = "idle", !.for = 0,
                                              !.challenge = IF shown THEN id ELSE browser[b].challenge]]
      /\ IF gone THEN pairing' = {} /\ EndsChallenge(IF \E p \in pairing : p.id = id THEN "unshown" ELSE "lost")
                 ELSE UNCHANGED <<pairing, ended>>
      /\ UNCHANGED <<tokens, sessions, lockout, via, issued>>

\* complete_browser_pairing, under the challenge's mutex, with the challenge
\* the browser was given and a PIN that is the one shown for it or is not.
CompletePairing(b, right) ==
  /\ browser[b].at = "idle" /\ browser[b].challenge # 0
  /\ \E p \in pairing :
       CASE ~p.current -> pairing' = {} /\ EndsChallenge("expired") /\ UNCHANGED <<lockout, browser>>
         [] p.current /\ right /\ p.id = browser[b].challenge ->
              pairing' = {} /\ EndsChallenge("completed") /\ Place(b, "challenge", p.id) /\ UNCHANGED lockout
         [] p.current /\ ~(right /\ p.id = browser[b].challenge) /\ p.left = 1 ->
              pairing' = {} /\ EndsChallenge("exhausted") /\ lockout' = TRUE /\ UNCHANGED browser
         [] OTHER ->
              pairing' = {[p EXCEPT !.left = @ - 1]} /\ UNCHANGED <<lockout, browser, ended>>
  /\ UNCHANGED <<tokens, sessions, via, issued>>

PairingExpires ==
  /\ \E p \in pairing : p.current /\ pairing' = {[p EXCEPT !.current = FALSE]}
  /\ UNCHANGED <<tokens, sessions, lockout, browser, via, issued, ended>>

LockoutEnds ==
  /\ lockout /\ lockout' = FALSE
  /\ UNCHANGED <<tokens, sessions, pairing, browser, via, issued, ended>>

BrowserNext ==
  \/ \E dev \in BOOLEAN : IssueLaunchUrl(dev)
  \/ \E b \in Browsers :
       \/ \E id \in 0 .. issued.tokens, proven \in BOOLEAN : BootstrapWithToken(b, id, proven)
       \/ BootstrapWithSession(b) \/ EstablishSession(b)
       \/ StartPairing(b) \/ Challenge(b)
       \/ \E yes \in BOOLEAN : ShowPin(b, yes) \/ CompletePairing(b, yes)
  \/ TokenExpires \/ PairingExpires \/ LockoutEnds

BrowserSpec == BrowserInit /\ [][BrowserNext]_bavars

-----------------------------------------------------------------------------
(* A one-time launch token, and a challenge, establishes at most one       *)
(* session, whatever two requests that present it at once do               *)
(* (browser_bootstrap, complete_browser_pairing): what is accepted is      *)
(* consumed under the same mutex, before the session's own.                *)
OneTimeIsOnce ==
  \A i, j \in 1 .. Len(via) : (i # j /\ via[i] = via[j]) => via[i].kind = "development"

(* A challenge ends because it was answered, used up or expired, or        *)
(* because the prompt for that very challenge failed                       *)
(* (start_browser_pairing): never because the prompt of an earlier one     *)
(* failed late.                                                            *)
ChallengeEndsByItself == \A i \in 1 .. Len(ended) : ended[i] # "lost"

(* Both: what lets a browser in is used once, and ends for its own reason. *)
AccessIsOnce == OneTimeIsOnce /\ ChallengeEndsByItself
===============================================================================
