--------------------------- MODULE DesktopProofs ---------------------------
(***************************************************************************)
(* Two services of the desktop process.  A launch token and a pairing      *)
(* challenge let in at most one session, for any number of browsers,       *)
(* tokens, challenges and sessions; and a probe result is only ever shown  *)
(* for the URL it was observed at, for any number of clients, monitors,    *)
(* hosts, edits, cycles and restarts.                                      *)
(***************************************************************************)
EXTENDS BrowserAccess, ServiceProbes, Integers, SequenceTheorems, TLAPS

-----------------------------------------------------------------------------
(* The access of browsers.                                                  *)

Token     == [id : Nat, dev : BOOLEAN, current : BOOLEAN]
Prompt    == [id : Nat, left : Int, current : BOOLEAN]
Browser   == [at : {"idle", "token", "development", "challenge", "admitted", "prompt"},
              for : Nat, cookie : Nat, challenge : Nat, page : {"pairing", "running"}]
OneTime   == {"token", "challenge"}
Credential == [kind : {"token", "development", "challenge"}, id : Nat]

\* How a challenge may end by itself; one that has not is pending.
Endings == {"pending", "expired", "exhausted", "completed", "unshown"}

\* The shape of the server's state.
Typed ==
  /\ tokens \in SUBSET Token /\ pairing \in SUBSET Prompt
  /\ browser \in [Browsers -> Browser]
  /\ via \in Seq(Credential)
  /\ issued \in [tokens : Nat, challenges : Nat]
  /\ ended \in Seq(Endings)

\* Tokens and challenges are numbered, and one challenge is pending at most.
Numbered ==
  /\ \A t \in tokens : t.id <= issued.tokens
  /\ \A t, u \in tokens : t.id = u.id => t = u
  /\ \A p \in pairing : p.id = issued.challenges /\ pairing = {p}

\* A one-time credential that a request was let in with, or is about to be, can
\* be presented no more.
Spent(kind, id) ==
  IF kind = "token" THEN id <= issued.tokens /\ \A t \in tokens : t.id # id
  ELSE id <= issued.challenges /\ \A p \in pairing : p.id # id

SpentIsGone ==
  /\ \A b \in Browsers : browser[b].at \in OneTime => Spent(browser[b].at, browser[b].for)
  /\ \A i \in 1 .. Len(via) : via[i].kind \in OneTime => Spent(via[i].kind, via[i].id)

\* Nobody else holds it and no session was established with it.
HeldOnce ==
  \A b \in Browsers : browser[b].at \in OneTime =>
    /\ \A c \in Browsers : browser[c].at = browser[b].at /\ browser[c].for = browser[b].for => c = b
    /\ \A i \in 1 .. Len(via) : via[i] # [kind |-> browser[b].at, id |-> browser[b].for]

AccessInv == Typed /\ Numbered /\ SpentIsGone /\ HeldOnce /\ AccessIsOnce

-----------------------------------------------------------------------------

USE DEF OneTime

\* The server has just started.
LEMMA AccessInitial == BrowserInit => AccessInv
BY DEF BrowserInit, AccessInv, Typed, Numbered, SpentIsGone, HeldOnce, AccessIsOnce, OneTimeIsOnce,
       ChallengeEndsByItself, IdleBrowser, Token, Prompt, Browser, Credential

\* A browser moves to another stage of its request.
LEMMA Placed ==
  ASSUME Typed, NEW b \in Browsers, NEW at \in {"idle", "token", "development", "challenge", "admitted", "prompt"},
         NEW for \in Nat, Place(b, at, for)
  PROVE  /\ browser' \in [Browsers -> Browser]
         /\ browser'[b].at = at /\ browser'[b].for = for
         /\ \A c \in Browsers : c # b => browser'[c] = browser[c]
<1>1. browser[b] \in Browser
  BY DEF Typed
<1>2. [browser[b] EXCEPT !.at = at, !.for = for] \in Browser
  BY <1>1 DEF Browser
<1>3. browser' = [browser EXCEPT ![b] = [browser[b] EXCEPT !.at = at, !.for = for]]
  BY DEF Typed, Place
<1> QED
  BY <1>1, <1>2, <1>3 DEF Typed, Browser

\* Steps that only take tokens and prompts away keep what was spent.
LEMMA StaysSpent ==
  ASSUME Typed, NEW kind \in OneTime, NEW id \in Nat, Spent(kind, id),
         issued' \in [tokens : Nat, challenges : Nat],
         issued.tokens <= issued'.tokens, issued.challenges <= issued'.challenges,
         \A t \in tokens' : t.id = issued.tokens + 1 \/ \E u \in tokens : u.id = t.id,
         \A p \in pairing' : p.id = issued.challenges + 1 \/ \E q \in pairing : q.id = p.id
  PROVE  Spent(kind, id)'
<1>1. CASE kind = "token"
  <2>1. id <= issued.tokens /\ \A t \in tokens : t.id # id
    BY <1>1 DEF Spent
  <2>2. issued.tokens \in Nat /\ issued'.tokens \in Nat
    BY DEF Typed
  <2>3. id # issued.tokens + 1 /\ id <= issued'.tokens
    BY <2>1, <2>2
  <2>4. \A t \in tokens' : t.id # id
    BY <2>1, <2>3
  <2> QED
    BY <1>1, <2>3, <2>4 DEF Spent
<1>2. CASE kind = "challenge"
  <2>1. id <= issued.challenges /\ \A p \in pairing : p.id # id
    BY <1>2 DEF Spent
  <2>2. issued.challenges \in Nat /\ issued'.challenges \in Nat
    BY DEF Typed
  <2>3. id # issued.challenges + 1 /\ id <= issued'.challenges
    BY <2>1, <2>2
  <2>4. \A p \in pairing' : p.id # id
    BY <2>1, <2>3
  <2> QED
    BY <1>2, <2>3, <2>4 DEF Spent
<1> QED
  BY <1>1, <1>2

\* What is spent stays gone as long as no browser takes a one-time credential.
LEMMA SpentKept ==
  ASSUME Typed, SpentIsGone, UNCHANGED <<browser, via>>,
         \A kind \in OneTime, id \in Nat : Spent(kind, id) => Spent(kind, id)'
  PROVE  SpentIsGone'
<1>1. \A b \in Browsers : browser[b].for \in Nat
  BY DEF Typed, Browser
<1>2. \A i \in 1 .. Len(via) : via[i].id \in Nat
  <2>1. \A i \in 1 .. Len(via) : via[i] \in Credential
    BY DEF Typed
  <2> QED
    BY <2>1 DEF Credential
<1>3. \A b \in Browsers : browser[b].at \in OneTime => Spent(browser[b].at, browser[b].for)
  BY DEF SpentIsGone
<1>4. \A i \in 1 .. Len(via) : via[i].kind \in OneTime => Spent(via[i].kind, via[i].id)
  BY DEF SpentIsGone
<1>5. \A b \in Browsers : browser'[b].at \in OneTime => Spent(browser[b].at, browser[b].for)'
  BY <1>1, <1>3 DEF Spent
<1>6. \A i \in 1 .. Len(via') : via'[i].kind \in OneTime => Spent(via[i].kind, via[i].id)'
  BY <1>2, <1>4 DEF Spent
<1> QED
  BY <1>5, <1>6 DEF SpentIsGone

\* A launch URL is issued: its number is new.
LEMMA IssueKeeps ==
  ASSUME AccessInv, NEW dev \in BOOLEAN, IssueLaunchUrl(dev)
  PROVE  AccessInv'
<1> DEFINE new == [id |-> issued.tokens + 1, dev |-> dev, current |-> TRUE]
<1>1. /\ tokens' \subseteq tokens \cup {new}
      /\ issued' = [issued EXCEPT !.tokens = @ + 1]
      /\ UNCHANGED <<sessions, pairing, lockout, browser, via, ended>>
  BY DEF IssueLaunchUrl, Issued
<1>2. new \in Token /\ issued' \in [tokens : Nat, challenges : Nat]
  BY <1>1 DEF AccessInv, Typed, Token
<1>3. Typed'
  BY <1>1, <1>2 DEF AccessInv, Typed
<1>4. Numbered'
  <2>1. issued.tokens \in Nat /\ issued'.tokens = issued.tokens + 1 /\ issued'.challenges = issued.challenges
    BY <1>1 DEF AccessInv, Typed
  <2>2. \A t \in tokens : t.id \in Nat /\ t.id <= issued.tokens
    BY DEF AccessInv, Typed, Numbered, Token
  <2>3. \A t \in tokens' : t = new \/ t \in tokens
    BY <1>1
  <2>4. new.id = issued.tokens + 1
    OBVIOUS
  <2> HIDE DEF new
  <2>5. \A t \in tokens' : t.id <= issued'.tokens
    BY <2>1, <2>2, <2>3, <2>4
  <2>6. \A t, u \in tokens' : t.id = u.id => t = u
    BY <2>1, <2>2, <2>3, <2>4 DEF AccessInv, Numbered
  <2>7. \A p \in pairing' : p.id = issued'.challenges /\ pairing' = {p}
    BY <1>1, <2>1 DEF AccessInv, Numbered
  <2> QED
    BY <2>5, <2>6, <2>7 DEF Numbered
<1>5. \A kind \in OneTime, id \in Nat : Spent(kind, id) => Spent(kind, id)'
  <2>1. issued.tokens <= issued'.tokens /\ issued.challenges <= issued'.challenges
    BY <1>1 DEF AccessInv, Typed
  <2>2. \A t \in tokens' : t.id = issued.tokens + 1 \/ \E u \in tokens : u.id = t.id
    BY <1>1
  <2> QED
    BY <1>1, <1>2, <2>1, <2>2, StaysSpent DEF AccessInv
<1>6. SpentIsGone'
  BY <1>1, <1>3, <1>5, SpentKept DEF AccessInv
<1>7. HeldOnce' /\ AccessIsOnce'
  BY <1>1 DEF AccessInv, HeldOnce, AccessIsOnce, OneTimeIsOnce, ChallengeEndsByItself
<1> QED
  BY <1>3, <1>4, <1>6, <1>7 DEF AccessInv
\* A token or a challenge runs out, a prompt is answered wrongly, the lockout ends.
LEMMA ExpireKeeps ==
  ASSUME AccessInv, TokenExpires \/ PairingExpires \/ LockoutEnds
  PROVE  AccessInv'
<1>1. CASE TokenExpires
  <2>1. PICK t \in tokens : /\ tokens' = (tokens \ {t}) \cup {[t EXCEPT !.current = FALSE]}
                           /\ UNCHANGED <<sessions, pairing, lockout, browser, via, issued, ended>>
    BY <1>1 DEF TokenExpires
  <2> DEFINE u == [t EXCEPT !.current = FALSE]
  <2>2. u \in Token /\ u.id = t.id
    BY DEF AccessInv, Typed, Token
  <2> HIDE DEF u
  <2>3. \A v \in tokens' : v = u \/ (v \in tokens /\ v # t)
    BY <2>1 DEF u
  <2>4. Typed'
    BY <2>1, <2>2, <2>3 DEF AccessInv, Typed
  <2>5. Numbered'
    BY <2>1, <2>2, <2>3 DEF AccessInv, Numbered
  <2>6. \A kind \in OneTime, id \in Nat : Spent(kind, id) => Spent(kind, id)'
    BY <2>1, <2>2, <2>3 DEF Spent
  <2>7. SpentIsGone'
    BY <2>1, <2>6, SpentKept DEF AccessInv
  <2> QED
    BY <2>1, <2>4, <2>5, <2>7 DEF AccessInv, HeldOnce, AccessIsOnce, OneTimeIsOnce, ChallengeEndsByItself
<1>2. CASE PairingExpires
  <2>1. PICK p \in pairing : /\ pairing' = {[p EXCEPT !.current = FALSE]}
                            /\ UNCHANGED <<tokens, sessions, lockout, browser, via, issued, ended>>
    BY <1>2 DEF PairingExpires
  <2>2. [p EXCEPT !.current = FALSE] \in Prompt /\ [p EXCEPT !.current = FALSE].id = p.id
    BY DEF AccessInv, Typed, Prompt
  <2>4. Typed'
    BY <2>1, <2>2 DEF AccessInv, Typed
  <2>5. Numbered'
    BY <2>1, <2>2 DEF AccessInv, Numbered
  <2>6. \A kind \in OneTime, id \in Nat : Spent(kind, id) => Spent(kind, id)'
    BY <2>1, <2>2 DEF Spent
  <2>7. SpentIsGone'
    BY <2>1, <2>6, SpentKept DEF AccessInv
  <2> QED
    BY <2>1, <2>4, <2>5, <2>7 DEF AccessInv, HeldOnce, AccessIsOnce, OneTimeIsOnce, ChallengeEndsByItself
<1>3. CASE LockoutEnds
  BY <1>3 DEF LockoutEnds, AccessInv, Typed, Numbered, SpentIsGone, Spent, HeldOnce, AccessIsOnce,
              OneTimeIsOnce, ChallengeEndsByItself
<1> QED
  BY <1>1, <1>2, <1>3

\* A browser moves on, with nothing in its hands that is used once.
LEMMA MovesOn ==
  ASSUME Typed, SpentIsGone, HeldOnce, NEW b \in Browsers,
         browser' \in [Browsers -> Browser], browser'[b].at \notin OneTime,
         \A c \in Browsers : c # b => browser'[c] = browser[c],
         via' = via,
         \A kind \in OneTime, id \in Nat : Spent(kind, id) => Spent(kind, id)'
  PROVE  SpentIsGone' /\ HeldOnce'
<1>1. \A c \in Browsers : browser[c].for \in Nat
  BY DEF Typed, Browser
<1>2. \A i \in 1 .. Len(via) : via[i].id \in Nat
  <2>1. \A i \in 1 .. Len(via) : via[i] \in Credential
    BY DEF Typed
  <2> QED
    BY <2>1 DEF Credential
<1>3. \A c \in Browsers : browser'[c].at \in OneTime => c # b /\ browser'[c] = browser[c]
  OBVIOUS
<1>4. \A c \in Browsers : browser'[c].at \in OneTime => Spent(browser[c].at, browser[c].for)'
  BY <1>1, <1>3 DEF SpentIsGone, Spent
<1>5. \A i \in 1 .. Len(via') : via'[i].kind \in OneTime => Spent(via[i].kind, via[i].id)'
  BY <1>2 DEF SpentIsGone, Spent
<1>6. HeldOnce'
  <2> SUFFICES ASSUME NEW a \in Browsers, browser'[a].at \in OneTime
               PROVE  /\ \A c \in Browsers : browser'[c].at = browser'[a].at /\ browser'[c].for = browser'[a].for => c = a
                      /\ \A i \in 1 .. Len(via') : via'[i] # [kind |-> browser'[a].at, id |-> browser'[a].for]
    BY DEF HeldOnce
  <2>1. browser'[a] = browser[a]
    BY <1>3
  <2>2. \A c \in Browsers : browser'[c].at = browser'[a].at => browser'[c] = browser[c]
    BY <1>3
  <2> QED
    BY <2>1, <2>2 DEF HeldOnce
<1> QED
  BY <1>4, <1>5, <1>6 DEF SpentIsGone

\* A browser takes a one-time credential that was not spent and now is.
LEMMA Takes ==
  ASSUME Typed, SpentIsGone, HeldOnce, NEW b \in Browsers, NEW k \in OneTime, NEW n \in Nat,
         browser' \in [Browsers -> Browser], browser'[b].at = k, browser'[b].for = n,
         \A c \in Browsers : c # b => browser'[c] = browser[c],
         via' = via, ~Spent(k, n), Spent(k, n)',
         \A kind \in OneTime, id \in Nat : Spent(kind, id) => Spent(kind, id)'
  PROVE  SpentIsGone' /\ HeldOnce'
<1>1. \A c \in Browsers : browser[c].for \in Nat
  BY DEF Typed, Browser
<1>2. \A i \in 1 .. Len(via) : via[i] \in Credential
  BY DEF Typed
<1>3. \A i \in 1 .. Len(via) : via[i].id \in Nat
  BY <1>2 DEF Credential
<1>4. \A c \in Browsers : browser'[c].at \in OneTime => Spent(browser[c].at, browser[c].for)'
  BY <1>1 DEF SpentIsGone, Spent
<1>5. \A i \in 1 .. Len(via') : via'[i].kind \in OneTime => Spent(via[i].kind, via[i].id)'
  BY <1>3 DEF SpentIsGone, Spent
<1>6. \A c \in Browsers : c # b => ~(browser[c].at = k /\ browser[c].for = n)
  BY DEF SpentIsGone
<1>7. \A i \in 1 .. Len(via) : via[i] # [kind |-> k, id |-> n]
  BY DEF SpentIsGone
<1>8. HeldOnce'
  <2> SUFFICES ASSUME NEW a \in Browsers, browser'[a].at \in OneTime
               PROVE  /\ \A c \in Browsers : browser'[c].at = browser'[a].at /\ browser'[c].for = browser'[a].for => c = a
                      /\ \A i \in 1 .. Len(via') : via'[i] # [kind |-> browser'[a].at, id |-> browser'[a].for]
    BY DEF HeldOnce
  <2>1. CASE a = b
    BY <1>6, <1>7, <2>1
  <2>2. CASE a # b
    BY <1>6, <2>2 DEF HeldOnce
  <2> QED
    BY <2>1, <2>2
<1> QED
  BY <1>4, <1>5, <1>8 DEF SpentIsGone

\* A request presents a token: a one-time token leaves the queue with it.
LEMMA TokenKeeps ==
  ASSUME AccessInv, NEW b \in Browsers, NEW n \in 0 .. issued.tokens, NEW proven \in BOOLEAN,
         BootstrapWithToken(b, n, proven)
  PROVE  AccessInv'
<1>1. /\ tokens' = {t \in tokens : t.current /\ (t.id # n \/ t.dev)}
      /\ UNCHANGED <<sessions, pairing, lockout, via, issued, ended>>
  BY DEF BootstrapWithToken, Presented
<1>2. n \in Nat /\ n <= issued.tokens
  BY DEF AccessInv, Typed
<1>3. Numbered'
  BY <1>1 DEF AccessInv, Numbered
<1>4. \A kind \in OneTime, id \in Nat : Spent(kind, id) => Spent(kind, id)'
  BY <1>1 DEF Spent
<1>5. AccessIsOnce'
  BY <1>1 DEF AccessInv, AccessIsOnce, OneTimeIsOnce, ChallengeEndsByItself
<1>6. \/ UNCHANGED browser
      \/ \E t \in tokens : /\ t.id = n /\ t.current
                          /\ Place(b, IF t.dev THEN "development" ELSE "token", n)
  BY DEF BootstrapWithToken
<1>7. CASE UNCHANGED browser
  <2>1. SpentIsGone'
    BY <1>1, <1>4, <1>7, SpentKept DEF AccessInv
  <2> QED
    BY <1>1, <1>3, <1>5, <1>7, <2>1 DEF AccessInv, Typed, HeldOnce
<1>8. ASSUME NEW t \in tokens, t.id = n, t.current,
             Place(b, IF t.dev THEN "development" ELSE "token", n)
      PROVE  AccessInv'
  <2>1. t.dev \in BOOLEAN
    BY DEF AccessInv, Typed, Token
  <2>2. CASE t.dev
    <3>1. Place(b, "development", n)
      BY <1>8, <2>2
    <3>2. /\ browser' \in [Browsers -> Browser] /\ browser'[b].at = "development"
          /\ \A c \in Browsers : c # b => browser'[c] = browser[c]
      BY <1>2, <3>1, Placed DEF AccessInv
    <3>3. SpentIsGone' /\ HeldOnce'
      BY <1>1, <1>4, <3>2, MovesOn DEF AccessInv
    <3> QED
      BY <1>1, <1>3, <1>5, <3>2, <3>3 DEF AccessInv, Typed
  <2>3. CASE ~t.dev
    <3>1. Place(b, "token", n)
      BY <1>8, <2>3
    <3>2. /\ browser' \in [Browsers -> Browser] /\ browser'[b].at = "token" /\ browser'[b].for = n
          /\ \A c \in Browsers : c # b => browser'[c] = browser[c]
      BY <1>2, <3>1, Placed DEF AccessInv
    <3>3. ~Spent("token", n)
      BY <1>8 DEF Spent
    <3>4. Spent("token", n)'
      BY <1>1, <1>2, <1>8, <2>3 DEF Spent, AccessInv, Numbered
    <3>5. SpentIsGone' /\ HeldOnce'
      BY <1>1, <1>2, <1>4, <3>2, <3>3, <3>4, Takes DEF AccessInv
    <3> QED
      BY <1>1, <1>3, <1>5, <3>2, <3>5 DEF AccessInv, Typed
  <2> QED
    BY <2>1, <2>2, <2>3
<1> QED
  BY <1>6, <1>7, <1>8

\* A page asks with its cookie, or for a challenge.
LEMMA AskKeeps ==
  ASSUME AccessInv, NEW b \in Browsers, BootstrapWithSession(b) \/ StartPairing(b)
  PROVE  AccessInv'
<1>1. UNCHANGED <<tokens, sessions, pairing, lockout, via, issued, ended>>
  BY DEF BootstrapWithSession, StartPairing
<1>2. /\ browser' \in [Browsers -> Browser] /\ browser'[b].at \in {"idle", "admitted"}
      /\ \A c \in Browsers : c # b => browser'[c] = browser[c]
  <2>1. CASE BootstrapWithSession(b)
    <3>1. PICK page \in {"running", "pairing"} : browser' = [browser EXCEPT ![b].page = page]
      BY <2>1 DEF BootstrapWithSession
    <3>2. browser[b] \in Browser /\ browser[b].at = "idle"
      BY <2>1 DEF AccessInv, Typed, BootstrapWithSession
    <3>3. [browser[b] EXCEPT !.page = page] \in Browser /\ [browser[b] EXCEPT !.page = page].at = "idle"
      BY <3>2 DEF Browser
    <3> QED
      BY <3>1, <3>3 DEF AccessInv, Typed
  <2>2. CASE StartPairing(b)
    BY <2>2, Placed DEF AccessInv, StartPairing
  <2> QED
    BY <2>1, <2>2
<1>3. \A kind \in OneTime, id \in Nat : Spent(kind, id) => Spent(kind, id)'
  BY <1>1 DEF Spent
<1>4. SpentIsGone' /\ HeldOnce'
  BY <1>1, <1>2, <1>3, MovesOn DEF AccessInv
<1> QED
  BY <1>1, <1>2, <1>4 DEF AccessInv, Typed, Numbered, AccessIsOnce, OneTimeIsOnce, ChallengeEndsByItself

\* A session is established with what the browser holds.
LEMMA EstablishKeeps ==
  ASSUME AccessInv, NEW b \in Browsers, EstablishSession(b)
  PROVE  AccessInv'
<1> DEFINE with == [kind |-> browser[b].at, id |-> browser[b].for]
<1>1. /\ browser[b] \in Browser /\ browser[b].at \in {"token", "development", "challenge"}
      /\ via' = Append(via, with)
      /\ UNCHANGED <<tokens, pairing, lockout, issued, ended>>
  BY DEF EstablishSession, AccessInv, Typed
<1>2. with \in Credential
  BY <1>1 DEF Browser, Credential
<1>3. /\ via' \in Seq(Credential) /\ Len(via') = Len(via) + 1 /\ via'[Len(via) + 1] = with
      /\ \A i \in 1 .. Len(via) : via'[i] = via[i]
      /\ Len(via) \in Nat
  BY <1>1, <1>2 DEF AccessInv, Typed
<1>4. /\ browser' \in [Browsers -> Browser] /\ browser'[b].at = "idle"
      /\ \A c \in Browsers : c # b => browser'[c] = browser[c]
  <2>1. [browser[b] EXCEPT !.at = "idle", !.for = 0, !.cookie = Len(via) + 1, !.page = "running"] \in Browser
    <3>1. Len(via) + 1 \in Nat
      BY <1>3
    <3> QED
      BY <1>1, <3>1 DEF Browser
  <2>2. browser' = [browser EXCEPT ![b] = [browser[b] EXCEPT !.at = "idle", !.for = 0,
                                             !.cookie = Len(via) + 1, !.page = "running"]]
    BY DEF EstablishSession
  <2> QED
    BY <1>1, <2>1, <2>2 DEF AccessInv, Typed, Browser
<1>5. with.kind = browser[b].at /\ with.id = browser[b].for
  OBVIOUS
<1>6. \A i \in 1 .. Len(via) : with.kind \in OneTime => via[i] # with
  BY <1>5 DEF AccessInv, HeldOnce
<1>7. \A c \in Browsers : c # b /\ browser[c].at \in OneTime =>
         with # [kind |-> browser[c].at, id |-> browser[c].for]
  BY DEF AccessInv, HeldOnce
<1>8. with.kind \in OneTime => Spent(with.kind, with.id)
  BY <1>5 DEF AccessInv, SpentIsGone
<1> HIDE DEF with
<1>9. Typed' /\ Numbered'
  BY <1>1, <1>3, <1>4 DEF AccessInv, Typed, Numbered
<1>10. \A i \in 1 .. Len(via') : i \in 1 .. Len(via) \/ i = Len(via) + 1
  BY <1>3
<1>11. SpentIsGone'
  <2>1. \A c \in Browsers : browser'[c].at \in OneTime => Spent(browser[c].at, browser[c].for)'
    BY <1>1, <1>4 DEF AccessInv, SpentIsGone, Spent
  <2>2. \A i \in 1 .. Len(via') : via'[i].kind \in OneTime => Spent(via[i].kind, via[i].id)'
    BY <1>1, <1>3, <1>8, <1>10 DEF AccessInv, SpentIsGone, Spent
  <2> QED
    BY <2>1, <2>2 DEF SpentIsGone
<1>12. HeldOnce'
  <2> SUFFICES ASSUME NEW a \in Browsers, browser'[a].at \in OneTime
               PROVE  /\ \A c \in Browsers : browser'[c].at = browser'[a].at /\ browser'[c].for = browser'[a].for => c = a
                      /\ \A i \in 1 .. Len(via') : via'[i] # [kind |-> browser'[a].at, id |-> browser'[a].for]
    BY DEF HeldOnce
  <2>1. a # b /\ browser'[a] = browser[a]
    BY <1>4
  <2>2. \A c \in Browsers : browser'[c].at = browser'[a].at => browser'[c] = browser[c]
    BY <1>4
  <2>3. \A i \in 1 .. Len(via') : via'[i] # [kind |-> browser'[a].at, id |-> browser'[a].for]
    BY <1>3, <1>7, <1>10, <2>1 DEF AccessInv, HeldOnce
  <2> QED
    BY <2>1, <2>2, <2>3 DEF AccessInv, HeldOnce
<1>13. OneTimeIsOnce'
  <2>1. with.kind \in {"token", "development", "challenge"}
    BY <1>2 DEF Credential
  <2>2. ASSUME NEW i \in 1 .. Len(via'), NEW j \in 1 .. Len(via'), i # j, via'[i] = via'[j]
        PROVE  via'[i].kind = "development"
    BY <1>3, <1>6, <1>10, <2>1, <2>2 DEF AccessInv, AccessIsOnce, OneTimeIsOnce
  <2> QED
    BY <2>2 DEF OneTimeIsOnce
<1> QED
  BY <1>1, <1>9, <1>11, <1>12, <1>13 DEF AccessInv, AccessIsOnce, ChallengeEndsByItself

\* A list of the ways a challenge ends by itself holds no other.
LEMMA NeverLost ==
  ended' \in Seq(Endings) => ended' \in Seq(Endings) /\ ChallengeEndsByItself'
<1>1. ASSUME ended' \in Seq(Endings), NEW i \in 1 .. Len(ended') PROVE ended'[i] # "lost"
  <2>1. ended'[i] \in Endings
    BY <1>1
  <2> QED
    BY <2>1 DEF Endings
<1> QED
  BY <1>1 DEF ChallengeEndsByItself

\* The pending challenge ends, for a reason other than another one's failed prompt.
LEMMA EndsWell ==
  ASSUME Typed, NEW how \in Endings, EndsChallenge(how)
  PROVE  ended' \in Seq(Endings) /\ ChallengeEndsByItself'
<1> DEFINE n == (CHOOSE p \in pairing : TRUE).id
<1>1. ended' = [ended EXCEPT ![n] = how]
  BY DEF EndsChallenge
<1> HIDE DEF n
<1>2. ended \in Seq(Endings)
  BY DEF Typed
<1>3. CASE n \in 1 .. Len(ended)
  <2>1. [ended EXCEPT ![n] = how] \in Seq(Endings)
    BY <1>2, <1>3, ExceptSeq
  <2> QED
    BY <1>1, <2>1, NeverLost
<1>4. CASE n \notin 1 .. Len(ended)
  <2>1. DOMAIN ended = 1 .. Len(ended) /\ ended = [i \in DOMAIN ended |-> ended[i]]
    BY <1>2, LenProperties
  <2>2. [ended EXCEPT ![n] = how] = ended
    BY <1>4, <2>1
  <2> QED
    BY <1>1, <1>2, <2>2, NeverLost
<1> QED
  BY <1>3, <1>4

\* A challenge is shown again or made; the one it replaces had expired.
LEMMA ChallengeKeeps ==
  ASSUME AccessInv, PairingAttempts \in Nat, NEW b \in Browsers, Challenge(b)
  PROVE  AccessInv'
<1>1. UNCHANGED <<tokens, sessions, lockout, via>>
  BY DEF Challenge
<1>2. ASSUME NEW p \in pairing, Place(b, "prompt", p.id), UNCHANGED <<pairing, issued, ended>>
      PROVE  AccessInv'
  <2>1. p.id \in Nat
    BY DEF AccessInv, Typed, Prompt
  <2>2. /\ browser' \in [Browsers -> Browser] /\ browser'[b].at = "prompt"
        /\ \A c \in Browsers : c # b => browser'[c] = browser[c]
    BY <1>2, <2>1, Placed DEF AccessInv
  <2>3. \A kind \in OneTime, id \in Nat : Spent(kind, id) => Spent(kind, id)'
    BY <1>1, <1>2 DEF Spent
  <2>4. SpentIsGone' /\ HeldOnce'
    BY <1>1, <2>2, <2>3, MovesOn DEF AccessInv
  <2> QED
    BY <1>1, <1>2, <2>2, <2>4 DEF AccessInv, Typed, Numbered, AccessIsOnce, OneTimeIsOnce, ChallengeEndsByItself
<1> DEFINE n == issued.challenges + 1
           new == [id |-> n, left |-> PairingAttempts, current |-> TRUE]
           past == [i \in 1 .. Len(ended) |-> IF ended[i] = "pending" THEN "expired" ELSE ended[i]]
<1>3. ASSUME pairing' = {new}, issued' = [issued EXCEPT !.challenges = n],
             ended' = Append(past, "pending"), Place(b, "prompt", n)
      PROVE  AccessInv'
  <2>1. /\ n \in Nat /\ issued.tokens \in Nat /\ issued' \in [tokens : Nat, challenges : Nat]
        /\ issued'.challenges = n /\ issued'.tokens = issued.tokens
    BY <1>3 DEF AccessInv, Typed
  <2>2. new \in Prompt /\ new.id = n
    BY <2>1 DEF Prompt
  <2>3. /\ browser' \in [Browsers -> Browser] /\ browser'[b].at = "prompt"
        /\ \A c \in Browsers : c # b => browser'[c] = browser[c]
    BY <1>3, <2>1, Placed DEF AccessInv
  <2>4. past \in Seq(Endings)
    <3>1. Len(ended) \in Nat /\ \A i \in 1 .. Len(ended) : ended[i] \in Endings
      BY DEF AccessInv, Typed
    <3>2. "expired" \in Endings
      BY DEF Endings
    <3>3. \A i \in 1 .. Len(ended) : (IF ended[i] = "pending" THEN "expired" ELSE ended[i]) \in Endings
      BY <3>1, <3>2
    <3> QED
      BY <3>1, <3>3, IsASeq
  <2> HIDE DEF past, new
  <2>5. ended' \in Seq(Endings) /\ ChallengeEndsByItself'
    <3>1. "pending" \in Endings
      BY DEF Endings
    <3>2. Append(past, "pending") \in Seq(Endings)
      BY <2>4, <3>1, AppendProperties
    <3> QED
      BY <1>3, <3>2, NeverLost
  <2>6. Typed'
    BY <1>1, <1>3, <2>1, <2>2, <2>3, <2>5 DEF AccessInv, Typed
  <2>7. Numbered'
    BY <1>1, <1>3, <2>1, <2>2 DEF AccessInv, Numbered
  <2>8. \A kind \in OneTime, id \in Nat : Spent(kind, id) => Spent(kind, id)'
    <3>1. issued.challenges <= issued'.challenges /\ issued.tokens <= issued'.tokens
      BY <2>1 DEF AccessInv, Typed
    <3> QED
      BY <1>1, <1>3, <2>1, <2>2, <3>1, StaysSpent DEF AccessInv
  <2>9. SpentIsGone' /\ HeldOnce'
    BY <1>1, <2>3, <2>8, MovesOn DEF AccessInv
  <2> QED
    BY <1>1, <2>5, <2>6, <2>7, <2>9 DEF AccessInv, AccessIsOnce, OneTimeIsOnce
<1> QED
  BY <1>2, <1>3 DEF Challenge

\* The pending challenge is gone or has an attempt less.
LEMMA PendingShrinks ==
  ASSUME AccessInv, UNCHANGED <<tokens, issued>>, pairing' \in SUBSET Prompt,
         \/ pairing' = {}
         \/ \E p \in pairing, q \in Prompt : pairing' = {q} /\ q.id = p.id
  PROVE  /\ Numbered'
         /\ \A kind \in OneTime, id \in Nat : Spent(kind, id) => Spent(kind, id)'
BY DEF AccessInv, Numbered, Spent

\* The prompt was shown, or failed and took back the challenge it was for.
LEMMA ShowKeeps ==
  ASSUME AccessInv, NEW b \in Browsers, NEW shown \in BOOLEAN, ShowPin(b, shown)
  PROVE  AccessInv'
<1>1. UNCHANGED <<tokens, sessions, lockout, via, issued>>
  BY DEF ShowPin
<1>2. /\ browser' \in [Browsers -> Browser] /\ browser'[b].at = "idle"
      /\ \A c \in Browsers : c # b => browser'[c] = browser[c]
  <2>1. browser[b] \in Browser
    BY DEF AccessInv, Typed
  <2> DEFINE n == IF shown THEN browser[b].for ELSE browser[b].challenge
             next == [browser[b] EXCEPT !.at = "idle", !.for = 0, !.challenge = n]
  <2>2. browser' = [browser EXCEPT ![b] = next]
    BY DEF ShowPin
  <2>3. n \in Nat
    BY <2>1 DEF Browser
  <2> HIDE DEF n
  <2>4. next \in Browser /\ next.at = "idle"
    BY <2>1, <2>3 DEF Browser
  <2> HIDE DEF next
  <2> QED
    BY <2>2, <2>4 DEF AccessInv, Typed
<1>3. \/ pairing' = {} /\ EndsChallenge("unshown")
      \/ UNCHANGED <<pairing, ended>>
  BY DEF ShowPin, Unshown
<1>4. ended' \in Seq(Endings) /\ ChallengeEndsByItself'
  <2>1. CASE EndsChallenge("unshown")
    BY <2>1, EndsWell DEF AccessInv, Endings
  <2>2. CASE UNCHANGED ended
    BY <2>2 DEF AccessInv, AccessIsOnce, Typed, ChallengeEndsByItself
  <2> QED
    BY <1>3, <2>1, <2>2
<1>5. Numbered' /\ \A kind \in OneTime, id \in Nat : Spent(kind, id) => Spent(kind, id)'
  BY <1>1, <1>3 DEF AccessInv, Numbered, Spent
<1>6. SpentIsGone' /\ HeldOnce'
  BY <1>1, <1>2, <1>5, MovesOn DEF AccessInv
<1>7. Typed'
  BY <1>1, <1>2, <1>3, <1>4 DEF AccessInv, Typed
<1> QED
  BY <1>1, <1>4, <1>5, <1>6, <1>7 DEF AccessInv, AccessIsOnce, OneTimeIsOnce

\* A PIN is entered: the right one takes the challenge, a wrong one costs an attempt.
LEMMA CompleteKeeps ==
  ASSUME AccessInv, NEW b \in Browsers, NEW right \in BOOLEAN, CompletePairing(b, right)
  PROVE  AccessInv'
<1>1. UNCHANGED <<tokens, sessions, via, issued>>
  BY DEF CompletePairing
<1>2. PICK p \in pairing :
        \/ pairing' = {} /\ (EndsChallenge("expired") \/ EndsChallenge("exhausted")) /\ UNCHANGED browser
        \/ pairing' = {} /\ EndsChallenge("completed") /\ Place(b, "challenge", p.id)
        \/ pairing' = {[p EXCEPT !.left = @ - 1]} /\ UNCHANGED <<browser, ended>>
  BY DEF CompletePairing
<1>3. p \in Prompt /\ p.id \in Nat /\ p.id = issued.challenges
  BY DEF AccessInv, Typed, Prompt, Numbered
<1>4. [p EXCEPT !.left = @ - 1] \in Prompt /\ [p EXCEPT !.left = @ - 1].id = p.id
  BY <1>3 DEF Prompt
<1>5. ended' \in Seq(Endings) /\ ChallengeEndsByItself'
  <2>1. CASE EndsChallenge("expired") \/ EndsChallenge("exhausted") \/ EndsChallenge("completed")
    BY <2>1, EndsWell DEF AccessInv, Endings
  <2>2. CASE UNCHANGED ended
    BY <2>2 DEF AccessInv, AccessIsOnce, Typed, ChallengeEndsByItself
  <2> QED
    BY <1>2, <2>1, <2>2
<1>6. pairing' \in SUBSET Prompt
  BY <1>2, <1>4
<1>7. Numbered' /\ \A kind \in OneTime, id \in Nat : Spent(kind, id) => Spent(kind, id)'
  BY <1>1, <1>2, <1>4, <1>6, PendingShrinks
<1>8. /\ browser' \in [Browsers -> Browser] /\ SpentIsGone' /\ HeldOnce'
  <2>1. CASE UNCHANGED browser
    <3>1. SpentIsGone'
      BY <1>1, <1>7, <2>1, SpentKept DEF AccessInv
    <3> QED
      BY <1>1, <2>1, <3>1 DEF AccessInv, Typed, HeldOnce
  <2>2. CASE pairing' = {} /\ Place(b, "challenge", p.id)
    <3>1. /\ browser' \in [Browsers -> Browser] /\ browser'[b].at = "challenge" /\ browser'[b].for = p.id
          /\ \A c \in Browsers : c # b => browser'[c] = browser[c]
      BY <1>3, <2>2, Placed DEF AccessInv
    <3>2. ~Spent("challenge", p.id)
      BY DEF Spent
    <3>3. Spent("challenge", p.id)'
      BY <1>1, <1>3, <2>2 DEF Spent
    <3> QED
      BY <1>1, <1>3, <1>7, <3>1, <3>2, <3>3, Takes DEF AccessInv
  <2> QED
    BY <1>2, <2>1, <2>2
<1>9. Typed'
  BY <1>1, <1>5, <1>6, <1>8 DEF AccessInv, Typed
<1> QED
  BY <1>1, <1>5, <1>7, <1>8, <1>9 DEF AccessInv, AccessIsOnce, OneTimeIsOnce

-----------------------------------------------------------------------------

\* Every step of the server and of the browsers keeps the invariant.
LEMMA AccessStep ==
  ASSUME PairingAttempts \in Nat
  PROVE  AccessInv /\ [BrowserNext]_bavars => AccessInv'
<1> SUFFICES ASSUME AccessInv, [BrowserNext]_bavars PROVE AccessInv'
  OBVIOUS
<1>1. CASE UNCHANGED bavars
  BY <1>1 DEF bavars, AccessInv, Typed, Numbered, SpentIsGone, Spent, HeldOnce, AccessIsOnce,
              OneTimeIsOnce, ChallengeEndsByItself
<1>2. ASSUME NEW dev \in BOOLEAN, IssueLaunchUrl(dev) PROVE AccessInv'
  BY <1>2, IssueKeeps
<1>3. ASSUME NEW b \in Browsers, NEW id \in 0 .. issued.tokens, NEW proven \in BOOLEAN,
             BootstrapWithToken(b, id, proven)
      PROVE  AccessInv'
  BY <1>3, TokenKeeps
<1>4. ASSUME NEW b \in Browsers, BootstrapWithSession(b) \/ StartPairing(b) PROVE AccessInv'
  BY <1>4, AskKeeps
<1>5. ASSUME NEW b \in Browsers, EstablishSession(b) \/ Challenge(b) PROVE AccessInv'
  BY <1>5, EstablishKeeps, ChallengeKeeps
<1>6. ASSUME NEW b \in Browsers, NEW yes \in BOOLEAN, ShowPin(b, yes) \/ CompletePairing(b, yes)
      PROVE  AccessInv'
  BY <1>6, ShowKeeps, CompleteKeeps
<1>7. CASE TokenExpires \/ PairingExpires \/ LockoutEnds
  BY <1>7, ExpireKeeps
<1> QED
  BY <1>1, <1>2, <1>3, <1>4, <1>5, <1>6, <1>7 DEF BrowserNext

\* Two requests that present one launch token, or answer one challenge, never both
\* get a session, and a challenge never ends because of another one's prompt
\* (browser_bootstrap, start_browser_pairing, complete_browser_pairing).
THEOREM OneTimeAccess ==
  ASSUME PairingAttempts \in Nat
  PROVE  BrowserSpec => []AccessIsOnce
<1>1. AccessInv => AccessIsOnce
  BY DEF AccessInv
<1> QED
  BY <1>1, AccessInitial, AccessStep, PTL DEF BrowserSpec

-----------------------------------------------------------------------------
(* The service probes.                                                      *)

Target == [id : Names, url : Urls]
Result == [url : Urls \cup {<<>>}, status : {"pending", "healthy", "error", "cancelled"}]

\* A list of monitors, each with an identifier of its own.
Monitors(s) ==
  /\ s \in Seq(Target)
  /\ \A i, j \in 1 .. Len(s) : s[i].id = s[j].id => i = j
IdsOf(s) == {s[i].id : i \in 1 .. Len(s)}

\* Results for exactly these monitors, each pending or of their URL.
Matching(services, results) ==
  /\ results \in [IdsOf(services) -> Result]
  /\ \A i \in 1 .. Len(services) :
       results[services[i].id].status = "pending" \/ results[services[i].id].url = services[i].url

Listed(services, id, url) == \E i \in 1 .. Len(services) : services[i] = Monitor(id, url)

\* The probe state: its lists agree, and its order names its monitors.
Coherent(c) ==
  /\ c = [interval |-> c.interval, order |-> c.order, revision |-> c.revision,
          results |-> c.results, services |-> c.services]
  /\ c.revision \in Nat
  /\ Monitors(c.services) /\ Matching(c.services, c.results)
  /\ c.order \in Orders(Len(c.services))

\* A request under way asks for a target of the list its revision names; that
\* list is the present one, or the revision has passed.
Current(c, revision, id, url) ==
  /\ revision \in Nat /\ revision <= c.revision /\ url \in Urls
  /\ revision = c.revision => Listed(c.services, id, url)

Request == [at : {"idle", "changed", "test"}, id : Names \cup {"none"},
            url : Urls \cup {<<>>}, revision : Nat, token : Nat]
Slot == [at : {"sleep", "request", "done", "none"}, id : Names, url : Urls]
Cycle == [at : {"select", "cycle", "wait", "ended"}, revision : Nat, token : Nat,
          probes : Seq(Slot)]

ProbeInv ==
  /\ Coherent(cfg) /\ Monitors(file.services) /\ token \in Nat
  /\ client \in [Clients -> Request] /\ loop \in Cycle
  /\ \A c \in Clients : client[c].at = "test" =>
       Current(cfg, client[c].revision, client[c].id, client[c].url)
  /\ loop.at = "cycle" =>
       \A i \in 1 .. Len(loop.probes) :
         Current(cfg, loop.revision, loop.probes[i].id, loop.probes[i].url)

\* The limit is a number, and the defaults and what was stored name each monitor once.
Sound == MaxMonitors \in Nat /\ Monitors(Defaults) /\ \A s \in Stored : Monitors(s)

-----------------------------------------------------------------------------
(* Lists of monitors.                                                       *)

\* The elements of a list, and its length.
LEMMA Elements ==
  ASSUME NEW s, Monitors(s)
  PROVE  /\ Len(s) \in Nat /\ DOMAIN s = 1 .. Len(s)
         /\ \A i \in 1 .. Len(s) : s[i] \in Target /\ s[i].id \in Names /\ s[i].url \in Urls
<1>1. s \in Seq(Target)
  BY DEF Monitors
<1>2. \A i \in 1 .. Len(s) : s[i] \in Target
  BY <1>1
<1> QED
  BY <1>1, <1>2, LenProperties DEF Target

\* find by identifier finds the one monitor that has it.
LEMMA OfIsThat ==
  ASSUME NEW s, Monitors(s), NEW i \in 1 .. Len(s)
  PROVE  Has(s, s[i].id) /\ Of(s, s[i].id) = s[i]
<1>1. \A k \in 1 .. Len(s) : s[k].id = s[i].id => k = i
  BY DEF Monitors
<1> DEFINE k == CHOOSE k \in Index(s) : s[k].id = s[i].id
<1>2. k \in 1 .. Len(s) /\ s[k].id = s[i].id
  BY DEF Index
<1> QED
  BY <1>1, <1>2 DEF Has, Of, Index

\* A monitor that is found has the identifier it was found by.
LEMMA OfFound ==
  ASSUME NEW s, NEW id, Has(s, id)
  PROVE  \E i \in 1 .. Len(s) : Of(s, id) = s[i] /\ s[i].id = id
BY DEF Has, Of, Index

\* The order of a list names its elements.
LEMMA OrderNames ==
  ASSUME NEW n \in Nat, NEW o \in Orders(n)
  PROVE  o \in Seq(1 .. n) /\ Len(o) = n /\ \A i \in 1 .. n : o[i] \in 1 .. n
<1>1. o \in [1 .. n -> 1 .. n]
  BY DEF Orders
<1>2. o \in Seq(1 .. n)
  BY <1>1, SeqDef
<1>3. DOMAIN o = 1 .. n /\ DOMAIN o = 1 .. Len(o) /\ Len(o) \in Nat
  BY <1>1, <1>2, LenProperties
<1> QED
  BY <1>1, <1>2, <1>3

\* Every result starts as pending.
LEMMA PendingMatches ==
  ASSUME NEW s, Monitors(s)
  PROVE  Matching(s, Pending(s))
<1>1. NoResult \in Result /\ NoResult.status = "pending"
  BY DEF NoResult, Result
<1> QED
  BY <1>1 DEF Matching, Pending, IdsOf, Index

\* retained_results keeps a result only for a monitor whose URL stayed.
LEMMA RetainedMatches ==
  ASSUME NEW before, NEW results, NEW after,
         Monitors(before), Matching(before, results), Monitors(after)
  PROVE  Matching(after, Retained(before, results, after))
<1>1. NoResult \in Result /\ NoResult.status = "pending"
  BY DEF NoResult, Result
<1> DEFINE new == Retained(before, results, after)
<1>2. ASSUME NEW i \in 1 .. Len(after)
      PROVE  /\ new[after[i].id] \in Result
             /\ new[after[i].id].status = "pending" \/ new[after[i].id].url = after[i].url
  <2> DEFINE id == after[i].id
  <2>1. Of(after, id) = after[i] /\ id \in IdsOf(after)
    BY OfIsThat DEF IdsOf
  <2>2. new[id] = IF Has(before, id) /\ Of(before, id).url = after[i].url
                  THEN results[id] ELSE NoResult
    BY <2>1 DEF Retained, IdsOf, Index
  <2>3. CASE Has(before, id) /\ Of(before, id).url = after[i].url
    <3>1. PICK k \in 1 .. Len(before) : Of(before, id) = before[k] /\ before[k].id = id
      BY <2>3, OfFound
    <3> HIDE DEF new, id
    <3> QED
      BY <2>2, <2>3, <3>1 DEF Matching, IdsOf, id
  <2>4. CASE ~(Has(before, id) /\ Of(before, id).url = after[i].url)
    <3>1. new[id] = NoResult
      BY <2>2, <2>4
    <3> QED
      BY <1>1, <3>1
  <2> QED
    BY <2>3, <2>4
<1>3. new = [id \in IdsOf(after) |-> new[id]]
  BY DEF Retained, IdsOf, Index
<1> HIDE DEF new
<1>4. \A id \in IdsOf(after) : new[id] \in Result
  BY <1>2 DEF IdsOf
<1>5. new \in [IdsOf(after) -> Result]
  BY <1>3, <1>4
<1> QED
  BY <1>2, <1>5 DEF Matching, new

\* A list with one monitor's URL changed.
LEMMA UpdatedMonitors ==
  ASSUME NEW s, Monitors(s), NEW id \in Names, NEW url \in Urls
  PROVE  Monitors([i \in Index(s) |-> IF s[i].id = id THEN Monitor(id, url) ELSE s[i]])
<1> DEFINE next == [i \in 1 .. Len(s) |-> IF s[i].id = id THEN Monitor(id, url) ELSE s[i]]
<1>1. Monitor(id, url) \in Target /\ Monitor(id, url).id = id
  BY DEF Monitor, Target
<1>2. \A i \in 1 .. Len(s) : (IF s[i].id = id THEN Monitor(id, url) ELSE s[i]) \in Target
  BY <1>1, Elements
<1>3. Len(s) \in Nat
  BY Elements
<1>4. next \in Seq(Target)
  BY <1>2, <1>3, IsASeq
<1>5. DOMAIN next = 1 .. Len(next) /\ Len(next) \in Nat
  BY <1>4, LenProperties
<1>6. Len(next) = Len(s)
  BY <1>3, <1>5
<1>7. \A i \in 1 .. Len(s) : next[i].id = s[i].id
  BY <1>1
<1> HIDE DEF next
<1>8. Monitors(next)
  BY <1>4, <1>6, <1>7 DEF Monitors
<1> QED
  BY <1>8 DEF next, Index

\* A list with a monitor of a new identifier.
LEMMA AddedMonitors ==
  ASSUME NEW s, Monitors(s), NEW id \in Names, NEW url \in Urls, ~Has(s, id)
  PROVE  Monitors(Append(s, Monitor(id, url)))
<1> DEFINE m == Monitor(id, url)
           next == Append(s, m)
<1>1. m \in Target /\ m.id = id
  BY DEF Monitor, Target
<1>2. s \in Seq(Target) /\ Len(s) \in Nat
  BY Elements DEF Monitors
<1> HIDE DEF m
<1>3. /\ next \in Seq(Target) /\ Len(next) = Len(s) + 1
      /\ \A i \in 1 .. Len(s) : next[i] = s[i]
      /\ next[Len(s) + 1] = m
  BY <1>1, <1>2, AppendProperties
<1>4. \A i \in 1 .. Len(s) : s[i].id # id
  BY DEF Has, Index
<1> HIDE DEF next
<1>5. ASSUME NEW i \in 1 .. Len(next), NEW j \in 1 .. Len(next), next[i].id = next[j].id
      PROVE  i = j
  <2>1. \A k \in 1 .. Len(next) : k \in 1 .. Len(s) \/ k = Len(s) + 1
    BY <1>2, <1>3
  <2> QED
    BY <1>1, <1>3, <1>4, <1>5, <2>1 DEF Monitors
<1> QED
  BY <1>3, <1>5 DEF Monitors, m, next

\* A list without one of its monitors, and the results of the others.
LEMMA RemovedMonitors ==
  ASSUME NEW s, Monitors(s), NEW results, Matching(s, results), NEW k \in 1 .. Len(s)
  PROVE  LET next == Without(s, k)
         IN  /\ Monitors(next)
             /\ Matching(next, [m \in {next[i].id : i \in Index(next)} |-> results[m]])
<1> DEFINE n == Len(s) - 1
           next == Without(s, k)
           kept == [m \in IdsOf(next) |-> results[m]]
<1>1. Len(s) \in Nat /\ n \in Nat
  BY Elements
<1>2. \A i \in 1 .. n : (IF i < k THEN i ELSE i + 1) \in 1 .. Len(s)
  BY <1>1
<1>3. \A i \in 1 .. n : s[IF i < k THEN i ELSE i + 1] \in Target
  BY <1>2, Elements
<1>4. next \in Seq(Target)
  BY <1>1, <1>3, IsASeq DEF Without
<1>5. DOMAIN next = 1 .. n /\ DOMAIN next = 1 .. Len(next) /\ Len(next) \in Nat
  BY <1>4, LenProperties DEF Without
<1>6. Len(next) = n
  BY <1>1, <1>5
<1>7. \A i \in 1 .. n : next[i] = s[IF i < k THEN i ELSE i + 1]
  BY DEF Without
<1> HIDE DEF next
<1>8. ASSUME NEW i \in 1 .. n, NEW j \in 1 .. n, next[i].id = next[j].id
      PROVE  i = j
  <2>1. (IF i < k THEN i ELSE i + 1) = (IF j < k THEN j ELSE j + 1)
    BY <1>2, <1>7, <1>8 DEF Monitors
  <2> QED
    BY <1>1, <2>1
<1>9. Monitors(next)
  BY <1>4, <1>6, <1>8 DEF Monitors
<1>10. ASSUME NEW i \in 1 .. n
       PROVE  /\ results[next[i].id] \in Result
              /\ results[next[i].id].status = "pending" \/ results[next[i].id].url = next[i].url
  <2>1. PICK j \in 1 .. Len(s) : next[i] = s[j]
    BY <1>2, <1>7
  <2> QED
    BY <2>1 DEF Matching, IdsOf
<1>11. \A m \in IdsOf(next) : results[m] \in Result
  BY <1>6, <1>10 DEF IdsOf
<1>12. kept \in [IdsOf(next) -> Result]
  BY <1>11
<1>13. \A i \in 1 .. n : kept[next[i].id] = results[next[i].id]
  BY <1>6 DEF IdsOf
<1>14. Matching(next, kept)
  <2> HIDE DEF kept
  <2> QED
    BY <1>6, <1>10, <1>12, <1>13 DEF Matching
<1> QED
  BY <1>9, <1>14 DEF IdsOf, Index, next

\* A list cut to the limit.
LEMMA CutMonitors ==
  ASSUME MaxMonitors \in Nat, NEW s, Monitors(s)
  PROVE  Monitors(Truncated(s))
<1> DEFINE n == IF Len(s) < MaxMonitors THEN Len(s) ELSE MaxMonitors
           next == SubSeq(s, 1, n)
<1>1. s \in Seq(Target) /\ Len(s) \in Nat /\ n \in Nat /\ n <= Len(s)
  BY Elements DEF Monitors
<1> HIDE DEF n
<1>2. next \in Seq(Target) /\ Len(next) = n /\ \A i \in 1 .. n : next[i] = s[i]
  BY <1>1
<1> HIDE DEF next
<1>3. Monitors(next)
  BY <1>1, <1>2 DEF Monitors
<1> QED
  BY <1>3 DEF Truncated, next, n

-----------------------------------------------------------------------------
(* The steps.                                                               *)

\* A state in which the lists agree and no request is under way.
LEMMA NothingAsked ==
  ASSUME Coherent(cfg)', Monitors(file.services)', token' = 0, loop' = NoCycle,
         client' = [c \in Clients |-> Idle]
  PROVE  ProbeInv'
<1>1. Idle \in Request /\ Idle.at = "idle"
  BY DEF Idle, Request
<1>2. NoCycle \in Cycle /\ NoCycle.at = "select"
  BY DEF NoCycle, Cycle
<1> QED
  BY <1>1, <1>2 DEF ProbeInv

\* from_parts over what the state file holds.
LEMMA OpenedIsCoherent ==
  ASSUME MaxMonitors \in Nat, NEW f, Monitors(f.services),
         NEW o \in Orders(Len(Truncated(f.services)))
  PROVE  Coherent(Opened(f, o))
<1>1. Monitors(Truncated(f.services))
  BY CutMonitors
<1>2. Matching(Truncated(f.services), Pending(Truncated(f.services)))
  BY <1>1, PendingMatches
<1> QED
  BY <1>1, <1>2 DEF Coherent, Opened

\* At the start the lists agree and no request is under way.
LEMMA ProbesStart ==
  ASSUME Sound
  PROVE  ProbesInit => ProbeInv
<1> SUFFICES ASSUME ProbesInit PROVE ProbeInv
  OBVIOUS
<1>1. Monitors(file.services)
  BY DEF ProbesInit, Sound
<1>2. Coherent(cfg)
  BY <1>1, OpenedIsCoherent DEF ProbesInit, Sound
<1>3. Idle \in Request /\ Idle.at = "idle"
  BY DEF Idle, Request
<1>4. NoCycle \in Cycle /\ NoCycle.at = "select"
  BY DEF NoCycle, Cycle
<1> QED
  BY <1>1, <1>2, <1>3, <1>4 DEF ProbesInit, ProbeInv

\* The process starts again from its file.
LEMMA RestartKeeps ==
  ASSUME Sound, ProbeInv, Restart
  PROVE  ProbeInv'
<1>1. PICK o \in Orders(Len(Truncated(file.services))) : cfg' = Opened(file, o)
  BY DEF Restart
<1>2. Coherent(cfg)'
  BY <1>1, OpenedIsCoherent DEF Sound, ProbeInv, Coherent
<1> QED
  BY <1>2, NothingAsked DEF Restart, ProbeInv

\* An installed edit moves the revision on, so that no earlier request is current.
LEMMA InstallKeeps ==
  ASSUME ProbeInv, NEW c \in Clients, NEW services, NEW interval, NEW results,
         Monitors(services), Matching(services, results),
         Install(c, services, interval, results)
  PROVE  ProbeInv'
<1>1. PICK o \in Orders(Len(services)) :
        cfg' = [interval |-> interval, order |-> o, revision |-> cfg.revision + 1,
                results |-> results, services |-> services]
  BY DEF Install
<1>2. cfg.revision \in Nat /\ cfg'.revision = cfg.revision + 1
  BY <1>1 DEF ProbeInv, Coherent
<1>3. Coherent(cfg')
  BY <1>1, <1>2 DEF Coherent
<1>4. /\ token' = token /\ loop' = loop /\ Monitors(file.services)'
      /\ client' = [client EXCEPT ![c].at = "changed"]
  BY DEF Install
<1>5. ASSUME NEW revision, NEW id, NEW url, Current(cfg, revision, id, url)
      PROVE  Current(cfg', revision, id, url)
  BY <1>2, <1>5 DEF Current
<1>6. client[c] \in Request /\ [client[c] EXCEPT !.at = "changed"] \in Request
  BY DEF ProbeInv, Request
<1>7. /\ client' \in [Clients -> Request] /\ client'[c].at = "changed"
      /\ \A d \in Clients : d # c => client'[d] = client[d]
  BY <1>4, <1>6 DEF ProbeInv, Request
<1>8. \A d \in Clients : client'[d].at = "test" =>
        Current(cfg', client'[d].revision, client'[d].id, client'[d].url)
  BY <1>5, <1>7 DEF ProbeInv
<1>9. loop'.at = "cycle" => \A i \in 1 .. Len(loop'.probes) :
        Current(cfg', loop'.revision, loop'.probes[i].id, loop'.probes[i].url)
  BY <1>4, <1>5 DEF ProbeInv
<1> QED
  BY <1>3, <1>4, <1>7, <1>8, <1>9 DEF ProbeInv, Coherent

\* An answer is stored for the target that was asked, or not at all.
LEMMA StoreKeeps ==
  ASSUME ProbeInv, NEW revision, NEW id, NEW url, Current(cfg, revision, id, url),
         NEW status \in {"healthy", "error", "cancelled"}, Store(revision, id, url, status)
  PROVE  Coherent(cfg') /\ cfg'.services = cfg.services /\ cfg'.revision = cfg.revision
<1>1. CASE cfg' = cfg
  BY <1>1 DEF ProbeInv
<1>2. CASE /\ cfg.revision = revision /\ id \in DOMAIN cfg.results
           /\ cfg' = [cfg EXCEPT !.results[id] = [url |-> url, status |-> status]]
  <2> DEFINE v == [url |-> url, status |-> status]
             new == [cfg.results EXCEPT ![id] = v]
  <2>1. /\ v \in Result /\ v.url = url
    BY DEF Result, Current
  <2> HIDE DEF v
  <2>2. /\ Coherent(cfg) /\ cfg.results \in [IdsOf(cfg.services) -> Result]
    BY DEF ProbeInv, Coherent, Matching
  <2>3. /\ cfg' = [interval |-> cfg.interval, order |-> cfg.order, revision |-> cfg.revision,
                   results |-> new, services |-> cfg.services]
    BY <1>2, <2>2 DEF Coherent, v
  <2>4. /\ new \in [IdsOf(cfg.services) -> Result] /\ new[id] = v
        /\ \A k \in IdsOf(cfg.services) : k # id => new[k] = cfg.results[k]
    BY <1>2, <2>1, <2>2
  <2>5. PICK k \in 1 .. Len(cfg.services) : cfg.services[k] = Monitor(id, url)
    BY <1>2 DEF Current, Listed
  <2>6. cfg.services[k].id = id /\ cfg.services[k].url = url
    BY <2>5 DEF Monitor
  <2> HIDE DEF new
  <2>7. ASSUME NEW i \in 1 .. Len(cfg.services)
        PROVE  LET m == cfg.services[i] IN new[m.id].status = "pending" \/ new[m.id].url = m.url
    <3>1. CASE cfg.services[i].id = id
      <4>1. i = k
        BY <2>2, <2>6, <3>1 DEF Coherent, Monitors
      <4> QED
        BY <2>1, <2>4, <2>6, <4>1
    <3>2. CASE cfg.services[i].id # id
      <4>1. new[cfg.services[i].id] = cfg.results[cfg.services[i].id]
        BY <2>4, <3>2 DEF IdsOf
      <4> QED
        BY <2>2, <4>1 DEF Coherent, Matching
    <3> QED
      BY <3>1, <3>2
  <2>8. Matching(cfg.services, new)
    BY <2>4, <2>7 DEF Matching
  <2> QED
    BY <2>2, <2>3, <2>8 DEF Coherent
<1> QED
  BY <1>1, <1>2 DEF Store

\* With the same monitors and the same revision, what is asked stays asked.
LEMMA StillCurrent ==
  ASSUME cfg'.services = cfg.services, cfg'.revision = cfg.revision,
         NEW revision, NEW id, NEW url, Current(cfg, revision, id, url)
  PROVE  Current(cfg', revision, id, url)
BY DEF Current, Listed

\* A step after which every request was asked before, on the same monitors.
LEMMA AskedBefore ==
  ASSUME ProbeInv, Coherent(cfg'), cfg'.services = cfg.services, cfg'.revision = cfg.revision,
         file' = file, token' \in Nat, client' \in [Clients -> Request], loop' \in Cycle,
         \A c \in Clients : client'[c].at = "test" => client'[c] = client[c],
         loop'.at = "cycle" =>
           /\ loop.at = "cycle" /\ loop'.revision = loop.revision
           /\ Len(loop'.probes) = Len(loop.probes)
           /\ \A i \in 1 .. Len(loop.probes) :
                loop'.probes[i].id = loop.probes[i].id /\ loop'.probes[i].url = loop.probes[i].url
  PROVE  ProbeInv'
<1>1. \A c \in Clients : client'[c].at = "test" =>
        Current(cfg', client'[c].revision, client'[c].id, client'[c].url)
  BY StillCurrent DEF ProbeInv
<1>2. loop'.at = "cycle" => \A i \in 1 .. Len(loop'.probes) :
        Current(cfg', loop'.revision, loop'.probes[i].id, loop'.probes[i].url)
  BY StillCurrent DEF ProbeInv
<1> QED
  BY <1>1, <1>2 DEF ProbeInv, Coherent

\* A request of a client ends, or its edit's changed().
LEMMA BackToIdle ==
  ASSUME ProbeInv, NEW c \in Clients, client' = [client EXCEPT ![c] = Idle]
  PROVE  /\ client' \in [Clients -> Request]
         /\ \A d \in Clients : client'[d].at = "test" => client'[d] = client[d]
<1>1. Idle \in Request /\ Idle.at = "idle"
  BY DEF Idle, Request
<1> QED
  BY <1>1 DEF ProbeInv

\* A probe of the cycle moves on; the cycle may end with it.
LEMMA ProbeMoves ==
  ASSUME ProbeInv, loop.at = "cycle", NEW i \in DOMAIN loop.probes,
         NEW at \in {"sleep", "request", "done", "none"}, NEW phase \in {"cycle", "wait"},
         loop' = [loop EXCEPT !.at = phase, !.probes[i].at = at]
  PROVE  /\ loop' \in Cycle /\ loop'.revision = loop.revision
         /\ Len(loop'.probes) = Len(loop.probes)
         /\ \A j \in 1 .. Len(loop.probes) :
              loop'.probes[j].id = loop.probes[j].id /\ loop'.probes[j].url = loop.probes[j].url
<1> DEFINE s == loop.probes
           slot == [s[i] EXCEPT !.at = at]
           new == [s EXCEPT ![i] = slot]
<1>1. loop \in Cycle /\ s \in Seq(Slot) /\ DOMAIN s = 1 .. Len(s)
  <2>1. loop \in Cycle /\ s \in Seq(Slot)
    BY DEF ProbeInv, Cycle
  <2> QED
    BY <2>1, LenProperties
<1>2. s[i] \in Slot
  BY <1>1, ElementOfSeq
<1>3. slot \in Slot /\ slot.id = s[i].id /\ slot.url = s[i].url
  BY <1>2 DEF Slot
<1>4. loop' = [loop EXCEPT !.at = phase, !.probes = new]
  BY <1>1 DEF Cycle
<1> HIDE DEF slot
<1>5. /\ new \in Seq(Slot) /\ Len(new) = Len(s)
      /\ \A j \in 1 .. Len(s) : new[j] = IF j = i THEN slot ELSE s[j]
  BY <1>1, <1>3, ExceptSeq
<1>6. \A j \in 1 .. Len(s) : new[j].id = s[j].id /\ new[j].url = s[j].url
  BY <1>3, <1>5
<1> HIDE DEF new
<1>7. loop' \in Cycle /\ loop'.revision = loop.revision /\ loop'.probes = new
  BY <1>1, <1>4, <1>5 DEF Cycle
<1> QED
  BY <1>5, <1>6, <1>7

\* An edit is installed with a list that names each monitor once and the results
\* that still belong to it.
LEMMA EditKeeps ==
  ASSUME Sound, ProbeInv, NEW c \in Clients
  PROVE  /\ \A id \in Names, url \in Urls : Update(c, id, url) \/ Add(c, id, url) => ProbeInv'
         /\ \A id \in Names : Remove(c, id) => ProbeInv'
         /\ RestoreDefaults(c) => ProbeInv'
         /\ \A interval : SetInterval(c, interval) => ProbeInv'
<1>1. Monitors(cfg.services) /\ Matching(cfg.services, cfg.results)
  BY DEF ProbeInv, Coherent
<1>2. ASSUME NEW id \in Names, NEW url \in Urls, Update(c, id, url) PROVE ProbeInv'
  <2> DEFINE next == [i \in Index(cfg.services) |->
                        IF cfg.services[i].id = id THEN Monitor(id, url) ELSE cfg.services[i]]
  <2>1. Monitors(next)
    BY <1>1, UpdatedMonitors
  <2>2. Install(c, next, cfg.interval, Retained(cfg.services, cfg.results, next))
    BY <1>2 DEF Update
  <2> HIDE DEF next
  <2>3. Matching(next, Retained(cfg.services, cfg.results, next))
    BY <1>1, <2>1, RetainedMatches
  <2> QED
    BY <2>1, <2>2, <2>3, InstallKeeps
<1>3. ASSUME NEW id \in Names, NEW url \in Urls, Add(c, id, url) PROVE ProbeInv'
  <2> DEFINE next == Append(cfg.services, Monitor(id, url))
  <2>1. Monitors(next)
    BY <1>1, <1>3, AddedMonitors DEF Add
  <2>2. Install(c, next, cfg.interval, Retained(cfg.services, cfg.results, next))
    BY <1>3 DEF Add
  <2> HIDE DEF next
  <2>3. Matching(next, Retained(cfg.services, cfg.results, next))
    BY <1>1, <2>1, RetainedMatches
  <2> QED
    BY <2>1, <2>2, <2>3, InstallKeeps
<1>4. ASSUME NEW id \in Names, Remove(c, id) PROVE ProbeInv'
  <2>1. PICK k \in 1 .. Len(cfg.services) :
          LET next == Without(cfg.services, k)
          IN  Install(c, next, cfg.interval, [m \in {next[i].id : i \in Index(next)} |-> cfg.results[m]])
    BY <1>4 DEF Remove, Index
  <2> DEFINE next == Without(cfg.services, k)
             kept == [m \in {next[i].id : i \in Index(next)} |-> cfg.results[m]]
  <2>2. Monitors(next) /\ Matching(next, kept)
    BY <1>1, RemovedMonitors
  <2>3. Install(c, next, cfg.interval, kept)
    BY <2>1
  <2> HIDE DEF next, kept
  <2> QED
    BY <2>2, <2>3, InstallKeeps
<1>5. ASSUME RestoreDefaults(c) PROVE ProbeInv'
  BY <1>1, <1>5, InstallKeeps, RetainedMatches DEF Sound, RestoreDefaults
<1>6. ASSUME NEW interval, SetInterval(c, interval) PROVE ProbeInv'
  BY <1>1, <1>6, InstallKeeps DEF SetInterval
<1> QED
  BY <1>2, <1>3, <1>4, <1>5, <1>6

\* test asks for the URL the monitor has under the revision it notes.
LEMMA TestBeginsKeeps ==
  ASSUME ProbeInv, NEW c \in Clients, NEW id \in Names, TestBegins(c, id)
  PROVE  ProbeInv'
<1> DEFINE url == Of(cfg.services, id).url
           ask == [at |-> "test", id |-> id, url |-> url, revision |-> cfg.revision, token |-> token]
<1>1. PICK i \in 1 .. Len(cfg.services) : Of(cfg.services, id) = cfg.services[i] /\ cfg.services[i].id = id
  BY OfFound DEF TestBegins
<1>2. Monitors(cfg.services) /\ cfg.revision \in Nat /\ token \in Nat
  BY DEF ProbeInv, Coherent
<1>3. cfg.services[i] \in Target /\ url \in Urls /\ cfg.services[i] = Monitor(id, url)
  BY <1>1, <1>2, Elements DEF Target, Monitor
<1>4. Current(cfg, cfg.revision, id, url)
  BY <1>2, <1>3 DEF Current, Listed
<1>5. /\ client' = [client EXCEPT ![c] = ask]
      /\ UNCHANGED <<cfg, file, token, loop>>
  BY DEF TestBegins
<1> HIDE DEF url
<1>6. /\ ask \in Request /\ ask.id = id /\ ask.url = url /\ ask.revision = cfg.revision
  BY <1>2, <1>3 DEF Request
<1> HIDE DEF ask
<1>7. /\ client' \in [Clients -> Request] /\ client'[c] = ask
      /\ \A d \in Clients : d # c => client'[d] = client[d]
  BY <1>5, <1>6 DEF ProbeInv
<1>8. \A d \in Clients : client'[d].at = "test" =>
        Current(cfg, client'[d].revision, client'[d].id, client'[d].url)
  BY <1>4, <1>6, <1>7 DEF ProbeInv
<1> QED
  BY <1>5, <1>7, <1>8 DEF ProbeInv, Coherent

\* The answer of an immediate test.
LEMMA TestEndsKeeps ==
  ASSUME ProbeInv, NEW c \in Clients, NEW status \in {"healthy", "error", "cancelled"},
         TestEnds(c, status)
  PROVE  ProbeInv'
<1>1. client' = [client EXCEPT ![c] = Idle] /\ UNCHANGED <<file, token, loop>>
  BY DEF TestEnds
<1>2. Coherent(cfg') /\ cfg'.services = cfg.services /\ cfg'.revision = cfg.revision
  <2>1. Current(cfg, client[c].revision, client[c].id, client[c].url)
    BY DEF TestEnds, ProbeInv
  <2>2. CASE UNCHANGED cfg
    BY <2>2 DEF ProbeInv
  <2>3. CASE Store(client[c].revision, client[c].id, client[c].url, status)
    BY <2>1, <2>3, StoreKeeps
  <2> QED
    BY <2>2, <2>3 DEF TestEnds
<1> QED
  BY <1>1, <1>2, AskedBefore, BackToIdle DEF ProbeInv

\* A cycle asks for the whole list under the revision it notes.
LEMMA SelectKeeps ==
  ASSUME ProbeInv, Select
  PROVE  ProbeInv'
<1>1. UNCHANGED <<cfg, file, token, client>>
  BY DEF Select
<1>2. CASE UNCHANGED loop
  BY <1>1, <1>2, AskedBefore DEF ProbeInv
<1>3. CASE BeginCycle
  <2> DEFINE n == Len(cfg.services)
             target(i) == cfg.services[cfg.order[i]]
             slots == [i \in 1 .. n |-> [at |-> "sleep", id |-> target(i).id, url |-> target(i).url]]
  <2>1. n \in Nat /\ cfg.order \in Orders(n) /\ Monitors(cfg.services) /\ cfg.revision \in Nat
    BY Elements DEF ProbeInv, Coherent
  <2>2. Len(cfg.order) = n /\ \A i \in 1 .. n : cfg.order[i] \in 1 .. n
    BY <2>1, OrderNames
  <2>3. \A i \in 1 .. n : target(i) \in Target
    BY <2>1, <2>2, Elements
  <2>4. \A i \in 1 .. n : target(i).id \in Names /\ target(i).url \in Urls
                          /\ target(i) = Monitor(target(i).id, target(i).url)
    BY <2>3 DEF Target, Monitor
  <2>5. \A i \in 1 .. n : Current(cfg, cfg.revision, target(i).id, target(i).url)
    BY <2>1, <2>2, <2>4 DEF Current, Listed
  <2>6. \A i \in 1 .. n : [at |-> "sleep", id |-> target(i).id, url |-> target(i).url] \in Slot
    BY <2>4 DEF Slot
  <2>7. slots \in Seq(Slot)
    BY <2>1, <2>6, IsASeq
  <2>8. DOMAIN slots = 1 .. n /\ DOMAIN slots = 1 .. Len(slots) /\ Len(slots) \in Nat
    BY <2>7, LenProperties
  <2>9. Len(slots) = n
    BY <2>1, <2>8
  <2>10. loop' = [at |-> "cycle", revision |-> cfg.revision, token |-> token, probes |-> slots]
    BY <1>3, <2>2 DEF BeginCycle, Index
  <2>11. \A i \in 1 .. n : slots[i].id = target(i).id /\ slots[i].url = target(i).url
    OBVIOUS
  <2> HIDE DEF slots, target, n
  <2>12. loop' \in Cycle /\ loop'.revision = cfg.revision /\ loop'.probes = slots
    BY <2>1, <2>7, <2>10 DEF Cycle, ProbeInv
  <2>13. \A i \in 1 .. Len(loop'.probes) :
           Current(cfg, loop'.revision, loop'.probes[i].id, loop'.probes[i].url)
    BY <2>5, <2>9, <2>11, <2>12
  <2> QED
    BY <1>1, <2>12, <2>13 DEF ProbeInv, Coherent
<1> QED
  BY <1>2, <1>3 DEF Select

\* A probe of the cycle starts, answers or ends the cycle.
LEMMA ProbeKeeps ==
  ASSUME ProbeInv, NEW i
  PROVE  /\ ProbeStarts(i) => ProbeInv'
         /\ \A status \in {"healthy", "error", "cancelled"} : ProbeEnds(i, status) => ProbeInv'
<1>1. loop \in Cycle
  BY DEF ProbeInv
<1>2. ASSUME loop.at = "cycle"
      PROVE  /\ Skips(i) = [loop EXCEPT !.at = "wait", !.probes[i].at = "none"]
             /\ Ends(i) = [loop EXCEPT !.at = "cycle", !.probes[i].at = "done"]
             /\ [loop EXCEPT !.probes[i].at = "request"]
                  = [loop EXCEPT !.at = "cycle", !.probes[i].at = "request"]
  BY <1>1, <1>2 DEF Skips, Ends, Cycle
<1>3. ASSUME ProbeStarts(i) PROVE ProbeInv'
  <2>1. loop.at = "cycle" /\ i \in DOMAIN loop.probes /\ UNCHANGED <<cfg, file, token, client>>
    BY <1>3 DEF ProbeStarts
  <2>2. CASE loop' = Skips(i)
    BY <1>2, <2>1, <2>2, ProbeMoves, AskedBefore DEF ProbeInv
  <2>3. CASE loop' = [loop EXCEPT !.probes[i].at = "request"]
    BY <1>2, <2>1, <2>3, ProbeMoves, AskedBefore DEF ProbeInv
  <2> QED
    BY <1>3, <2>2, <2>3 DEF ProbeStarts
<1>4. ASSUME NEW status \in {"healthy", "error", "cancelled"}, ProbeEnds(i, status)
      PROVE  ProbeInv'
  <2>1. loop.at = "cycle" /\ i \in DOMAIN loop.probes /\ UNCHANGED <<file, token, client>>
    BY <1>4 DEF ProbeEnds
  <2>2. i \in 1 .. Len(loop.probes)
    <3>1. loop.probes \in Seq(Slot)
      BY <1>1 DEF Cycle
    <3> QED
      BY <2>1, <3>1, LenProperties
  <2>3. Coherent(cfg') /\ cfg'.services = cfg.services /\ cfg'.revision = cfg.revision
    <3>1. Current(cfg, loop.revision, loop.probes[i].id, loop.probes[i].url)
      BY <2>1, <2>2 DEF ProbeInv
    <3>2. CASE UNCHANGED cfg
      BY <3>2 DEF ProbeInv
    <3>3. CASE Store(loop.revision, loop.probes[i].id, loop.probes[i].url, status)
      BY <3>1, <3>3, StoreKeeps
    <3> QED
      BY <1>4, <3>2, <3>3 DEF ProbeEnds, Probe
  <2>4. CASE loop' = Skips(i)
    BY <1>2, <2>1, <2>3, <2>4, ProbeMoves, AskedBefore DEF ProbeInv
  <2>5. CASE loop' = Ends(i)
    BY <1>2, <2>1, <2>3, <2>5, ProbeMoves, AskedBefore DEF ProbeInv
  <2> QED
    BY <1>4, <2>4, <2>5 DEF ProbeEnds
<1> QED
  BY <1>3, <1>4

\* The other steps ask for nothing and edit nothing.
LEMMA OthersKeep ==
  ASSUME ProbeInv,
         \/ UNCHANGED bvars \/ CoreStarts \/ Drained \/ CycleEnds \/ Shutdown
         \/ \E c \in Clients : SaveFails(c) \/ Changed(c)
         \/ \E h \in Hosts : BackoffEnds(h)
  PROVE  ProbeInv'
<1>1. CASE UNCHANGED <<cfg, file, token, client, loop>>
  BY <1>1, AskedBefore DEF ProbeInv
<1>2. CASE Drained
  <2>1. loop' \in Cycle /\ loop'.at = "wait"
    BY <1>2 DEF Drained, ProbeInv, Cycle
  <2> QED
    BY <1>2, <2>1, AskedBefore DEF Drained, ProbeInv
<1>3. CASE CycleEnds \/ Shutdown
  <2>1. NoCycle \in Cycle /\ NoCycle.at = "select"
    BY DEF NoCycle, Cycle
  <2>2. [NoCycle EXCEPT !.at = "ended"] \in Cycle /\ [NoCycle EXCEPT !.at = "ended"].at = "ended"
    BY <2>1 DEF Cycle
  <2> QED
    BY <1>3, <2>1, <2>2, AskedBefore DEF CycleEnds, Shutdown, ProbeInv
<1>4. ASSUME NEW c \in Clients, Changed(c) PROVE ProbeInv'
  <2>1. token' \in Nat
    BY <1>4 DEF Changed, ProbeInv
  <2> QED
    BY <1>4, <2>1, BackToIdle, AskedBefore DEF Changed, ProbeInv
<1> QED
  BY <1>1, <1>2, <1>3, <1>4 DEF bvars, CoreStarts, SaveFails, BackoffEnds

\* Every step keeps the invariant.
LEMMA ProbesStep ==
  ASSUME Sound
  PROVE  ProbeInv /\ [ProbesNext]_bvars => ProbeInv'
<1> SUFFICES ASSUME ProbeInv, [ProbesNext]_bvars PROVE ProbeInv'
  OBVIOUS
<1>1. ASSUME NEW c \in Clients, NEW id \in Names, NEW u \in Urls, Update(c, id, u) \/ Add(c, id, u)
      PROVE  ProbeInv'
  BY <1>1, EditKeeps
<1>2. ASSUME NEW c \in Clients, NEW id \in Names, Remove(c, id) \/ TestBegins(c, id)
      PROVE  ProbeInv'
  BY <1>2, EditKeeps, TestBeginsKeeps
<1>3. ASSUME NEW c \in Clients, NEW i \in {OffInterval, OnInterval}, RestoreDefaults(c) \/ SetInterval(c, i)
      PROVE  ProbeInv'
  BY <1>3, EditKeeps
<1>4. ASSUME NEW c \in Clients, NEW s \in {"healthy", "error", "cancelled"}, TestEnds(c, s)
      PROVE  ProbeInv'
  BY <1>4, TestEndsKeeps
<1>5. ASSUME NEW i, ProbeStarts(i) \/ \E s \in {"healthy", "error", "cancelled"} : ProbeEnds(i, s)
      PROVE  ProbeInv'
  BY <1>5, ProbeKeeps
<1>6. CASE Select \/ Restart
  BY <1>6, SelectKeeps, RestartKeeps
<1> QED
  BY <1>1, <1>2, <1>3, <1>4, <1>5, <1>6, OthersKeep DEF ProbesNext

\* However edits, immediate tests, the cycle, their late answers, a shutdown and a
\* restart interleave, a result is shown only for the URL it was observed at
\* (upsert, remove, restore_defaults, test, run_cycle, retained_results), when the
\* defaults and the stored lists name every monitor once.
THEOREM ResultsMatch ==
  ASSUME Sound
  PROVE  ProbesSpec => []ResultMatchesTarget
<1>1. ProbesInit => ProbeInv
  BY ProbesStart
<1>2. ProbeInv /\ [ProbesNext]_bvars => ProbeInv'
  BY ProbesStep
<1>3. ProbeInv => ResultMatchesTarget
  BY DEF ProbeInv, Coherent, Matching, ResultMatchesTarget, Index
<1> QED
  BY <1>1, <1>2, <1>3, PTL DEF ProbesSpec
=============================================================================
