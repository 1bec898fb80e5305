----------------------------- MODULE SessionTokens -----------------------------
(***************************************************************************)
(* How a page keeps a valid access token: the session cookie and the jwt    *)
(* callback of auth.ts, the in-memory token of access-token-store.ts and    *)
(* session-token.ts, the interceptors of client.ts, the session poll of     *)
(* AuthSessionProvider.tsx, the check in proxy.ts, and the verifier behind  *)
(* HttpAuthGuard with its cached key set.                                   *)
(*                                                                         *)
(* The identity provider is external: refreshing with its current refresh   *)
(* token returns the next pair and revokes the old one.  Pair n is the      *)
(* access token n with the refresh token n.                                 *)
(***************************************************************************)
EXTENDS Naturals, FiniteSets

CONSTANTS
    Tabs,         \* the open pages of one browser; they share the cookie
    MaxPairs,     \* bound on the pairs the provider issues
    MaxCalls,     \* bound on the calls of the API
    MaxFaults     \* bound on lost answers and failed requests

ASSUME TokenAssumption ==
    Tabs # {} /\ MaxPairs \in Nat \ {0} /\ MaxCalls \in Nat /\ MaxFaults \in Nat

Pairs == 1..MaxPairs
NoToken == 0

VARIABLES
    idp,       \* [current, near, expired]: the live pair, and the last pairs near expiry / expired
    jar,       \* the cookie: [pair, error]
    asked,     \* session requests in flight, per tab and reader
    refresh,   \* per pair, the refresh in flight: "none", "sent", "rotated", "refused"
    rotated,   \* per pair, the outcome kept for 60 s: "none", "ok", "permanent"
    memory,    \* per tab, the token in memory
    call,      \* per tab, the API call in progress
    left,      \* tabs that went to the sign-in page
    keys,      \* the verifier's key set: "none", "pending", "ready", "cooling"
    mishap,    \* what befell the cookie: a refresh answer lost, a newer cookie overwritten
    calls, faults

tokenVars == <<idp, jar, asked, refresh, rotated, memory, call, left, keys, mishap, calls, faults>>

\* fetchSessionAccessToken shares one request per tab; the provider's poll has its own.
Readers == {"call", "poll"}
NotAsked == [state |-> "none", pair |-> NoToken, error |-> FALSE]
NoRequest == [state |-> "idle", token |-> NoToken, retried |-> FALSE]

TokenInit ==
    /\ idp = [current |-> 1, near |-> 0, expired |-> 0]
    /\ jar = [pair |-> 1, error |-> FALSE]
    /\ asked = [t \in Tabs |-> [r \in Readers |-> NotAsked]]
    /\ refresh = [n \in Pairs |-> "none"] /\ rotated = [n \in Pairs |-> "none"]
    /\ memory = [t \in Tabs |-> NoToken]
    /\ call = [t \in Tabs |-> NoRequest]
    /\ left = {} /\ keys = "none"
    /\ mishap = {} /\ calls = 0 /\ faults = 0

Fault == faults < MaxFaults /\ faults' = faults + 1

(***************************************************************************)
(* Time.  A pair comes within the refresh buffer (90 s), then expires; an   *)
(* outcome is forgotten after its minute, by when every request sent with   *)
(* the old cookie has been answered and the answer has arrived.             *)
(***************************************************************************)
NearsExpiry ==
    /\ idp.near < idp.current /\ idp.current < MaxPairs
    /\ idp' = [idp EXCEPT !.near = idp.current]
    /\ UNCHANGED <<jar, asked, refresh, rotated, memory, call, left, keys, mishap, calls, faults>>

Expires ==
    /\ idp.expired < idp.near
    /\ idp' = [idp EXCEPT !.expired = idp.near]
    /\ UNCHANGED <<jar, asked, refresh, rotated, memory, call, left, keys, mishap, calls, faults>>

pruneRotatedRefreshResults(n) ==
    /\ rotated[n] # "none"
    /\ \A t \in Tabs \ left, r \in Readers : LET a == asked[t][r] IN
         a.state # "none" => a.pair # n /\ ~(a.state = "answered" /\ a.pair = n + 1)
    /\ rotated' = [rotated EXCEPT ![n] = "none"]
    /\ UNCHANGED <<idp, jar, asked, refresh, memory, call, left, keys, mishap, calls, faults>>

(***************************************************************************)
(* A session read runs the jwt callback on the cookie it carries.           *)
(***************************************************************************)
Ask(t, r) == asked' = [asked EXCEPT ![t][r] = [state |-> "sent", pair |-> jar.pair, error |-> jar.error]]

\* A mutant of Known: the outcome of a finished rotation is not kept.
KnownInFlight(n) == refresh[n] # "none"

\* refreshWithDedupe finds the outcome of the pair's refresh, or one in flight.
Known(n) == rotated[n] # "none" \/ refresh[n] # "none"

shouldRefreshAccessToken(n) == n <= idp.near

\* The callback, up to the answer or the wait for the provider.
JwtCallback(t, r) ==
    /\ asked[t][r].state = "sent"
    /\ LET n == asked[t][r].pair
           wait == ~asked[t][r].error /\ shouldRefreshAccessToken(n)
       IN /\ asked' = [asked EXCEPT ![t][r].state = IF wait THEN "waiting" ELSE "answered"]
          /\ refresh' = IF wait /\ ~Known(n) THEN [refresh EXCEPT ![n] = "sent"] ELSE refresh
    /\ UNCHANGED <<idp, jar, rotated, memory, call, left, keys, mishap, calls, faults>>

\* The provider rotates its current refresh token and refuses every other.
ProviderRotates(n) ==
    /\ refresh[n] = "sent"
    /\ IF n = idp.current /\ n < MaxPairs
       THEN /\ idp' = [idp EXCEPT !.current = n + 1]
            /\ refresh' = [refresh EXCEPT ![n] = "rotated"]
       ELSE /\ refresh' = [refresh EXCEPT ![n] = "refused"]
            /\ UNCHANGED idp
    /\ UNCHANGED <<jar, asked, rotated, memory, call, left, keys, mishap, calls, faults>>

\* The session reads that wait for the refresh of pair n get its outcome.
Resolved(n, outcome) ==
    [t \in Tabs |-> [r \in Readers |->
       LET a == asked[t][r] IN
         IF a.state = "waiting" /\ a.pair = n
         THEN [state |-> "answered",
               pair |-> IF outcome = "ok" THEN n + 1 ELSE n,
               error |-> outcome = "permanent"]
         ELSE a]]

\* The refresh ends: a rotation and a refusal are kept for later requests, a failure is not.
RefreshEnds(n) ==
    /\ refresh[n] \in {"rotated", "refused"}
    /\ LET outcome == IF refresh[n] = "rotated" THEN "ok" ELSE "permanent"
       IN rotated' = [rotated EXCEPT ![n] = outcome] /\ asked' = Resolved(n, outcome)
    /\ refresh' = [refresh EXCEPT ![n] = "none"]
    /\ UNCHANGED <<idp, jar, memory, call, left, keys, mishap, calls, faults>>

\* A read that found a kept outcome takes it.
TakeRotated(t, r) ==
    /\ asked[t][r].state = "waiting" /\ refresh[asked[t][r].pair] = "none"
    /\ LET n == asked[t][r].pair
       IN /\ rotated[n] # "none"
          /\ asked' = Resolved(n, rotated[n])
    /\ UNCHANGED <<idp, jar, refresh, rotated, memory, call, left, keys, mishap, calls, faults>>

\* The provider is down, or its answer does not come within 10 s: the cookie stays as it is.
RefreshTimesOut(n) ==
    /\ Fault /\ refresh[n] # "none"
    /\ mishap' = IF refresh[n] = "rotated" THEN mishap \cup {"lost"} ELSE mishap
    /\ refresh' = [refresh EXCEPT ![n] = "none"]
    /\ asked' = Resolved(n, "transient")
    /\ UNCHANGED <<idp, jar, rotated, memory, call, left, keys, calls>>

(***************************************************************************)
(* The answer of a session read sets the cookie and the token in memory.    *)
(***************************************************************************)
Leave(t) == left' = left \cup {t}

\* Another read of the tab, whose answer may carry a new pair, is given up when the page is left.
GivenUp(t, r) == \E other \in Readers \ {r} : asked[t][other] # NotAsked

\* What a call does with the token it waited for: the first send, the one retry, or a rejection.
CallWith(t, n) ==
    IF call[t].state # "resolving" THEN UNCHANGED <<call, left>>
    ELSE IF n = NoToken THEN call' = [call EXCEPT ![t] = NoRequest] /\ Leave(t)
    ELSE /\ call' = [call EXCEPT ![t] = IF n = call[t].token THEN NoRequest
                                        ELSE [@ EXCEPT !.state = "sent", !.token = n]]
         /\ UNCHANGED left

SessionArrives(t, r) ==
    /\ asked[t][r].state = "answered" /\ t \notin left
    /\ LET a == asked[t][r]
           token == IF a.error THEN NoToken ELSE a.pair
       IN /\ jar' = [pair |-> a.pair, error |-> a.error]
          /\ mishap' = mishap \cup (IF a.pair < jar.pair THEN {"overwritten"} ELSE {})
                              \cup (IF token = NoToken /\ GivenUp(t, r) THEN {"lost"} ELSE {})
          /\ memory' = [memory EXCEPT ![t] = token]
          /\ IF r = "call" THEN CallWith(t, token)
             ELSE /\ IF token = NoToken THEN Leave(t) ELSE UNCHANGED left
                  /\ UNCHANGED call
    /\ asked' = [asked EXCEPT ![t][r] = NotAsked]
    /\ UNCHANGED <<idp, refresh, rotated, keys, calls, faults>>

\* getSession returns null when the request fails: the page takes it for a missing session.
SessionFails(t, r) ==
    /\ Fault /\ asked[t][r].state # "none" /\ t \notin left
    /\ mishap' = IF asked[t][r].state \in {"waiting", "answered"} \/ GivenUp(t, r)
                 THEN mishap \cup {"lost"} ELSE mishap
    /\ memory' = [memory EXCEPT ![t] = NoToken]
    /\ IF r = "call" THEN CallWith(t, NoToken) ELSE Leave(t) /\ UNCHANGED call
    /\ asked' = [asked EXCEPT ![t][r] = NotAsked]
    /\ UNCHANGED <<idp, jar, refresh, rotated, keys, calls>>

\* refetchInterval and refetchOnWindowFocus.
PollSession(t) ==
    /\ t \notin left /\ asked[t]["poll"] = NotAsked
    /\ Ask(t, "poll")
    /\ UNCHANGED <<idp, jar, refresh, rotated, memory, call, left, keys, mishap, calls, faults>>

(***************************************************************************)
(* A call of the API.  Expired tokens in memory count as absent; a request  *)
(* without a token waits for the session.                                   *)
(***************************************************************************)
fetchSessionAccessToken(t) == IF asked[t]["call"] = NotAsked THEN Ask(t, "call") ELSE UNCHANGED asked

Call(t) ==
    /\ calls < MaxCalls /\ t \notin left /\ call[t] = NoRequest
    /\ calls' = calls + 1
    /\ IF memory[t] > idp.expired
       THEN /\ call' = [call EXCEPT ![t] = [state |-> "sent", token |-> memory[t], retried |-> FALSE]]
            /\ UNCHANGED <<memory, asked>>
       ELSE /\ call' = [call EXCEPT ![t] = [state |-> "resolving", token |-> NoToken, retried |-> FALSE]]
            /\ memory' = [memory EXCEPT ![t] = NoToken]
            /\ fetchSessionAccessToken(t)
    /\ UNCHANGED <<idp, jar, refresh, rotated, left, keys, mishap, faults>>

\* proxy.ts answers 401 without a token in the cookie; the guard waits for the key set.
Accepted(t) == ~jar.error /\ keys = "ready" /\ call[t].token > idp.expired
Rejected(t) == jar.error \/ keys = "cooling" \/ (keys = "ready" /\ call[t].token <= idp.expired)

CallSucceeds(t) ==
    /\ call[t].state = "sent" /\ t \notin left /\ Accepted(t)
    /\ call' = [call EXCEPT ![t] = NoRequest]
    /\ UNCHANGED <<idp, jar, asked, refresh, rotated, memory, left, keys, mishap, calls, faults>>

\* A first 401 drops the token and asks the session once more; a second one is the caller's.
CallRejected(t) ==
    /\ call[t].state = "sent" /\ t \notin left /\ Rejected(t)
    /\ IF call[t].retried
       THEN call' = [call EXCEPT ![t] = NoRequest] /\ UNCHANGED <<memory, asked>>
       ELSE /\ call' = [call EXCEPT ![t] = [@ EXCEPT !.state = "resolving", !.retried = TRUE]]
            /\ memory' = [memory EXCEPT ![t] = NoToken]
            /\ fetchSessionAccessToken(t)
    /\ UNCHANGED <<idp, jar, refresh, rotated, left, keys, mishap, calls, faults>>

(***************************************************************************)
(* getJwks: a pending discovery is shared, a failed one is forgotten and    *)
(* blocks the next for 5 s.                                                 *)
(***************************************************************************)
StartDiscovery ==
    /\ keys = "none" /\ \E t \in Tabs : call[t].state = "sent" /\ ~jar.error
    /\ keys' = "pending"
    /\ UNCHANGED <<idp, jar, asked, refresh, rotated, memory, call, left, mishap, calls, faults>>

DiscoveryEnds ==
    /\ keys = "pending" /\ keys' = "ready"
    /\ UNCHANGED <<idp, jar, asked, refresh, rotated, memory, call, left, mishap, calls, faults>>

DiscoveryFails ==
    /\ Fault /\ keys = "pending" /\ keys' = "cooling"
    /\ UNCHANGED <<idp, jar, asked, refresh, rotated, memory, call, left, mishap, calls>>

CoolDownEnds ==
    /\ keys = "cooling" /\ keys' = "none"
    /\ UNCHANGED <<idp, jar, asked, refresh, rotated, memory, call, left, mishap, calls, faults>>

TokenNext ==
    \/ NearsExpiry \/ Expires
    \/ \E n \in Pairs : \/ pruneRotatedRefreshResults(n) \/ ProviderRotates(n) \/ RefreshEnds(n)
                        \/ RefreshTimesOut(n)
    \/ \E t \in Tabs : PollSession(t) \/ Call(t) \/ CallSucceeds(t) \/ CallRejected(t)
    \/ \E t \in Tabs, r \in Readers : \/ JwtCallback(t, r) \/ TakeRotated(t, r)
                                      \/ SessionArrives(t, r) \/ SessionFails(t, r)
    \/ StartDiscovery \/ DiscoveryEnds \/ DiscoveryFails \/ CoolDownEnds

TokenSpec == TokenInit /\ [][TokenNext]_tokenVars

-----------------------------------------------------------------------------

\* The session is lost only when an answer that carried a new pair was lost, or an answer with
\* an older pair overwrote a newer cookie: tabs, polls and calls that present a pair while it
\* is rotated or just after never get refused (refreshInFlight and rotatedRefreshResults).
SessionLostHasCause ==
    (jar.error \/ \E t \in Tabs, r \in Readers : asked[t][r].error) => mishap # {}
=============================================================================
