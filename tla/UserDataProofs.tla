---------------------------- MODULE UserDataProofs ----------------------------
(***************************************************************************)
(* Proofs about what one user has: the session (SessionTokens), the        *)
(* settings and prompts (PromptSettings), the texts at rest                *)
(* (FieldEncryption) and the search over them (MeetingSearch), each for    *)
(* any number of tabs, calls, saves, meetings and faults; the one bound,   *)
(* on the damages of stored texts, is a hypothesis of its theorems.        *)
(***************************************************************************)
EXTENDS SessionTokens, PromptSettings, FieldEncryption, MeetingSearch, SequenceTheorems,
        FiniteSetTheorems, TLAPS

-----------------------------------------------------------------------------
(***************************************************************************)
(* The session.  As long as no answer that carries a new pair was lost and *)
(* no newer cookie overwritten, the cookie is at most one rotation behind  *)
(* the provider (CookieInv), a rotation under way is awaited by a request  *)
(* that will bring the new pair (RefreshInv), and a request that carries a *)
(* pair already rotated finds the outcome of that rotation (RequestInv).   *)
(***************************************************************************)

Outcomes == {"none", "ok", "permanent"}
Refreshes == {"none", "sent", "rotated", "refused"}
AskStates == {"sent", "waiting", "answered"}
Asked == {NotAsked} \cup [state : AskStates, pair : Pairs, error : BOOLEAN]
Requests == [Tabs -> [Readers -> Asked]]
Provider == [current : Pairs, near : 0..(MaxPairs - 1), expired : Nat]
Jar == [pair : Pairs, error : BOOLEAN]

\* The outcome of the rotation of pair n is under way or kept.
Rotated(n) == refresh[n] = "rotated" \/ rotated[n] = "ok"

TypeInv ==
    /\ idp \in Provider /\ jar \in Jar /\ asked \in Requests
    /\ refresh \in [Pairs -> Refreshes] /\ rotated \in [Pairs -> Outcomes]
    /\ \A n \in Pairs : Rotated(n) => n < MaxPairs

Waits(t, r, n) == asked[t][r].state = "waiting" /\ asked[t][r].pair = n
Brings(t, r, n) == asked[t][r].state = "answered" /\ asked[t][r].pair = n

\* Only the current pair is sent to be refreshed, and a request waits for it.
RefreshInv ==
    \A n \in Pairs :
        /\ refresh[n] # "refused" /\ rotated[n] # "permanent"
        /\ refresh[n] = "sent" => n = idp.current /\ n < MaxPairs
        /\ Rotated(n) => n < idp.current
        /\ refresh[n] # "none" => \E t \in Tabs, r \in Readers : Waits(t, r, n)

\* A request carries no pair newer than the cookie, and no pair that was
\* rotated without an outcome to find.
RequestInv ==
    \A t \in Tabs, r \in Readers :
        /\ ~asked[t][r].error
        /\ asked[t][r].state # "none" =>
             /\ t \notin left /\ asked[t][r].pair \in 1..idp.current
             /\ asked[t][r].state # "answered" =>
                  /\ asked[t][r].pair <= jar.pair
                  /\ asked[t][r].pair < idp.current => Rotated(asked[t][r].pair)
             /\ asked[t][r].state = "waiting" =>
                  refresh[asked[t][r].pair] # "none" \/ rotated[asked[t][r].pair] # "none"

\* The cookie has the current pair, or a request will bring it.
CookieInv ==
    /\ ~jar.error /\ jar.pair \in {idp.current - 1, idp.current}
    /\ jar.pair < idp.current =>
         /\ Rotated(jar.pair)
         /\ \E t \in Tabs, r \in Readers :
              Waits(t, r, jar.pair) \/ Brings(t, r, idp.current)

InStep == RefreshInv /\ RequestInv /\ CookieInv

IInv == TypeInv /\ (mishap = {} => InStep)

LEMMA Shapes ==
    ASSUME TypeInv
    PROVE  /\ MaxPairs \in Nat \ {0} /\ idp.current \in 1..MaxPairs /\ idp.near \in 0..(MaxPairs - 1)
           /\ jar.pair \in 1..MaxPairs /\ jar.error \in BOOLEAN
           /\ \A t \in Tabs, r \in Readers :
                /\ asked[t][r] \in Asked /\ asked[t][r].state \in AskStates \cup {"none"}
                /\ asked[t][r].state # "none" => asked[t][r].pair \in Pairs
                /\ asked[t][r].error \in BOOLEAN
           /\ \A n \in Pairs : refresh[n] \in Refreshes /\ rotated[n] \in Outcomes
<1>1. ASSUME NEW a \in Asked
      PROVE  /\ a.state \in AskStates \cup {"none"} /\ a.error \in BOOLEAN
             /\ a.state # "none" => a.pair \in Pairs
  <2>1. CASE a = NotAsked
    BY <2>1 DEF NotAsked
  <2>2. CASE a \in [state : AskStates, pair : Pairs, error : BOOLEAN]
    BY <2>2
  <2>3. QED
    BY <1>1, <2>1, <2>2 DEF Asked
<1>2. \A t \in Tabs, r \in Readers : asked[t][r] \in Asked
  BY DEF TypeInv, Requests
<1>3. QED
  BY <1>1, <1>2, TokenAssumption DEF TypeInv, Provider, Jar, Pairs

\* One request changes.
LEMMA OneChanges ==
    ASSUME asked \in Requests, NEW t \in Tabs, NEW r \in Readers, NEW x \in Asked,
           asked' = [asked EXCEPT ![t][r] = x]
    PROVE  /\ asked' \in Requests /\ asked'[t][r] = x
           /\ \A u \in Tabs, q \in Readers : u # t \/ q # r => asked'[u][q] = asked[u][q]
BY DEF Requests

LEMMA NotAskedTypes == NotAsked \in Asked /\ NotAsked.state = "none" /\ ~NotAsked.error
BY DEF NotAsked, Asked

\* The requests that wait for pair n are answered.
LEMMA ResolvedFacts ==
    ASSUME TypeInv, NEW n \in Pairs, NEW o, o = "ok" => n + 1 \in Pairs
    PROVE  /\ Resolved(n, o) \in Requests
           /\ \A t \in Tabs, r \in Readers :
                /\ ~Waits(t, r, n) => Resolved(n, o)[t][r] = asked[t][r]
                /\ Waits(t, r, n) =>
                     /\ Resolved(n, o)[t][r].state = "answered"
                     /\ Resolved(n, o)[t][r].pair = IF o = "ok" THEN n + 1 ELSE n
                     /\ Resolved(n, o)[t][r].error <=> o = "permanent"
<1> DEFINE reply == [state |-> "answered", pair |-> IF o = "ok" THEN n + 1 ELSE n,
                     error |-> o = "permanent"]
<1>1. reply \in Asked
  BY TokenAssumption DEF Asked, AskStates, Pairs
<1>2. Resolved(n, o) = [t \in Tabs |-> [r \in Readers |->
                          IF Waits(t, r, n) THEN reply ELSE asked[t][r]]]
  BY Zenon DEF Resolved, Waits
<1>3. /\ reply.state = "answered" /\ reply.pair = (IF o = "ok" THEN n + 1 ELSE n)
      /\ reply.error <=> o = "permanent"
  OBVIOUS
<1> HIDE DEF reply
<1>4. \A t \in Tabs, r \in Readers :
        Resolved(n, o)[t][r] = IF Waits(t, r, n) THEN reply ELSE asked[t][r]
  BY <1>2
<1>5. Resolved(n, o) \in Requests
  BY <1>1, <1>2, Shapes DEF Requests
<1>6. QED
  BY <1>3, <1>4, <1>5

\* A step that leaves the cookie, the requests and the rotations alone.
LEMMA FrameKeeps ==
    ASSUME IInv, UNCHANGED <<jar, asked, refresh, rotated, mishap, left>>,
           idp' \in Provider, idp'.current = idp.current
    PROVE  IInv'
<1>1. TypeInv'
  BY DEF IInv, TypeInv, Rotated
<1>2. ASSUME InStep PROVE InStep'
  BY <1>2 DEF InStep, RefreshInv, RequestInv, CookieInv, Rotated, Waits, Brings
<1>3. QED
  BY <1>1, <1>2 DEF IInv

\* A new request carries the cookie.
LEMMA AskKeeps ==
    ASSUME IInv, NEW t \in Tabs \ left, NEW r \in Readers, asked[t][r] = NotAsked, Ask(t, r),
           UNCHANGED <<idp, jar, refresh, rotated, mishap, left>>
    PROVE  IInv'
<1> DEFINE x == [state |-> "sent", pair |-> jar.pair, error |-> jar.error]
<1>0. TypeInv /\ asked \in Requests /\ t \in Tabs
  BY DEF IInv, TypeInv
<1>1. x \in Asked /\ x.state = "sent" /\ x.pair = jar.pair /\ x.error = jar.error
  BY <1>0, Shapes DEF Asked, AskStates, Pairs
<1>2. asked' = [asked EXCEPT ![t][r] = x]
  BY DEF Ask
<1> HIDE DEF x
<1>3. /\ asked' \in Requests /\ asked'[t][r] = x
      /\ \A u \in Tabs, q \in Readers : u # t \/ q # r => asked'[u][q] = asked[u][q]
  <2>1. x \in Asked
    BY <1>1
  <2>2. QED
    BY <1>0, <1>2, <2>1 DEF Requests
<1>4. TypeInv'
  BY <1>0, <1>3 DEF TypeInv, Rotated
<1>5. ASSUME InStep PROVE InStep'
  <2>1. asked[t][r].state = "none"
    BY NotAskedTypes
  <2>2. RefreshInv'
    BY <1>3, <1>5, <2>1 DEF InStep, RefreshInv, Rotated, Waits
  <2>3. RequestInv'
    <3>1. jar.pair \in 1..idp.current /\ ~jar.error /\ jar.pair <= jar.pair
          /\ (jar.pair < idp.current => Rotated(jar.pair))
      BY <1>0, <1>5, Shapes DEF InStep, CookieInv
    <3>2. QED
      BY <1>1, <1>3, <1>5, <3>1 DEF InStep, RequestInv, Rotated
  <2>4. CookieInv'
    BY <1>3, <1>5, <2>1 DEF InStep, CookieInv, Rotated, Waits, Brings
  <2>5. QED
    BY <2>2, <2>3, <2>4 DEF InStep
<1>6. QED
  BY <1>4, <1>5 DEF IInv

\* A call asks unless the tab has asked already.
LEMMA FetchKeeps ==
    ASSUME IInv, NEW t \in Tabs \ left, fetchSessionAccessToken(t),
           UNCHANGED <<idp, jar, refresh, rotated, mishap, left>>
    PROVE  IInv'
<1>1. "call" \in Readers
  BY DEF Readers
<1>2. CASE asked[t]["call"] = NotAsked
  BY <1>1, <1>2, AskKeeps DEF fetchSessionAccessToken
<1>3. CASE asked[t]["call"] # NotAsked
  BY <1>3, FrameKeeps DEF fetchSessionAccessToken, IInv, TypeInv
<1>4. QED
  BY <1>2, <1>3

LEMMA CallsKeep ==
    ASSUME IInv, NEW t \in Tabs, PollSession(t) \/ Call(t) \/ CallSucceeds(t) \/ CallRejected(t)
    PROVE  IInv'
<1>0. idp \in Provider
  BY DEF IInv, TypeInv
<1>1. CASE PollSession(t)
  BY <1>1, AskKeeps DEF PollSession, Readers
<1>2. CASE Call(t)
  BY <1>0, <1>2, FetchKeeps, FrameKeeps DEF Call
<1>3. CASE CallSucceeds(t)
  BY <1>0, <1>3, FrameKeeps DEF CallSucceeds
<1>4. CASE CallRejected(t)
  BY <1>0, <1>4, FetchKeeps, FrameKeeps DEF CallRejected
<1>5. QED
  BY <1>1, <1>2, <1>3, <1>4

LEMMA JwtCallbackKeeps ==
    ASSUME IInv, NEW t \in Tabs, NEW r \in Readers, JwtCallback(t, r)
    PROVE  IInv'
<1> DEFINE n == asked[t][r].pair
           wait == ~asked[t][r].error /\ shouldRefreshAccessToken(n)
           x == [asked[t][r] EXCEPT !.state = IF wait THEN "waiting" ELSE "answered"]
<1>0. TypeInv /\ asked \in Requests /\ asked[t][r] \in Asked
  BY Shapes DEF IInv, TypeInv
<1>1. /\ UNCHANGED <<idp, jar, rotated, left, mishap>> /\ asked[t][r].state = "sent"
      /\ asked' = [asked EXCEPT ![t][r] = x]
      /\ refresh' = IF wait /\ ~Known(n) THEN [refresh EXCEPT ![n] = "sent"] ELSE refresh
  BY DEF JwtCallback
<1>2. /\ x \in Asked /\ x.state = (IF wait THEN "waiting" ELSE "answered")
      /\ x.pair = n /\ x.error = asked[t][r].error
  <2>1. asked[t][r] \in [state : AskStates, pair : Pairs, error : BOOLEAN]
    BY <1>0, <1>1 DEF Asked, NotAsked
  <2>2. QED
    BY <2>1 DEF Asked, AskStates
<1> HIDE DEF x
<1>3. /\ asked' \in Requests /\ asked'[t][r] = x
      /\ \A u \in Tabs, q \in Readers : u # t \/ q # r => asked'[u][q] = asked[u][q]
  BY <1>0, <1>1, <1>2, OneChanges
<1>4. TypeInv'
  <2>1. refresh' \in [Pairs -> Refreshes]
    BY <1>0, <1>1 DEF TypeInv, Refreshes
  <2>2. \A m \in Pairs : Rotated(m)' => Rotated(m)
    BY <1>0, <1>1 DEF TypeInv, Rotated
  <2>3. QED
    BY <1>0, <1>1, <1>3, <2>1, <2>2 DEF TypeInv
<1>5. ASSUME InStep PROVE InStep'
  <2>1. /\ n \in 1..idp.current /\ n \in Pairs /\ t \notin left /\ ~asked[t][r].error
        /\ n <= jar.pair /\ (n < idp.current => Rotated(n))
    BY <1>0, <1>1, <1>5, Shapes DEF InStep, RequestInv, Pairs
  <2>2. Rotated(n) => Known(n)
    BY DEF Rotated, Known
  <2>3. wait /\ ~Known(n) => n = idp.current /\ n < MaxPairs
    BY <1>0, <2>1, <2>2, Shapes DEF shouldRefreshAccessToken
  <2>4. /\ wait => refresh'[n] # "none" \/ rotated[n] # "none"
        /\ \A m \in Pairs : \/ refresh'[m] = refresh[m]
                            \/ /\ m = n /\ wait /\ ~Known(n) /\ refresh[m] = "none"
                               /\ rotated[m] = "none" /\ refresh'[m] = "sent"
    BY <1>0, <1>1, <2>1 DEF Known, TypeInv
  <2>5. \A m \in Pairs : /\ Rotated(m) => Rotated(m)'
                         /\ Rotated(m)' => Rotated(m)
                         /\ refresh[m] # "none" => refresh'[m] # "none"
    BY <1>1, <2>4 DEF Rotated
  <2>6. RefreshInv'
    <3> SUFFICES ASSUME NEW m \in Pairs
                 PROVE  /\ refresh'[m] # "refused" /\ rotated'[m] # "permanent"
                        /\ refresh'[m] = "sent" => m = idp'.current /\ m < MaxPairs
                        /\ Rotated(m)' => m < idp'.current
                        /\ refresh'[m] # "none" => \E u \in Tabs, q \in Readers : Waits(u, q, m)'
      BY DEF RefreshInv
    <3>1. /\ refresh'[m] # "refused" /\ rotated'[m] # "permanent"
          /\ refresh'[m] = "sent" => m = idp'.current /\ m < MaxPairs
          /\ Rotated(m)' => m < idp'.current
      BY <1>1, <1>5, <2>3, <2>4, <2>5 DEF InStep, RefreshInv
    <3>2. ASSUME refresh[m] # "none" PROVE \E u \in Tabs, q \in Readers : Waits(u, q, m)'
      <4>1. PICK u \in Tabs, q \in Readers : Waits(u, q, m)
        BY <1>5, <3>2 DEF InStep, RefreshInv
      <4>2. asked'[u][q] = asked[u][q]
        BY <1>1, <1>3, <4>1 DEF Waits
      <4>3. QED
        BY <4>1, <4>2 DEF Waits
    <3>3. ASSUME m = n, wait PROVE Waits(t, r, m)'
      BY <1>2, <1>3, <3>3 DEF Waits
    <3>4. QED
      BY <2>4, <3>1, <3>2, <3>3
  <2>7. RequestInv'
    <3> SUFFICES ASSUME NEW u \in Tabs, NEW q \in Readers
                 PROVE  /\ ~asked'[u][q].error
                        /\ asked'[u][q].state # "none" =>
                             /\ u \notin left' /\ asked'[u][q].pair \in 1..idp'.current
                             /\ asked'[u][q].state # "answered" =>
                                  /\ asked'[u][q].pair <= jar'.pair
                                  /\ asked'[u][q].pair < idp'.current => Rotated(asked[u][q].pair)'
                             /\ asked'[u][q].state = "waiting" =>
                                  \/ refresh'[asked'[u][q].pair] # "none"
                                  \/ rotated'[asked'[u][q].pair] # "none"
      BY DEF RequestInv
    <3>1. CASE u = t /\ q = r
      BY <1>1, <1>2, <1>3, <2>1, <2>4, <2>5, <3>1
    <3>2. CASE u # t \/ q # r
      <4>1. asked'[u][q] = asked[u][q]
        BY <1>3, <3>2
      <4>2. asked[u][q].state # "none" => asked[u][q].pair \in Pairs
        BY <1>0, <1>5, Shapes DEF InStep, RequestInv, Pairs
      <4>3. QED
        BY <1>1, <1>5, <2>5, <4>1, <4>2 DEF InStep, RequestInv
    <3>3. QED
      BY <3>1, <3>2
  <2>8. CookieInv'
    <3>1. \A u \in Tabs, q \in Readers, m \in Pairs :
            (Waits(u, q, m) => Waits(u, q, m)') /\ (Brings(u, q, m) => Brings(u, q, m)')
      BY <1>1, <1>3 DEF Waits, Brings
    <3>2. jar.pair \in Pairs /\ idp.current \in Pairs
      BY <1>0, Shapes DEF Pairs
    <3>3. QED
      BY <1>1, <1>5, <2>5, <3>1, <3>2 DEF InStep, CookieInv
  <2>9. QED
    BY <2>6, <2>7, <2>8 DEF InStep
<1>6. QED
  BY <1>1, <1>4, <1>5 DEF IInv

\* The provider answers: it is shown its current refresh token.
LEMMA ProviderRotatesKeeps ==
    ASSUME IInv, NEW n \in Pairs, ProviderRotates(n)
    PROVE  IInv'
<1>0. TypeInv
  BY DEF IInv
<1>1. UNCHANGED <<jar, asked, rotated, left, mishap>> /\ refresh[n] = "sent"
  BY DEF ProviderRotates
<1>2. CASE n = idp.current /\ n < MaxPairs
  <2>1. /\ idp' = [idp EXCEPT !.current = n + 1]
        /\ refresh' = [refresh EXCEPT ![n] = "rotated"]
    BY <1>2 DEF ProviderRotates
  <2>2. /\ idp' \in Provider /\ idp'.current = n + 1 /\ n + 1 \in Pairs
        /\ refresh' \in [Pairs -> Refreshes] /\ refresh'[n] = "rotated"
        /\ \A m \in Pairs \ {n} : refresh'[m] = refresh[m]
    BY <1>0, <1>2, <2>1, TokenAssumption DEF TypeInv, Provider, Pairs, Refreshes
  <2>3. TypeInv'
    <3>1. \A m \in Pairs : Rotated(m)' => Rotated(m) \/ m = n
      BY <1>1, <2>2 DEF Rotated
    <3>2. QED
      BY <1>0, <1>1, <1>2, <2>2, <3>1 DEF TypeInv
  <2>4. ASSUME InStep PROVE InStep'
    <3>1. \A m \in Pairs : /\ Rotated(m) => Rotated(m)'
                           /\ Rotated(m)' => Rotated(m) \/ m = n
                           /\ refresh[m] # "none" <=> refresh'[m] # "none"
      BY <1>1, <2>2 DEF Rotated
    <3>2. Rotated(n)'
      BY <2>2 DEF Rotated
    <3>3. PICK t \in Tabs, r \in Readers : Waits(t, r, n)
      BY <1>1, <2>4 DEF InStep, RefreshInv
    <3>4. jar.pair = n
      <4>1. n <= jar.pair
        BY <2>4, <3>3 DEF InStep, RequestInv, Waits
      <4>2. QED
        BY <1>0, <1>2, <2>4, <4>1, Shapes DEF InStep, CookieInv
    <3>5. RefreshInv'
      <4>1. \A m \in Pairs : refresh'[m] = "sent" => FALSE
        BY <1>2, <2>2, <2>4 DEF InStep, RefreshInv
      <4>2. \A m \in Pairs : m < n \/ m = n => m < n + 1
        BY DEF Pairs
      <4>3. QED
        BY <1>1, <1>2, <2>2, <2>4, <3>1, <4>1, <4>2 DEF InStep, RefreshInv, Waits
    <3>6. RequestInv'
      <4> SUFFICES ASSUME NEW u \in Tabs, NEW q \in Readers
                   PROVE  /\ ~asked[u][q].error
                          /\ asked[u][q].state # "none" =>
                               /\ u \notin left /\ asked[u][q].pair \in 1..(n + 1)
                               /\ asked[u][q].state # "answered" =>
                                    /\ asked[u][q].pair <= jar.pair
                                    /\ asked[u][q].pair < n + 1 => Rotated(asked[u][q].pair)'
                               /\ asked[u][q].state = "waiting" =>
                                    \/ refresh'[asked[u][q].pair] # "none"
                                    \/ rotated[asked[u][q].pair] # "none"
        BY <1>1, <2>2 DEF RequestInv
      <4>1. asked[u][q].state # "none" => asked[u][q].pair \in Pairs /\ asked[u][q].pair \in 1..n
        BY <1>0, <1>2, <2>4, Shapes DEF InStep, RequestInv, Pairs
      <4>2. /\ ~asked[u][q].error
            /\ asked[u][q].state # "none" =>
                 /\ u \notin left /\ asked[u][q].pair \in 1..(n + 1)
                 /\ asked[u][q].state # "answered" => asked[u][q].pair <= jar.pair
        BY <2>4, <4>1 DEF InStep, RequestInv, Pairs
      <4>3. ASSUME asked[u][q].state # "none", asked[u][q].state # "answered"
            PROVE  Rotated(asked[u][q].pair)'
        <5>1. asked[u][q].pair < n \/ asked[u][q].pair = n
          BY <4>1, <4>3 DEF Pairs
        <5>2. asked[u][q].pair < n => Rotated(asked[u][q].pair)
          BY <1>2, <2>4, <4>3 DEF InStep, RequestInv
        <5>3. QED
          BY <1>1, <3>1, <3>2, <4>1, <4>3, <5>1, <5>2 DEF Rotated
      <4>4. ASSUME asked[u][q].state = "waiting"
            PROVE  refresh'[asked[u][q].pair] # "none" \/ rotated[asked[u][q].pair] # "none"
        BY <2>4, <3>1, <4>1, <4>4 DEF InStep, RequestInv
      <4>5. QED
        BY <4>2, <4>3, <4>4
    <3>7. CookieInv'
      <4>1. Waits(t, r, n)'
        BY <1>1, <3>3 DEF Waits
      <4>2. QED
        BY <1>1, <2>2, <2>4, <3>2, <3>4, <4>1 DEF InStep, CookieInv, Pairs
    <3>8. QED
      BY <3>5, <3>6, <3>7 DEF InStep
  <2>5. QED
    BY <1>1, <2>3, <2>4 DEF IInv
<1>3. CASE ~(n = idp.current /\ n < MaxPairs)
  <2>1. UNCHANGED idp /\ refresh' = [refresh EXCEPT ![n] = "refused"]
    BY <1>3 DEF ProviderRotates
  <2>2. TypeInv'
    <3>1. refresh' \in [Pairs -> Refreshes] /\ \A m \in Pairs : Rotated(m)' => Rotated(m)
      BY <1>0, <1>1, <2>1 DEF TypeInv, Refreshes, Rotated
    <3>2. QED
      BY <1>0, <1>1, <2>1, <3>1 DEF TypeInv
  <2>3. ~InStep
    BY <1>1, <1>3 DEF InStep, RefreshInv
  <2>4. QED
    BY <1>1, <2>2, <2>3 DEF IInv
<1>4. QED
  BY <1>2, <1>3

\* The requests that wait for a rotation get its pair.
LEMMA ResolvedInStep ==
    ASSUME TypeInv, InStep, NEW n \in Pairs, Rotated(n), asked' = Resolved(n, "ok"),
           UNCHANGED <<idp, jar, left>>, refresh'[n] = "none", rotated'[n] = "ok",
           \A m \in Pairs \ {n} : refresh'[m] = refresh[m] /\ rotated'[m] = rotated[m]
    PROVE  InStep'
<1>1. n < idp.current /\ n + 1 \in Pairs /\ n + 1 \in 1..idp.current
  BY Shapes DEF InStep, RefreshInv, Pairs
<1>2. \A t \in Tabs, r \in Readers :
        /\ ~Waits(t, r, n) => asked'[t][r] = asked[t][r]
        /\ Waits(t, r, n) => /\ asked'[t][r].state = "answered" /\ asked'[t][r].pair = n + 1
                             /\ ~asked'[t][r].error
  BY <1>1, ResolvedFacts
<1>3. \A m \in Pairs : Rotated(m) <=> Rotated(m)'
  BY DEF Rotated
<1>4. RefreshInv'
  <2> SUFFICES ASSUME NEW m \in Pairs \ {n}
               PROVE  /\ refresh'[m] # "refused" /\ rotated'[m] # "permanent"
                      /\ refresh'[m] = "sent" => m = idp'.current /\ m < MaxPairs
                      /\ Rotated(m)' => m < idp'.current
                      /\ refresh'[m] # "none" => \E t \in Tabs, r \in Readers : Waits(t, r, m)'
    BY <1>1, <1>3 DEF RefreshInv
  <2>1. /\ refresh'[m] # "refused" /\ rotated'[m] # "permanent"
        /\ refresh'[m] = "sent" => m = idp'.current /\ m < MaxPairs
        /\ Rotated(m)' => m < idp'.current
    BY <1>3 DEF InStep, RefreshInv
  <2>2. ASSUME refresh'[m] # "none" PROVE \E t \in Tabs, r \in Readers : Waits(t, r, m)'
    <3>1. PICK t \in Tabs, r \in Readers : Waits(t, r, m)
      BY <2>2 DEF InStep, RefreshInv
    <3>2. asked'[t][r] = asked[t][r]
      BY <1>2, <3>1 DEF Waits
    <3>3. QED
      BY <3>1, <3>2 DEF Waits
  <2>3. QED
    BY <2>1, <2>2
<1>5. RequestInv'
  <2> SUFFICES ASSUME NEW t \in Tabs, NEW r \in Readers
               PROVE  /\ ~asked'[t][r].error
                      /\ asked'[t][r].state # "none" =>
                           /\ t \notin left /\ asked'[t][r].pair \in 1..idp.current
                           /\ asked'[t][r].state # "answered" =>
                                /\ asked'[t][r].pair <= jar.pair
                                /\ asked'[t][r].pair < idp.current => Rotated(asked[t][r].pair)'
                           /\ asked'[t][r].state = "waiting" =>
                                \/ refresh'[asked'[t][r].pair] # "none"
                                \/ rotated'[asked'[t][r].pair] # "none"
    BY DEF RequestInv
  <2>1. CASE Waits(t, r, n)
    <3>1. t \notin left
      BY <2>1 DEF InStep, RequestInv, Waits
    <3>2. QED
      BY <1>1, <1>2, <2>1, <3>1
  <2>2. CASE ~Waits(t, r, n)
    <3>1. asked'[t][r] = asked[t][r]
      BY <1>2, <2>2
    <3>2. asked[t][r].state # "none" => asked[t][r].pair \in Pairs
      BY Shapes DEF InStep, RequestInv, Pairs
    <3>3. asked[t][r].state = "waiting" => asked[t][r].pair # n
      BY <2>2 DEF Waits
    <3>4. QED
      BY <1>3, <3>1, <3>2, <3>3 DEF InStep, RequestInv
  <2>3. QED
    BY <2>1, <2>2
<1>6. CookieInv'
  <2>1. jar.pair \in Pairs /\ (jar.pair < idp.current => Rotated(jar.pair)')
    BY <1>3, Shapes DEF InStep, CookieInv, Pairs
  <2>2. ASSUME jar.pair < idp.current
        PROVE  \E t \in Tabs, r \in Readers : Waits(t, r, jar.pair)' \/ Brings(t, r, idp.current)'
    <3>1. PICK t \in Tabs, r \in Readers : Waits(t, r, jar.pair) \/ Brings(t, r, idp.current)
      BY <2>2 DEF InStep, CookieInv
    <3>2. CASE Waits(t, r, n)
      <4>1. jar.pair = n /\ idp.current = n + 1
        BY <2>2, <3>1, <3>2, Shapes DEF InStep, CookieInv, Waits, Brings
      <4>2. Brings(t, r, idp.current)'
        BY <1>2, <3>2, <4>1 DEF Brings
      <4>3. QED
        BY <4>2
    <3>3. CASE ~Waits(t, r, n)
      BY <1>2, <3>1, <3>3 DEF Waits, Brings
    <3>4. QED
      BY <3>2, <3>3
  <2>3. QED
    BY <2>1, <2>2 DEF InStep, CookieInv
<1>7. QED
  BY <1>4, <1>5, <1>6 DEF InStep

LEMMA RefreshEndsKeeps ==
    ASSUME IInv, NEW n \in Pairs, RefreshEnds(n)
    PROVE  IInv'
<1>0. TypeInv
  BY DEF IInv
<1>1. /\ UNCHANGED <<idp, jar, left, mishap>> /\ refresh' = [refresh EXCEPT ![n] = "none"]
      /\ refresh[n] \in {"rotated", "refused"}
  BY DEF RefreshEnds
<1>2. CASE refresh[n] = "rotated"
  <2>1. rotated' = [rotated EXCEPT ![n] = "ok"] /\ asked' = Resolved(n, "ok")
    BY <1>2 DEF RefreshEnds
  <2>2. /\ refresh' \in [Pairs -> Refreshes] /\ rotated' \in [Pairs -> Outcomes]
        /\ refresh'[n] = "none" /\ rotated'[n] = "ok"
        /\ \A m \in Pairs \ {n} : refresh'[m] = refresh[m] /\ rotated'[m] = rotated[m]
    BY <1>0, <1>1, <2>1 DEF TypeInv, Refreshes, Outcomes
  <2>3. TypeInv'
    <3>1. n + 1 \in Pairs
      BY <1>0, <1>2, TokenAssumption DEF TypeInv, Rotated, Pairs
    <3>2. asked' \in Requests
      BY <1>0, <2>1, <3>1, ResolvedFacts
    <3>3. \A m \in Pairs : Rotated(m)' => Rotated(m)
      BY <1>2, <2>2 DEF Rotated
    <3>4. QED
      BY <1>0, <1>1, <2>2, <3>2, <3>3 DEF TypeInv
  <2>4. ASSUME InStep PROVE InStep'
    BY <1>0, <1>1, <1>2, <2>1, <2>2, <2>4, ResolvedInStep DEF Rotated
  <2>5. QED
    BY <1>1, <2>3, <2>4 DEF IInv
<1>3. CASE refresh[n] = "refused"
  <2>1. rotated' = [rotated EXCEPT ![n] = "permanent"] /\ asked' = Resolved(n, "permanent")
    BY <1>3 DEF RefreshEnds
  <2>2. refresh' \in [Pairs -> Refreshes] /\ rotated' \in [Pairs -> Outcomes]
    BY <1>0, <1>1, <2>1 DEF TypeInv, Refreshes, Outcomes
  <2>3. asked' \in Requests
    BY <1>0, <2>1, ResolvedFacts
  <2>4. ~InStep
    BY <1>3 DEF InStep, RefreshInv
  <2>5. \A m \in Pairs : Rotated(m)' => Rotated(m)
    BY <1>0, <1>1, <2>1 DEF TypeInv, Rotated
  <2>6. QED
    BY <1>0, <1>1, <2>2, <2>3, <2>4, <2>5 DEF IInv, TypeInv
<1>4. QED
  BY <1>1, <1>2, <1>3

LEMMA TakeRotatedKeeps ==
    ASSUME IInv, NEW t \in Tabs, NEW r \in Readers, TakeRotated(t, r)
    PROVE  IInv'
<1> DEFINE n == asked[t][r].pair
<1>0. TypeInv
  BY DEF IInv
<1>1. /\ UNCHANGED <<idp, jar, refresh, rotated, left, mishap>>
      /\ asked[t][r].state = "waiting" /\ refresh[n] = "none" /\ rotated[n] # "none"
      /\ asked' = Resolved(n, rotated[n])
  BY DEF TakeRotated
<1>2. n \in Pairs
  BY <1>0, <1>1, Shapes
<1>3. rotated[n] \in {"ok", "permanent"} /\ (rotated[n] = "ok" => n + 1 \in Pairs)
  BY <1>0, <1>1, <1>2, TokenAssumption DEF TypeInv, Rotated, Outcomes, Pairs
<1>4. asked' \in Requests
  BY <1>0, <1>1, <1>2, <1>3, ResolvedFacts
<1>5. TypeInv'
  BY <1>0, <1>1, <1>4 DEF TypeInv, Rotated
<1>6. ASSUME InStep PROVE InStep'
  <2>1. rotated[n] = "ok"
    BY <1>2, <1>3, <1>6 DEF InStep, RefreshInv
  <2>2. QED
    BY <1>0, <1>1, <1>2, <1>6, <2>1, ResolvedInStep DEF Rotated
<1>7. QED
  BY <1>1, <1>5, <1>6 DEF IInv

\* The provider is down: the cookie stays, and the requests are answered.
LEMMA RefreshTimesOutKeeps ==
    ASSUME IInv, NEW n \in Pairs, RefreshTimesOut(n)
    PROVE  IInv'
<1>0. TypeInv
  BY DEF IInv
<1>1. /\ UNCHANGED <<idp, jar, rotated, left>> /\ refresh[n] # "none"
      /\ refresh' = [refresh EXCEPT ![n] = "none"] /\ asked' = Resolved(n, "transient")
      /\ mishap' = IF refresh[n] = "rotated" THEN mishap \cup {"lost"} ELSE mishap
  BY DEF RefreshTimesOut
<1>2. /\ asked' \in Requests
      /\ \A t \in Tabs, r \in Readers :
           /\ ~Waits(t, r, n) => asked'[t][r] = asked[t][r]
           /\ Waits(t, r, n) => /\ asked'[t][r].state = "answered" /\ asked'[t][r].pair = n
                                /\ ~asked'[t][r].error
  BY <1>0, <1>1, ResolvedFacts
<1>3. /\ refresh' \in [Pairs -> Refreshes] /\ refresh'[n] = "none"
      /\ \A m \in Pairs \ {n} : refresh'[m] = refresh[m]
  BY <1>0, <1>1 DEF TypeInv, Refreshes
<1>4. TypeInv'
  <2>1. \A m \in Pairs : Rotated(m)' => Rotated(m)
    BY <1>1, <1>3 DEF Rotated
  <2>2. QED
    BY <1>0, <1>1, <1>2, <1>3, <2>1 DEF TypeInv
<1>5. ASSUME mishap' = {} PROVE mishap = {} /\ refresh[n] # "rotated"
  BY <1>1, <1>5
<1>6. ASSUME InStep, refresh[n] # "rotated" PROVE InStep'
  <2>1. refresh[n] = "sent" /\ n = idp.current
    BY <1>0, <1>1, <1>6 DEF InStep, RefreshInv, TypeInv, Refreshes
  <2>2. \A m \in Pairs : Rotated(m) <=> Rotated(m)'
    BY <1>1, <1>3, <2>1 DEF Rotated
  <2>3. RefreshInv'
    <3> SUFFICES ASSUME NEW m \in Pairs
                 PROVE  /\ refresh'[m] # "refused" /\ rotated'[m] # "permanent"
                        /\ refresh'[m] = "sent" => m = idp'.current /\ m < MaxPairs
                        /\ Rotated(m)' => m < idp'.current
                        /\ refresh'[m] # "none" => \E t \in Tabs, r \in Readers : Waits(t, r, m)'
      BY DEF RefreshInv
    <3>1. /\ refresh'[m] # "refused" /\ rotated'[m] # "permanent"
          /\ refresh'[m] = "sent" => m = idp'.current /\ m < MaxPairs
          /\ Rotated(m)' => m < idp'.current
      BY <1>1, <1>3, <1>6, <2>2 DEF InStep, RefreshInv
    <3>2. ASSUME refresh'[m] # "none" PROVE \E t \in Tabs, r \in Readers : Waits(t, r, m)'
      <4>1. m # n /\ refresh[m] # "none"
        BY <1>3, <3>2
      <4>2. PICK t \in Tabs, r \in Readers : Waits(t, r, m)
        BY <1>6, <4>1 DEF InStep, RefreshInv
      <4>3. asked'[t][r] = asked[t][r]
        BY <1>2, <4>1, <4>2 DEF Waits
      <4>4. QED
        BY <4>2, <4>3 DEF Waits
    <3>3. QED
      BY <3>1, <3>2
  <2>4. RequestInv'
    <3> SUFFICES ASSUME NEW t \in Tabs, NEW r \in Readers
                 PROVE  /\ ~asked'[t][r].error
                        /\ asked'[t][r].state # "none" =>
                             /\ t \notin left /\ asked'[t][r].pair \in 1..idp.current
                             /\ asked'[t][r].state # "answered" =>
                                  /\ asked'[t][r].pair <= jar.pair
                                  /\ asked'[t][r].pair < idp.current => Rotated(asked[t][r].pair)'
                             /\ asked'[t][r].state = "waiting" =>
                                  \/ refresh'[asked'[t][r].pair] # "none"
                                  \/ rotated[asked'[t][r].pair] # "none"
      BY <1>1 DEF RequestInv
    <3>1. CASE Waits(t, r, n)
      <4>1. t \notin left /\ n \in 1..idp.current
        BY <1>6, <3>1 DEF InStep, RequestInv, Waits
      <4>2. QED
        BY <1>2, <3>1, <4>1
    <3>2. CASE ~Waits(t, r, n)
      <4>1. asked'[t][r] = asked[t][r]
        BY <1>2, <3>2
      <4>2. asked[t][r].state # "none" => asked[t][r].pair \in Pairs
        BY <1>0, Shapes
      <4>3. asked[t][r].state = "waiting" => asked[t][r].pair # n
        BY <3>2 DEF Waits
      <4>4. QED
        BY <1>1, <1>3, <1>6, <2>2, <4>1, <4>2, <4>3 DEF InStep, RequestInv
    <3>3. QED
      BY <3>1, <3>2
  <2>5. CookieInv'
    <3>1. jar.pair \in Pairs /\ (jar.pair < idp.current => Rotated(jar.pair)')
      BY <1>0, <1>1, <1>6, <2>2, Shapes DEF InStep, CookieInv, Pairs
    <3>2. ASSUME jar.pair < idp.current
          PROVE  \E t \in Tabs, r \in Readers : Waits(t, r, jar.pair)' \/ Brings(t, r, idp.current)'
      <4>1. PICK t \in Tabs, r \in Readers : Waits(t, r, jar.pair) \/ Brings(t, r, idp.current)
        BY <1>6, <3>2 DEF InStep, CookieInv
      <4>2. ~Waits(t, r, n)
        BY <2>1, <3>2, <4>1, <1>0, Shapes DEF Waits, Brings
      <4>3. asked'[t][r] = asked[t][r]
        BY <1>2, <4>2
      <4>4. QED
        BY <1>1, <4>1, <4>3 DEF Waits, Brings
    <3>3. QED
      BY <1>1, <1>6, <3>1, <3>2 DEF InStep, CookieInv
  <2>6. QED
    BY <2>3, <2>4, <2>5 DEF InStep
<1>7. QED
  BY <1>4, <1>5, <1>6 DEF IInv

\* A request is over: its answer has come or it has failed.
LEMMA RequestEndsKeeps ==
    ASSUME TypeInv, InStep, NEW t \in Tabs, NEW r \in Readers, asked[t][r].state # "waiting",
           asked' = [asked EXCEPT ![t][r] = NotAsked],
           UNCHANGED <<idp, refresh, rotated>>, ~jar'.error, jar.pair <= jar'.pair,
           jar'.pair \in {idp.current - 1, idp.current},
           Brings(t, r, idp.current) => jar'.pair = idp.current,
           left' \subseteq left \cup {t},
           t \in left' => \A q \in Readers \ {r} : asked[t][q] = NotAsked,
           jar' \in Jar
    PROVE  TypeInv' /\ InStep'
<1>1. /\ asked' \in Requests /\ asked'[t][r] = NotAsked
      /\ \A u \in Tabs, q \in Readers : u # t \/ q # r => asked'[u][q] = asked[u][q]
  BY NotAskedTypes DEF TypeInv, Requests
<1>2. TypeInv'
  BY <1>1 DEF TypeInv, Rotated
<1>3. \A u \in Tabs, q \in Readers, m \in Pairs : Waits(u, q, m) => Waits(u, q, m)'
  BY <1>1 DEF Waits
<1>4. RefreshInv'
  BY <1>3 DEF InStep, RefreshInv, Rotated
<1>5. RequestInv'
  <2> SUFFICES ASSUME NEW u \in Tabs, NEW q \in Readers
               PROVE  /\ ~asked'[u][q].error
                      /\ asked'[u][q].state # "none" =>
                           /\ u \notin left' /\ asked'[u][q].pair \in 1..idp.current
                           /\ asked'[u][q].state # "answered" =>
                                /\ asked'[u][q].pair <= jar'.pair
                                /\ asked'[u][q].pair < idp.current => Rotated(asked[u][q].pair)'
                           /\ asked'[u][q].state = "waiting" =>
                                \/ refresh[asked'[u][q].pair] # "none"
                                \/ rotated[asked'[u][q].pair] # "none"
    BY DEF RequestInv
  <2>1. CASE u = t /\ q = r
    BY <1>1, <2>1, NotAskedTypes
  <2>2. CASE u # t \/ q # r
    <3>1. asked'[u][q] = asked[u][q]
      BY <1>1, <2>2
    <3>2. CASE asked[u][q].state = "none"
      BY <3>1, <3>2 DEF InStep, RequestInv
    <3>3. CASE asked[u][q].state # "none"
      <4>1. u \notin left'
        BY <2>2, <3>3, NotAskedTypes DEF InStep, RequestInv
      <4>2. asked[u][q].pair \in Pairs /\ jar.pair \in Pairs /\ jar'.pair \in Pairs
        BY <1>2, <3>3, Shapes DEF Pairs, TypeInv, Jar
      <4>3. asked[u][q].pair <= jar.pair => asked[u][q].pair <= jar'.pair
        BY <4>2, TokenAssumption DEF Pairs
      <4>4. QED
        BY <3>1, <3>3, <4>1, <4>3 DEF InStep, RequestInv, Rotated
    <3>4. QED
      BY <3>2, <3>3
  <2>3. QED
    BY <2>1, <2>2
<1>6. CookieInv'
  <2>1. /\ idp.current \in Pairs /\ jar.pair \in Pairs /\ jar'.pair \in Pairs
        /\ jar.pair \in {idp.current - 1, idp.current}
    BY <1>2, Shapes DEF Pairs, TypeInv, Jar, InStep, CookieInv
  <2>2. ASSUME jar'.pair < idp.current
        PROVE  /\ Rotated(jar.pair)'
               /\ \E u \in Tabs, q \in Readers : Waits(u, q, jar.pair)' \/ Brings(u, q, idp.current)'
    <3>1. jar.pair = jar'.pair /\ jar.pair < idp.current
      BY <2>1, <2>2, TokenAssumption DEF Pairs
    <3>2. PICK u \in Tabs, q \in Readers : Waits(u, q, jar.pair) \/ Brings(u, q, idp.current)
      BY <3>1 DEF InStep, CookieInv
    <3>3. u # t \/ q # r
      BY <2>1, <2>2, <3>2, TokenAssumption DEF Waits, Pairs
    <3>4. Waits(u, q, jar.pair)' \/ Brings(u, q, idp.current)'
      BY <1>1, <3>1, <3>2, <3>3 DEF Waits, Brings
    <3>5. QED
      BY <3>1, <3>2, <3>4 DEF InStep, CookieInv, Rotated, Waits
  <2>3. QED
    BY <2>2 DEF CookieInv, Rotated, Waits, Brings
<1>7. QED
  BY <1>2, <1>4, <1>5, <1>6 DEF InStep

\* The cookie and the requests keep their types when a request is over.
LEMMA EndTypes ==
    ASSUME TypeInv, NEW t \in Tabs, NEW r \in Readers, jar' \in Jar,
           asked' = [asked EXCEPT ![t][r] = NotAsked], UNCHANGED <<idp, refresh, rotated>>
    PROVE  TypeInv'
<1>1. asked' \in Requests
  BY NotAskedTypes DEF TypeInv, Requests
<1>2. QED
  BY <1>1 DEF TypeInv, Rotated

\* An answer arrives: its pair is not older than the cookie, and no page is left.
LEMMA SessionArrivesKeeps ==
    ASSUME IInv, NEW t \in Tabs, NEW r \in Readers, SessionArrives(t, r)
    PROVE  IInv'
<1> DEFINE a == asked[t][r]
           token == IF a.error THEN NoToken ELSE a.pair
<1>0. TypeInv
  BY DEF IInv
<1>1. /\ a.state = "answered" /\ t \notin left /\ jar' = [pair |-> a.pair, error |-> a.error]
      /\ asked' = [asked EXCEPT ![t][r] = NotAsked] /\ UNCHANGED <<idp, refresh, rotated>>
      /\ mishap' = mishap \cup (IF a.pair < jar.pair THEN {"overwritten"} ELSE {})
                          \cup (IF token = NoToken /\ GivenUp(t, r) THEN {"lost"} ELSE {})
  BY DEF SessionArrives
<1>2. a.pair \in Pairs /\ a.error \in BOOLEAN /\ a.state # "waiting"
  BY <1>0, <1>1, Shapes
<1>3. jar' \in Jar /\ jar'.pair = a.pair /\ jar'.error = a.error
  BY <1>1, <1>2 DEF Jar
<1>4. TypeInv'
  BY <1>0, <1>1, <1>3, EndTypes
<1>5. ASSUME mishap' = {} PROVE mishap = {} /\ ~(a.pair < jar.pair)
  BY <1>1, <1>5
<1>6. ASSUME InStep, ~(a.pair < jar.pair) PROVE InStep'
  <2>1. ~a.error /\ a.pair \in 1..idp.current /\ token # NoToken
    BY <1>1, <1>2, <1>6 DEF InStep, RequestInv, NoToken, Pairs
  <2>2. left' = left
    BY <2>1 DEF SessionArrives, CallWith
  <2>3. /\ jar.pair <= a.pair /\ a.pair \in {idp.current - 1, idp.current}
        /\ idp.current \in Nat /\ jar.pair \in Nat
    BY <1>0, <1>6, <2>1, Shapes DEF InStep, CookieInv
  <2>4. Brings(t, r, idp.current) => a.pair = idp.current
    BY DEF Brings
  <2>5. QED
    BY <1>0, <1>1, <1>2, <1>3, <1>6, <2>1, <2>2, <2>3, <2>4, RequestEndsKeeps
<1>7. QED
  BY <1>4, <1>5, <1>6 DEF IInv

\* A request fails before the callback has run, and the tab has no other one.
LEMMA SessionFailsKeeps ==
    ASSUME IInv, NEW t \in Tabs, NEW r \in Readers, SessionFails(t, r)
    PROVE  IInv'
<1>0. TypeInv
  BY DEF IInv
<1>1. /\ asked' = [asked EXCEPT ![t][r] = NotAsked] /\ UNCHANGED <<idp, jar, refresh, rotated>>
      /\ mishap' = IF asked[t][r].state \in {"waiting", "answered"} \/ GivenUp(t, r)
                   THEN mishap \cup {"lost"} ELSE mishap
  BY DEF SessionFails
<1>2. jar' \in Jar
  BY <1>0, <1>1 DEF TypeInv
<1>3. TypeInv'
  BY <1>0, <1>1, <1>2, EndTypes
<1>4. left' \subseteq left \cup {t}
  BY DEF SessionFails, CallWith, Leave
<1>5. ASSUME mishap' = {}
      PROVE  /\ mishap = {} /\ asked[t][r].state \notin {"waiting", "answered"}
             /\ \A q \in Readers \ {r} : asked[t][q] = NotAsked
  BY <1>1, <1>5 DEF GivenUp
<1>6. ASSUME InStep, asked[t][r].state \notin {"waiting", "answered"},
             \A q \in Readers \ {r} : asked[t][q] = NotAsked
      PROVE  InStep'
  <2>1. ~Brings(t, r, idp.current)
    BY <1>6 DEF Brings
  <2>2. /\ ~jar'.error /\ jar.pair <= jar'.pair /\ jar'.pair \in {idp.current - 1, idp.current}
    BY <1>0, <1>1, <1>6, Shapes DEF InStep, CookieInv
  <2>3. QED
    BY <1>0, <1>1, <1>2, <1>4, <1>6, <2>1, <2>2, RequestEndsKeeps
<1>7. QED
  BY <1>3, <1>5, <1>6 DEF IInv

\* An outcome is forgotten when no request can need it.
LEMMA PruneKeeps ==
    ASSUME IInv, NEW n \in Pairs, pruneRotatedRefreshResults(n)
    PROVE  IInv'
<1>0. TypeInv
  BY DEF IInv
<1>1. /\ UNCHANGED <<idp, jar, asked, refresh, left, mishap>>
      /\ rotated' = [rotated EXCEPT ![n] = "none"]
      /\ \A t \in Tabs \ left, r \in Readers :
           asked[t][r].state # "none" =>
             asked[t][r].pair # n /\ ~(asked[t][r].state = "answered" /\ asked[t][r].pair = n + 1)
  BY DEF pruneRotatedRefreshResults
<1>2. /\ rotated' \in [Pairs -> Outcomes] /\ rotated'[n] = "none"
      /\ \A m \in Pairs \ {n} : rotated'[m] = rotated[m]
  BY <1>0, <1>1 DEF TypeInv, Outcomes
<1>3. \A m \in Pairs : Rotated(m)' => Rotated(m)
  BY <1>1, <1>2 DEF Rotated
<1>4. TypeInv'
  BY <1>0, <1>1, <1>2, <1>3 DEF TypeInv
<1>5. ASSUME InStep PROVE InStep'
  <2>1. \A t \in Tabs, r \in Readers :
          asked[t][r].state # "none" => /\ asked[t][r].pair \in Pairs \ {n}
                                        /\ ~Brings(t, r, n + 1)
    BY <1>0, <1>1, <1>5, Shapes DEF InStep, RequestInv, Brings
  <2>2. \A m \in Pairs \ {n} : Rotated(m) => Rotated(m)'
    BY <1>1, <1>2 DEF Rotated
  <2>3. RefreshInv'
    BY <1>1, <1>2, <1>3, <1>5 DEF InStep, RefreshInv, Waits
  <2>4. RequestInv'
    BY <1>1, <1>2, <1>5, <2>1, <2>2 DEF InStep, RequestInv
  <2>5. CookieInv'
    <3>1. ~jar.error /\ jar.pair \in {idp.current - 1, idp.current} /\ jar.pair \in Pairs
          /\ idp.current \in Nat
      BY <1>0, <1>5, Shapes DEF InStep, CookieInv, Pairs
    <3>2. ASSUME jar.pair < idp.current PROVE jar.pair # n
      <4>1. PICK t \in Tabs, r \in Readers : Waits(t, r, jar.pair) \/ Brings(t, r, idp.current)
        BY <1>5, <3>2 DEF InStep, CookieInv
      <4>2. asked[t][r].state # "none" /\ idp.current = jar.pair + 1
        BY <3>1, <3>2, <4>1, TokenAssumption DEF Waits, Brings, Pairs
      <4>3. QED
        BY <2>1, <4>1, <4>2 DEF Waits
    <3>3. jar.pair < idp.current => Rotated(jar.pair)'
      BY <1>1, <1>5, <2>2, <3>1, <3>2 DEF InStep, CookieInv
    <3>4. QED
      BY <1>1, <1>5, <3>3 DEF InStep, CookieInv, Waits, Brings
  <2>6. QED
    BY <2>3, <2>4, <2>5 DEF InStep
<1>6. QED
  BY <1>1, <1>4, <1>5 DEF IInv

\* Time passes, and the verifier looks for its keys.
LEMMA TimeKeeps ==
    ASSUME IInv, \/ NearsExpiry \/ Expires
                 \/ StartDiscovery \/ DiscoveryEnds \/ DiscoveryFails \/ CoolDownEnds
    PROVE  IInv'
<1>0. idp \in Provider /\ MaxPairs \in Nat
  BY TokenAssumption DEF IInv, TypeInv
<1>1. CASE NearsExpiry
  <2>1. idp' = [idp EXCEPT !.near = idp.current] /\ idp.current \in 0..(MaxPairs - 1)
    BY <1>0, <1>1 DEF NearsExpiry, Provider, Pairs
  <2>2. idp' \in Provider /\ idp'.current = idp.current
    BY <1>0, <2>1 DEF Provider
  <2>3. QED
    BY <1>1, <2>2, FrameKeeps DEF NearsExpiry
<1>2. CASE Expires
  <2>1. idp' \in Provider /\ idp'.current = idp.current
    BY <1>0, <1>2 DEF Expires, Provider
  <2>2. QED
    BY <1>2, <2>1, FrameKeeps DEF Expires
<1>3. CASE StartDiscovery \/ DiscoveryEnds \/ DiscoveryFails \/ CoolDownEnds
  BY <1>0, <1>3, FrameKeeps DEF StartDiscovery, DiscoveryEnds, DiscoveryFails, CoolDownEnds
<1>4. QED
  BY <1>1, <1>2, <1>3

LEMMA InitIInv == TokenInit => IInv
<1> SUFFICES ASSUME TokenInit PROVE IInv
  OBVIOUS
<1>1. 1 \in Pairs /\ 0 \in 0..(MaxPairs - 1) /\ 0 \in Nat
  BY TokenAssumption DEF Pairs
<1>2. /\ idp = [current |-> 1, near |-> 0, expired |-> 0] /\ jar = [pair |-> 1, error |-> FALSE]
      /\ \A t \in Tabs, r \in Readers : asked[t][r] = NotAsked
      /\ \A n \in Pairs : refresh[n] = "none" /\ rotated[n] = "none"
  BY DEF TokenInit
<1>3. /\ idp \in Provider /\ jar \in Jar
      /\ refresh \in [Pairs -> Refreshes] /\ rotated \in [Pairs -> Outcomes]
  BY <1>1 DEF TokenInit, Provider, Jar, Refreshes, Outcomes
<1>4. asked \in Requests
  BY NotAskedTypes DEF TokenInit, Requests
<1>5. \A n \in Pairs : ~Rotated(n)
  BY <1>2 DEF Rotated
<1>6. RefreshInv /\ RequestInv /\ CookieInv
  BY <1>2, <1>5, NotAskedTypes DEF RefreshInv, RequestInv, CookieInv
<1>7. QED
  BY <1>3, <1>4, <1>5, <1>6 DEF IInv, TypeInv, InStep

LEMMA NextIInv == IInv /\ [TokenNext]_tokenVars => IInv'
<1> SUFFICES ASSUME IInv, [TokenNext]_tokenVars PROVE IInv'
  OBVIOUS
<1>1. ASSUME NEW n \in Pairs,
             \/ pruneRotatedRefreshResults(n) \/ ProviderRotates(n)
             \/ RefreshEnds(n) \/ RefreshTimesOut(n)
      PROVE  IInv'
  BY <1>1, PruneKeeps, ProviderRotatesKeeps, RefreshEndsKeeps, RefreshTimesOutKeeps
<1>2. ASSUME NEW t \in Tabs, NEW r \in Readers,
             \/ JwtCallback(t, r) \/ TakeRotated(t, r)
             \/ SessionArrives(t, r) \/ SessionFails(t, r)
      PROVE  IInv'
  BY <1>2, JwtCallbackKeeps, TakeRotatedKeeps, SessionArrivesKeeps, SessionFailsKeeps
<1>3. CASE UNCHANGED tokenVars
  BY <1>3, FrameKeeps DEF tokenVars, IInv, TypeInv
<1>4. CASE TokenNext
  BY <1>1, <1>2, <1>4, CallsKeep, TimeKeeps DEF TokenNext
<1>5. QED
  BY <1>3, <1>4

(***************************************************************************)
(* As long as nothing befell the cookie (mishap = {}), the provider is      *)
(* shown only its current refresh token, and the cookie is at most one      *)
(* rotation behind it with a request under way that brings the new pair:    *)
(* refreshInFlight and rotatedRefreshResults of auth.ts let any number of   *)
(* tabs, polls and calls present one pair while it is rotated.              *)
(***************************************************************************)
THEOREM TokensInStep == TokenSpec => []IInv
<1>1. QED
  BY InitIInv, NextIInv, PTL DEF TokenSpec

(***************************************************************************)
(* A refused refresh, the session's end, is never the tabs' own doing: it   *)
(* takes an answer with a new pair that was lost, or one with an older pair *)
(* that overwrote a newer cookie.                                           *)
(***************************************************************************)
THEOREM SessionLostOnlyWithCause == TokenSpec => []SessionLostHasCause
<1>1. IInv => SessionLostHasCause
  BY DEF IInv, InStep, RequestInv, CookieInv, SessionLostHasCause
<1>2. QED
  BY <1>1, TokensInStep, PTL

-----------------------------------------------------------------------------
(***************************************************************************)
(* The settings of the user.  A tab behind whose back nothing was changed  *)
(* is the only one that writes: what it shows is what is stored, but for   *)
(* the answer it still waits for (PromptsInv, SettingsInv).                *)
(***************************************************************************)
SettingsRows(n) == [configured : BOOLEAN, prompt : 0..n, mode : Modes]

EditOps == {"create", "edit", "delete"}
CallOps == {"none", "list", "get", "update", "start"} \cup EditOps
PromptArgs(n) == 0..n \cup {NoPrompt}
ModeArgs == Modes \cup {"none"}

Calls(n) ==
    [at : {"none", "sent", "checked", "answered", "refused"},
     op : CallOps, arg : PromptArgs(n), mode : ModeArgs,
     read : SettingsRows(n), list : SUBSET (0..n)]

Stores(n) ==
    [prompts : SUBSET (0..n), loaded : BOOLEAN, loading : BOOLEAN, prompt : 0..n,
     mode : Modes, hydrated : BOOLEAN, fetching : BOOLEAN, saving : BOOLEAN]

SettingsTypes ==
    /\ created \in Nat /\ promptRows \subseteq 0..created /\ Seeded \in promptRows
    /\ settingsRow \in SettingsRows(created) /\ settingsRow.prompt \in promptRows
    /\ ~settingsRow.configured => settingsRow = NoRow
    /\ legacy \in [prompt : {Seeded, NoPrompt}, mode : ModeArgs]
    /\ store \in [SettingsTabs -> Stores(created)]
    /\ requests \in [SettingsTabs -> [Ops -> Calls(created)]]
    /\ tainted \subseteq SettingsTabs

\* A call is of the kind of its place; a prompt that is changed is not the seeded one.
CallInv(o, c) ==
    c.at # "none" =>
        /\ o \in {"list", "relist"} => c.op = "list" /\ c.at \in {"sent", "answered"}
        /\ o = "get" => c.op \in {"get", "update"} /\ (c.op = "get" => c.at \in {"sent", "answered"})
        /\ o = "edit" =>
             /\ c.op \in EditOps /\ (c.op # "create" => c.arg # Seeded)
             /\ c.op # "create" \/ c.at = "answered" => c.arg # NoPrompt
        /\ o = "update" => c.op = "update"
        /\ o = "start" => c.op = "start"

\* A row that is the one stored, or was until its prompt was deleted.
Agrees(rows, row, x) ==
    /\ x.mode = row.mode
    /\ x.prompt = row.prompt \/ (x.prompt \notin rows /\ row.prompt = Seeded)

\* The prompts of the tab when the answer of its edit e has come.
PromptsAfter(e, prompts) ==
    IF e.at # "answered" THEN prompts
    ELSE CASE e.op = "create" -> prompts \cup {e.arg}
           [] e.op = "delete" -> prompts \ {e.arg}
           [] OTHER -> prompts

PromptsInv(rows, e, s) ==
    /\ PromptsAfter(e, s.prompts) \subseteq rows
    /\ s.loaded => PromptsAfter(e, s.prompts) = rows
    /\ e.at = "checked" /\ e.op = "edit" => e.arg \in rows
    /\ e.at = "answered" /\ e.op = "create" => e.arg \in rows
    /\ e.at = "answered" /\ e.op = "delete" => e.arg \notin rows

SettingsInv(rows, row, g, u, s) ==
    /\ ~s.hydrated => u.at = "none" /\ s.prompt = Seeded
    /\ s.hydrated => g.at = "none"
    /\ g.op = "get" /\ g.at = "answered" =>
         Agrees(rows, row, g.read) /\ g.read.configured = row.configured
    /\ g.op = "update" /\ g.at \in {"sent", "checked", "refused"} => ~row.configured
    /\ g.op = "update" /\ g.at = "answered" => Agrees(rows, row, g.read)
    /\ s.hydrated /\ u.at # "answered" => Agrees(rows, row, s)
    /\ u.at = "answered" => Agrees(rows, row, u.read)

InStepWith(rows, row, q, s) ==
    PromptsInv(rows, q["edit"], s) /\ SettingsInv(rows, row, q["get"], q["update"], s)

SettingsAgree ==
    /\ SettingsTypes
    /\ \A t \in SettingsTabs, o \in Ops : CallInv(o, requests[t][o])
    /\ \A t \in SettingsTabs \ tainted : InStepWith(promptRows, settingsRow, requests[t], store[t])

-----------------------------------------------------------------------------
\* The call p of the tab t when its call o has become c.
After(t, o, c, p) == IF p = o THEN c ELSE requests[t][p]

AgreesAfter(rows, row, t, o, c, s) ==
    /\ PromptsInv(rows, After(t, o, c, "edit"), s)
    /\ SettingsInv(rows, row, After(t, o, c, "get"), After(t, o, c, "update"), s)

LEMMA SettingsTypesGrow ==
    ASSUME NEW n \in Nat, NEW m \in Nat, n <= m
    PROVE  Calls(n) \subseteq Calls(m) /\ Stores(n) \subseteq Stores(m)
           /\ SettingsRows(n) \subseteq SettingsRows(m)
BY DEF Calls, Stores, SettingsRows, PromptArgs

\* What a step of the tab t has to show for itself: the other tabs see nothing
\* of it, or are told.
LEMMA TabStep ==
    ASSUME SettingsAgree, NEW t \in SettingsTabs, NEW q, NEW s,
           requests' = [requests EXCEPT ![t] = q], store' = [store EXCEPT ![t] = s],
           created' \in Nat, created <= created',
           promptRows' \subseteq 0..created', Seeded \in promptRows',
           settingsRow' \in SettingsRows(created'), settingsRow'.prompt \in promptRows',
           ~settingsRow'.configured => settingsRow' = NoRow,
           legacy' \in [prompt : {Seeded, NoPrompt}, mode : ModeArgs],
           q \in [Ops -> Calls(created')], s \in Stores(created'),
           \A o \in Ops : CallInv(o, q[o]),
           tainted \subseteq tainted', tainted' \subseteq SettingsTabs,
           (promptRows' = promptRows /\ settingsRow' = settingsRow) \/ OtherTabs(t) \subseteq tainted',
           t \notin tainted' => InStepWith(promptRows', settingsRow', q, s)
    PROVE  SettingsAgree'
<1>1. SettingsTypes'
  <2>1. Calls(created) \subseteq Calls(created') /\ Stores(created) \subseteq Stores(created')
    BY SettingsTypesGrow DEF SettingsAgree, SettingsTypes
  <2>2. requests \in [SettingsTabs -> [Ops -> Calls(created')]]
    BY <2>1 DEF SettingsAgree, SettingsTypes
  <2>3. store \in [SettingsTabs -> Stores(created')]
    BY <2>1 DEF SettingsAgree, SettingsTypes
  <2> QED
    BY <2>2, <2>3 DEF SettingsTypes
<1>2. requests'[t] = q /\ store'[t] = s
  BY DEF SettingsAgree, SettingsTypes
<1>3. \A x \in SettingsTabs \ {t} : requests'[x] = requests[x] /\ store'[x] = store[x]
  BY DEF SettingsAgree, SettingsTypes
<1>4. \A x \in SettingsTabs, o \in Ops : CallInv(o, requests'[x][o])
  BY <1>2, <1>3 DEF SettingsAgree
<1>5. ASSUME NEW x \in SettingsTabs \ tainted'
      PROVE  InStepWith(promptRows', settingsRow', requests'[x], store'[x])
  <2>1. CASE x = t
    BY <1>2, <2>1, <1>5
  <2>2. CASE x # t
    <3>1. promptRows' = promptRows /\ settingsRow' = settingsRow
      BY <2>2, <1>5 DEF OtherTabs
    <3>2. requests'[x] = requests[x] /\ store'[x] = store[x]
      BY <1>3, <2>2
    <3> QED
      BY <3>1, <3>2, <1>5 DEF SettingsAgree
  <2> QED
    BY <2>1, <2>2
<1> QED
  BY <1>1, <1>4, <1>5 DEF SettingsAgree

\* The same for a step that changes one call, o.
LEMMA CallStep ==
    ASSUME SettingsAgree, NEW t \in SettingsTabs, NEW o \in Ops, NEW c, NEW s,
           requests' = [requests EXCEPT ![t][o] = c], store' = [store EXCEPT ![t] = s],
           created' \in Nat, created <= created',
           promptRows' \subseteq 0..created', Seeded \in promptRows',
           settingsRow' \in SettingsRows(created'), settingsRow'.prompt \in promptRows',
           ~settingsRow'.configured => settingsRow' = NoRow,
           legacy' \in [prompt : {Seeded, NoPrompt}, mode : ModeArgs],
           c \in Calls(created'), s \in Stores(created'), CallInv(o, c),
           tainted \subseteq tainted', tainted' \subseteq SettingsTabs,
           (promptRows' = promptRows /\ settingsRow' = settingsRow) \/ OtherTabs(t) \subseteq tainted',
           t \notin tainted' => AgreesAfter(promptRows', settingsRow', t, o, c, s)
    PROVE  SettingsAgree'
<1> DEFINE q == [requests[t] EXCEPT ![o] = c]
<1>1. requests' = [requests EXCEPT ![t] = q]
  OBVIOUS
<1>2. requests[t] \in [Ops -> Calls(created')]
  BY SettingsTypesGrow DEF SettingsAgree, SettingsTypes
<1>3. q \in [Ops -> Calls(created')]
  BY <1>2
<1>4. \A p \in Ops : CallInv(p, q[p])
  BY <1>2 DEF SettingsAgree
<1>5. \A p \in Ops : q[p] = After(t, o, c, p)
  BY <1>2 DEF After
<1> HIDE DEF q
<1>6. t \notin tainted' => InStepWith(promptRows', settingsRow', q, s)
  BY <1>5 DEF InStepWith, AgreesAfter, Ops
<1> QED
  BY <1>1, <1>3, <1>4, <1>6, TabStep, Zenon

\* A step that leaves the server, and what the tabs know of each other, alone.
LEMMA PageStep ==
    ASSUME SettingsAgree, NEW t \in SettingsTabs, NEW o \in Ops, NEW c, NEW s,
           requests' = [requests EXCEPT ![t][o] = c], store' = [store EXCEPT ![t] = s],
           UNCHANGED <<promptRows, settingsRow, created>>,
           legacy' \in [prompt : {Seeded, NoPrompt}, mode : ModeArgs],
           c \in Calls(created), s \in Stores(created), CallInv(o, c),
           tainted' = tainted \/ tainted' = tainted \cup {t},
           t \notin tainted' => AgreesAfter(promptRows, settingsRow, t, o, c, s)
    PROVE  SettingsAgree'
<1>1. tainted \subseteq tainted' /\ tainted' \subseteq SettingsTabs
  BY DEF SettingsAgree, SettingsTypes
<1>2. /\ created' \in Nat /\ created <= created'
      /\ promptRows' \subseteq 0..created' /\ Seeded \in promptRows'
      /\ settingsRow' \in SettingsRows(created') /\ settingsRow'.prompt \in promptRows'
      /\ ~settingsRow'.configured => settingsRow' = NoRow
  BY DEF SettingsAgree, SettingsTypes
<1>3. c \in Calls(created') /\ s \in Stores(created')
  OBVIOUS
<1>4. t \notin tainted' => AgreesAfter(promptRows', settingsRow', t, o, c, s)
  OBVIOUS
<1> QED
  BY <1>1, <1>2, <1>3, <1>4, CallStep

\* The facts about one tab that the steps use.
LEMMA TabFacts ==
    ASSUME SettingsAgree, NEW t \in SettingsTabs
    PROVE  /\ store[t] \in Stores(created) /\ requests[t] \in [Ops -> Calls(created)]
           /\ \A o \in Ops : requests[t][o] \in Calls(created) /\ CallInv(o, requests[t][o])
           /\ legacy \in [prompt : {Seeded, NoPrompt}, mode : ModeArgs]
           /\ created \in Nat /\ promptRows \subseteq 0..created /\ Seeded \in promptRows
           /\ settingsRow \in SettingsRows(created) /\ settingsRow.prompt \in promptRows
           /\ ~settingsRow.configured => settingsRow = NoRow
           /\ t \notin tainted =>
                /\ PromptsInv(promptRows, requests[t]["edit"], store[t])
                /\ SettingsInv(promptRows, settingsRow,
                               requests[t]["get"], requests[t]["update"], store[t])
BY DEF SettingsAgree, SettingsTypes, InStepWith

-----------------------------------------------------------------------------
LEMMA NoCallTypes ==
    ASSUME NEW n \in Nat
    PROVE  NoCall \in Calls(n)
BY DEF NoCall, NoRow, Calls, SettingsRows, Modes, Seeded, CallOps, PromptArgs, ModeArgs

LEMMA RequestTypes ==
    ASSUME NEW n \in Nat, NEW op \in CallOps, NEW arg \in PromptArgs(n), NEW mode \in ModeArgs
    PROVE  /\ Request(op, arg, mode) \in Calls(n) /\ Request(op, arg, mode).at = "sent"
           /\ Request(op, arg, mode).op = op /\ Request(op, arg, mode).arg = arg
BY NoCallTypes DEF Request, Calls

LEMMA FetchPromptsAgrees ==
    ASSUME SettingsAgree, NEW t \in SettingsTabs, fetchPrompts(t)
    PROVE  SettingsAgree'
<1>1. PICK o \in {"list", "relist"} :
        Send(t, o, Request("list", NoPrompt, "none"), [store[t] EXCEPT !.loading = TRUE])
  BY DEF fetchPrompts
<1> DEFINE c == Request("list", NoPrompt, "none")
           s == [store[t] EXCEPT !.loading = TRUE]
<1>2. c \in Calls(created) /\ c.at = "sent" /\ c.op = "list"
  <2>1. created \in Nat /\ "list" \in CallOps /\ NoPrompt \in PromptArgs(created) /\ "none" \in ModeArgs
    BY TabFacts DEF CallOps, PromptArgs, ModeArgs, EditOps
  <2> QED
    BY <2>1, RequestTypes
<1>3. s \in Stores(created)
  BY TabFacts DEF Stores
<1>4. o \in Ops /\ CallInv(o, c)
  BY <1>2 DEF CallInv, Ops
<1>5. ASSUME t \notin tainted
      PROVE  AgreesAfter(promptRows, settingsRow, t, o, c, s)
  <2> DEFINE r == store[t]
  <2>1. /\ s.prompts = r.prompts /\ s.loaded = r.loaded /\ s.prompt = r.prompt /\ s.mode = r.mode
        /\ s.hydrated = r.hydrated
    BY TabFacts DEF Stores
  <2> HIDE DEF c, s
  <2>3. PromptsInv(promptRows, After(t, o, c, "edit"), s)
    BY <1>1, <1>2, <1>5, <2>1, TabFacts DEF PromptsInv, PromptsAfter, After
  <2>4. SettingsInv(promptRows, settingsRow,
                    After(t, o, c, "get"), After(t, o, c, "update"), s)
    BY <1>1, <1>2, <1>5, <2>1, TabFacts DEF SettingsInv, Agrees, After
  <2> QED
    BY <2>3, <2>4 DEF AgreesAfter
<1>6. UNCHANGED <<promptRows, settingsRow, created, legacy, tainted>>
  BY DEF fetchPrompts, Server
<1>7. requests' = [requests EXCEPT ![t][o] = c] /\ store' = [store EXCEPT ![t] = s]
  BY <1>1 DEF Send
<1> HIDE DEF c, s
<1> QED
  BY <1>2, <1>3, <1>4, <1>5, <1>6, <1>7, PageStep, TabFacts

LEMMA FetchSettingsAgrees ==
    ASSUME SettingsAgree, NEW t \in SettingsTabs, fetchSettings(t)
    PROVE  SettingsAgree'
<1> DEFINE c == Request("get", NoPrompt, "none")
           s == [store[t] EXCEPT !.fetching = TRUE]
<1>2. c \in Calls(created) /\ c.at = "sent" /\ c.op = "get"
  <2>1. created \in Nat /\ "get" \in CallOps /\ NoPrompt \in PromptArgs(created) /\ "none" \in ModeArgs
    BY TabFacts DEF CallOps, PromptArgs, ModeArgs, EditOps
  <2> QED
    BY <2>1, RequestTypes
<1>3. s \in Stores(created)
  BY TabFacts DEF Stores
<1>4. "get" \in Ops /\ CallInv("get", c)
  BY <1>2 DEF CallInv, Ops
<1>5. ASSUME t \notin tainted
      PROVE  AgreesAfter(promptRows, settingsRow, t, "get", c, s)
  <2> DEFINE r == store[t]
  <2>1. /\ s.prompts = r.prompts /\ s.loaded = r.loaded /\ s.prompt = r.prompt /\ s.mode = r.mode
        /\ s.hydrated = r.hydrated
    BY TabFacts DEF Stores
  <2>2. ~r.hydrated
    BY DEF fetchSettings
  <2> HIDE DEF c, s
  <2>3. PromptsInv(promptRows, After(t, "get", c, "edit"), s)
    BY <1>2, <1>5, <2>1, <2>2, TabFacts DEF PromptsInv, PromptsAfter, After
  <2>4. SettingsInv(promptRows, settingsRow,
                    After(t, "get", c, "get"), After(t, "get", c, "update"), s)
    BY <1>2, <1>5, <2>1, <2>2, TabFacts DEF SettingsInv, Agrees, After
  <2> QED
    BY <2>3, <2>4 DEF AgreesAfter
<1>6. UNCHANGED <<promptRows, settingsRow, created, legacy, tainted>>
  BY DEF fetchSettings, Server
<1>7. requests' = [requests EXCEPT ![t]["get"] = c] /\ store' = [store EXCEPT ![t] = s]
  BY DEF fetchSettings, Send
<1> HIDE DEF c, s
<1> QED
  BY <1>2, <1>3, <1>4, <1>5, <1>6, <1>7, PageStep, TabFacts

LEMMA EditPromptAgrees ==
    ASSUME SettingsAgree, NEW t \in SettingsTabs, EditPrompt(t)
    PROVE  SettingsAgree'
<1>1. PICK op \in EditOps, p \in PromptArgs(created) :
        /\ op # "create" => p \notin {Seeded, NoPrompt}
        /\ Send(t, "edit", Request(op, p, "none"), [store[t] EXCEPT !.loading = TRUE])
  <2>1. CASE Send(t, "edit", Request("create", NoPrompt, "none"), [store[t] EXCEPT !.loading = TRUE])
    BY <2>1 DEF EditOps, PromptArgs
  <2>2. ASSUME NEW p \in store[t].prompts \ {Seeded}, NEW op \in {"edit", "delete"},
               Send(t, "edit", Request(op, p, "none"), [store[t] EXCEPT !.loading = TRUE])
        PROVE  \E k \in EditOps, x \in PromptArgs(created) :
                 /\ k # "create" => x \notin {Seeded, NoPrompt}
                 /\ Send(t, "edit", Request(k, x, "none"), [store[t] EXCEPT !.loading = TRUE])
    <3>1. p \in 0..created /\ p # Seeded /\ p # NoPrompt /\ op \in EditOps
      BY <2>2, TabFacts DEF Stores, EditOps, NoPrompt
    <3> QED
      BY <3>1, <2>2 DEF PromptArgs
  <2> QED
    BY <2>1, <2>2 DEF EditPrompt
<1> DEFINE c == Request(op, p, "none")
           s == [store[t] EXCEPT !.loading = TRUE]
<1>2. c \in Calls(created) /\ c.at = "sent" /\ c.op = op /\ c.arg = p
  <2>1. created \in Nat /\ op \in CallOps /\ p \in PromptArgs(created) /\ "none" \in ModeArgs
    BY <1>1, TabFacts DEF CallOps, PromptArgs, ModeArgs, EditOps
  <2> QED
    BY <2>1, RequestTypes
<1>3. s \in Stores(created)
  BY TabFacts DEF Stores
<1>4. "edit" \in Ops /\ CallInv("edit", c)
  BY <1>1, <1>2 DEF CallInv, Ops
<1>5. ASSUME t \notin tainted
      PROVE  AgreesAfter(promptRows, settingsRow, t, "edit", c, s)
  <2> DEFINE r == store[t]
  <2>1. /\ s.prompts = r.prompts /\ s.loaded = r.loaded /\ s.prompt = r.prompt /\ s.mode = r.mode
        /\ s.hydrated = r.hydrated
    BY TabFacts DEF Stores
  <2>2. requests[t]["edit"].at = "none"
    BY <1>1 DEF Send, Free
  <2> HIDE DEF c, s
  <2>3. PromptsInv(promptRows, After(t, "edit", c, "edit"), s)
    BY <1>2, <1>5, <2>1, <2>2, TabFacts DEF PromptsInv, PromptsAfter, After
  <2>4. SettingsInv(promptRows, settingsRow,
                    After(t, "edit", c, "get"), After(t, "edit", c, "update"), s)
    BY <1>2, <1>5, <2>1, <2>2, TabFacts DEF SettingsInv, Agrees, After
  <2> QED
    BY <2>3, <2>4 DEF AgreesAfter
<1>6. UNCHANGED <<promptRows, settingsRow, created, legacy, tainted>>
  BY DEF EditPrompt, Server
<1>7. requests' = [requests EXCEPT ![t]["edit"] = c] /\ store' = [store EXCEPT ![t] = s]
  BY <1>1 DEF Send
<1> HIDE DEF c, s
<1> QED
  BY <1>2, <1>3, <1>4, <1>5, <1>6, <1>7, PageStep, TabFacts

LEMMA UpdateSettingsAgrees ==
    ASSUME SettingsAgree, NEW t \in SettingsTabs, updateSettings(t)
    PROVE  SettingsAgree'
<1>1. PICK p \in PromptArgs(created), m \in ModeArgs :
        Send(t, "update", Request("update", p, m), [store[t] EXCEPT !.saving = TRUE])
  <2>1. CASE \E m \in Modes \ {store[t].mode} :
               Send(t, "update", Request("update", NoPrompt, m), [store[t] EXCEPT !.saving = TRUE])
    BY <2>1 DEF PromptArgs, ModeArgs
  <2>2. CASE \E p \in store[t].prompts :
               Send(t, "update", Request("update", p, "none"), [store[t] EXCEPT !.saving = TRUE])
    BY <2>2, TabFacts DEF Stores, PromptArgs, ModeArgs
  <2> QED
    BY <2>1, <2>2 DEF updateSettings
<1> DEFINE c == Request("update", p, m)
           s == [store[t] EXCEPT !.saving = TRUE]
<1>2. c \in Calls(created) /\ c.at = "sent" /\ c.op = "update"
  <2>1. created \in Nat /\ "update" \in CallOps /\ p \in PromptArgs(created) /\ m \in ModeArgs
    BY <1>1, TabFacts DEF CallOps, PromptArgs, ModeArgs, EditOps
  <2> QED
    BY <2>1, RequestTypes
<1>3. s \in Stores(created)
  BY TabFacts DEF Stores
<1>4. "update" \in Ops /\ CallInv("update", c)
  BY <1>2 DEF CallInv, Ops
<1>5. ASSUME t \notin tainted
      PROVE  AgreesAfter(promptRows, settingsRow, t, "update", c, s)
  <2> DEFINE r == store[t]
  <2>1. /\ s.prompts = r.prompts /\ s.loaded = r.loaded /\ s.prompt = r.prompt /\ s.mode = r.mode
        /\ s.hydrated = r.hydrated
    BY TabFacts DEF Stores
  <2>2. r.hydrated /\ requests[t]["update"].at = "none"
    BY <1>1 DEF updateSettings, Send, Free
  <2> HIDE DEF c, s
  <2>3. PromptsInv(promptRows, After(t, "update", c, "edit"), s)
    BY <1>2, <1>5, <2>1, <2>2, TabFacts DEF PromptsInv, PromptsAfter, After
  <2>4. SettingsInv(promptRows, settingsRow,
                    After(t, "update", c, "get"), After(t, "update", c, "update"), s)
    BY <1>2, <1>5, <2>1, <2>2, TabFacts DEF SettingsInv, Agrees, After
  <2> QED
    BY <2>3, <2>4 DEF AgreesAfter
<1>6. UNCHANGED <<promptRows, settingsRow, created, legacy, tainted>>
  BY DEF updateSettings, Server
<1>7. requests' = [requests EXCEPT ![t]["update"] = c] /\ store' = [store EXCEPT ![t] = s]
  BY <1>1 DEF Send
<1> HIDE DEF c, s
<1> QED
  BY <1>2, <1>3, <1>4, <1>5, <1>6, <1>7, PageStep, TabFacts

LEMMA StartMeetingAgrees ==
    ASSUME SettingsAgree, NEW t \in SettingsTabs, startMeeting(t)
    PROVE  SettingsAgree'
<1> DEFINE c == Request("start", ResolvedPrompt(t), "none")
           s == store[t]
<1>1. ResolvedPrompt(t) \in 0..created
  BY TabFacts DEF ResolvedPrompt, Stores, Seeded
<1>2. c \in Calls(created) /\ c.at = "sent" /\ c.op = "start"
  <2>1. /\ created \in Nat /\ "start" \in CallOps /\ ResolvedPrompt(t) \in PromptArgs(created)
        /\ "none" \in ModeArgs
    BY <1>1, TabFacts DEF CallOps, PromptArgs, ModeArgs, EditOps
  <2> QED
    BY <2>1, RequestTypes
<1>3. s \in Stores(created)
  BY TabFacts
<1>4. "start" \in Ops /\ CallInv("start", c)
  BY <1>2 DEF CallInv, Ops
<1>5. ASSUME t \notin tainted
      PROVE  AgreesAfter(promptRows, settingsRow, t, "start", c, s)
  <2> DEFINE r == store[t]
  <2>1. /\ s.prompts = r.prompts /\ s.loaded = r.loaded /\ s.prompt = r.prompt /\ s.mode = r.mode
        /\ s.hydrated = r.hydrated
    BY TabFacts DEF Stores
  <2> HIDE DEF c, s
  <2>3. PromptsInv(promptRows, After(t, "start", c, "edit"), s)
    BY <1>2, <1>5, <2>1, TabFacts DEF PromptsInv, PromptsAfter, After
  <2>4. SettingsInv(promptRows, settingsRow,
                    After(t, "start", c, "get"), After(t, "start", c, "update"), s)
    BY <1>2, <1>5, <2>1, TabFacts DEF SettingsInv, Agrees, After
  <2> QED
    BY <2>3, <2>4 DEF AgreesAfter
<1>6. UNCHANGED <<promptRows, settingsRow, created, legacy, tainted>>
  BY DEF startMeeting, Server
<1>7. requests' = [requests EXCEPT ![t]["start"] = c] /\ store' = [store EXCEPT ![t] = s]
  BY DEF startMeeting, Send
<1> HIDE DEF c, s
<1> QED
  BY <1>2, <1>3, <1>4, <1>5, <1>6, <1>7, PageStep, TabFacts

-----------------------------------------------------------------------------
LEMMA ReplyStep ==
    ASSUME SettingsAgree, NEW t \in SettingsTabs, NEW o \in Ops, NEW c, Reply(t, o, c),
           UNCHANGED <<store, promptRows, settingsRow, created, legacy, tainted>>,
           c \in Calls(created), CallInv(o, c),
           t \notin tainted => AgreesAfter(promptRows, settingsRow, t, o, c, store[t])
    PROVE  SettingsAgree'
<1>1. store' = [store EXCEPT ![t] = store[t]]
  BY DEF SettingsAgree, SettingsTypes
<1>2. store[t] \in Stores(created)
  BY TabFacts
<1>3. requests' = [requests EXCEPT ![t][o] = c]
  BY DEF Reply
<1>4. legacy' \in [prompt : {Seeded, NoPrompt}, mode : ModeArgs]
  BY TabFacts
<1> QED
  BY <1>1, <1>2, <1>3, <1>4, PageStep

LEMMA ServeAgrees ==
    ASSUME SettingsAgree, NEW t \in SettingsTabs, NEW o \in Ops, Serve(t, o)
    PROVE  SettingsAgree'
<1> DEFINE c == requests[t][o]
           d == IF c.op = "list" THEN [c EXCEPT !.at = "answered", !.list = promptRows]
                ELSE [c EXCEPT !.at = "answered", !.read = settingsRow]
<1>1. c.at = "sent" /\ c.op \in {"list", "get"} /\ Reply(t, o, d)
  BY DEF Serve
<1>2. c \in Calls(created) /\ CallInv(o, c)
  BY TabFacts
<1>3. /\ d \in Calls(created) /\ d.at = "answered" /\ d.op = c.op
      /\ d.op = "get" => d.read = settingsRow
  BY <1>1, <1>2, TabFacts DEF Calls
<1> HIDE DEF c, d
<1>4. CallInv(o, d)
  BY <1>1, <1>2, <1>3 DEF CallInv, EditOps
<1>5. ASSUME t \notin tainted PROVE AgreesAfter(promptRows, settingsRow, t, o, d, store[t])
  <2>1. o # "edit" /\ o # "update"
    BY <1>1, <1>2 DEF CallInv, EditOps
  <2>2. PromptsInv(promptRows, After(t, o, d, "edit"), store[t])
    BY <1>5, <2>1, TabFacts DEF After
  <2>3. SettingsInv(promptRows, settingsRow, After(t, o, d, "get"), After(t, o, d, "update"), store[t])
    BY <1>1, <1>3, <1>5, <2>1, TabFacts DEF SettingsInv, Agrees, After, c
  <2> QED
    BY <2>2, <2>3 DEF AgreesAfter
<1>6. UNCHANGED <<store, promptRows, settingsRow, created, legacy, tainted>>
  BY DEF Serve, Server
<1> QED
  BY <1>1, <1>3, <1>4, <1>5, <1>6, ReplyStep

LEMMA ChecksAgrees ==
    ASSUME SettingsAgree, NEW t \in SettingsTabs, NEW o \in Ops, Checks(t, o)
    PROVE  SettingsAgree'
<1> DEFINE c == requests[t][o]
<1>1. PICK d : /\ Reply(t, o, d)
               /\ \/ d = [c EXCEPT !.at = "refused"]
                  \/ /\ d = [c EXCEPT !.at = "checked", !.read = settingsRow]
                     /\ c.arg = NoPrompt \/ c.arg \in promptRows
  BY DEF Checks
<1>2. /\ c \in Calls(created) /\ CallInv(o, c) /\ c.at = "sent"
      /\ c.op \in {"edit", "delete", "update", "start"}
  BY TabFacts DEF Checks
<1>3. /\ d \in Calls(created) /\ d.at \in {"refused", "checked"} /\ d.op = c.op /\ d.arg = c.arg
      /\ d.at = "checked" => c.arg = NoPrompt \/ c.arg \in promptRows
  BY <1>1, <1>2, TabFacts DEF Calls
<1> HIDE DEF c
<1>4. CallInv(o, d)
  BY <1>2, <1>3 DEF CallInv, EditOps
<1>5. ASSUME t \notin tainted PROVE AgreesAfter(promptRows, settingsRow, t, o, d, store[t])
  <2>2. PromptsInv(promptRows, After(t, o, d, "edit"), store[t])
    BY <1>2, <1>3, <1>5, TabFacts DEF PromptsInv, PromptsAfter, After, c, CallInv
  <2>3. SettingsInv(promptRows, settingsRow, After(t, o, d, "get"), After(t, o, d, "update"), store[t])
    BY <1>2, <1>3, <1>5, TabFacts DEF SettingsInv, Agrees, After, c, CallInv
  <2> QED
    BY <2>2, <2>3 DEF AgreesAfter
<1>6. UNCHANGED <<store, promptRows, settingsRow, created, legacy, tainted>>
  BY DEF Checks, Server
<1> QED
  BY <1>1, <1>3, <1>4, <1>5, <1>6, ReplyStep

\* The steps that write: they tell every other tab.
LEMMA WriteStep ==
    ASSUME SettingsAgree, NEW t \in SettingsTabs, NEW o \in Ops, NEW c, Reply(t, o, c),
           UNCHANGED <<store, legacy>>, tainted' = tainted \cup OtherTabs(t),
           created' \in Nat, created <= created',
           promptRows' \subseteq 0..created', Seeded \in promptRows',
           settingsRow' \in SettingsRows(created'), settingsRow'.prompt \in promptRows',
           ~settingsRow'.configured => settingsRow' = NoRow,
           c \in Calls(created'), CallInv(o, c),
           t \notin tainted => AgreesAfter(promptRows', settingsRow', t, o, c, store[t])
    PROVE  SettingsAgree'
<1>1. store' = [store EXCEPT ![t] = store[t]]
  BY DEF SettingsAgree, SettingsTypes
<1>2. store[t] \in Stores(created')
  BY TabFacts, SettingsTypesGrow
<1>3. requests' = [requests EXCEPT ![t][o] = c]
  BY DEF Reply
<1>4. legacy' \in [prompt : {Seeded, NoPrompt}, mode : ModeArgs]
  BY TabFacts
<1>5. tainted \subseteq tainted' /\ tainted' \subseteq SettingsTabs /\ OtherTabs(t) \subseteq tainted'
  BY DEF OtherTabs, SettingsAgree, SettingsTypes
<1>6. t \notin tainted' => AgreesAfter(promptRows', settingsRow', t, o, c, store[t])
  BY <1>5
<1> QED
  BY <1>1, <1>2, <1>3, <1>4, <1>5, <1>6, CallStep

LEMMA CreateAgrees ==
    ASSUME SettingsAgree, NEW t \in SettingsTabs, Create(t)
    PROVE  SettingsAgree'
<1> DEFINE c == requests[t]["edit"]
           d == [c EXCEPT !.at = "answered", !.arg = created + 1]
<1>1. /\ c.at = "sent" /\ c.op = "create" /\ created' = created + 1
      /\ promptRows' = promptRows \cup {created + 1} /\ Reply(t, "edit", d)
      /\ tainted' = tainted \cup OtherTabs(t)
      /\ UNCHANGED <<settingsRow, legacy, store>>
  BY DEF Create
<1>2. "edit" \in Ops /\ created \in Nat
  BY TabFacts DEF Ops
<1>3. c \in Calls(created') /\ created + 1 \in 0..created'
  BY <1>1, <1>2, TabFacts, SettingsTypesGrow
<1>4. /\ d \in Calls(created') /\ d.at = "answered" /\ d.op = "create" /\ d.arg = created + 1
  <2> HIDE DEF c
  <2>1. c.op = "create"
    BY <1>1
  <2> QED
    BY <2>1, <1>3 DEF Calls, PromptArgs
<1>5. /\ created' \in Nat /\ created <= created'
      /\ promptRows' \subseteq 0..created' /\ Seeded \in promptRows'
      /\ settingsRow' \in SettingsRows(created') /\ settingsRow'.prompt \in promptRows'
      /\ ~settingsRow'.configured => settingsRow' = NoRow
  BY <1>1, TabFacts, SettingsTypesGrow
<1> HIDE DEF c, d
<1>6. CallInv("edit", d)
  BY <1>2, <1>4 DEF CallInv, EditOps, NoPrompt
<1>7. ASSUME t \notin tainted PROVE AgreesAfter(promptRows', settingsRow', t, "edit", d, store[t])
  <2>1. PromptsInv(promptRows', d, store[t])
    BY <1>1, <1>4, <1>7, TabFacts DEF PromptsInv, PromptsAfter, c
  <2>2. SettingsInv(promptRows', settingsRow', requests[t]["get"], requests[t]["update"], store[t])
    <3>1. /\ requests[t]["get"] \in Calls(created) /\ requests[t]["update"] \in Calls(created)
          /\ store[t] \in Stores(created)
      BY TabFacts DEF Ops
    <3>2. \A x : x.prompt \in 0..created /\ Agrees(promptRows, settingsRow, x) =>
            Agrees(promptRows', settingsRow', x)
      BY <1>1, <1>2 DEF Agrees
    <3>3. /\ requests[t]["get"].read.prompt \in 0..created
          /\ requests[t]["update"].read.prompt \in 0..created /\ store[t].prompt \in 0..created
      BY <3>1 DEF Calls, Stores, SettingsRows
    <3> QED
      BY <1>1, <1>7, <3>2, <3>3, TabFacts DEF SettingsInv
  <2> QED
    BY <2>1, <2>2 DEF AgreesAfter, After
<1> QED
  BY <1>1, <1>2, <1>4, <1>5, <1>6, <1>7, WriteStep

LEMMA SavePromptAgrees ==
    ASSUME SettingsAgree, NEW t \in SettingsTabs, SavePrompt(t)
    PROVE  SettingsAgree'
<1> DEFINE c == requests[t]["edit"]
           d == [c EXCEPT !.at = "answered"]
<1>1. /\ c.at = "checked" /\ c.op = "edit" /\ created' = created
      /\ promptRows' = promptRows \cup {c.arg} /\ Reply(t, "edit", d)
      /\ tainted' = tainted \cup OtherTabs(t)
      /\ UNCHANGED <<settingsRow, legacy, store>>
  BY DEF SavePrompt
<1>2. "edit" \in Ops /\ c \in Calls(created) /\ CallInv("edit", c)
  BY TabFacts DEF Ops
<1>3. /\ d \in Calls(created) /\ d.at = "answered" /\ d.op = "edit" /\ d.arg = c.arg
      /\ c.arg \in 0..created
  BY <1>1, <1>2 DEF Calls, CallInv, EditOps, PromptArgs
<1>4. /\ created' \in Nat /\ created <= created'
      /\ promptRows' \subseteq 0..created' /\ Seeded \in promptRows'
      /\ settingsRow' \in SettingsRows(created') /\ settingsRow'.prompt \in promptRows'
      /\ ~settingsRow'.configured => settingsRow' = NoRow
  BY <1>1, <1>3, TabFacts
<1> HIDE DEF c, d
<1>5. CallInv("edit", d)
  BY <1>1, <1>2, <1>3 DEF CallInv
<1>6. ASSUME t \notin tainted PROVE AgreesAfter(promptRows', settingsRow', t, "edit", d, store[t])
  <2>1. promptRows' = promptRows
    BY <1>1, <1>6, TabFacts DEF PromptsInv, c
  <2>2. PromptsInv(promptRows, d, store[t])
    BY <1>1, <1>3, <1>6, TabFacts DEF PromptsInv, PromptsAfter, c
  <2> QED
    BY <1>1, <1>6, <2>1, <2>2, TabFacts DEF AgreesAfter, After
<1>7. d \in Calls(created')
  BY <1>1, <1>3
<1> QED
  BY <1>1, <1>2, <1>4, <1>5, <1>6, <1>7, WriteStep

\* A row that agreed with the settings before the prompt p is deleted agrees with them after.
LEMMA AgreesWithout ==
    ASSUME NEW rows, NEW row, NEW x, NEW p, p # Seeded, Agrees(rows, row, x), NEW new,
           new.mode = row.mode,
           new.prompt = IF row.prompt = p THEN Seeded ELSE row.prompt
    PROVE  Agrees(rows \ {p}, new, x)
BY DEF Agrees

LEMMA DeletePromptAgrees ==
    ASSUME SettingsAgree, NEW t \in SettingsTabs, DeletePrompt(t)
    PROVE  SettingsAgree'
<1> DEFINE c == requests[t]["edit"]
           refused == [c EXCEPT !.at = "refused"]
           d == [c EXCEPT !.at = "answered"]
<1>1. /\ c.at = "checked" /\ c.op = "delete" /\ created' = created
      /\ tainted' = tainted \cup OtherTabs(t) /\ UNCHANGED <<legacy, store>>
  BY DEF DeletePrompt
<1>2. "edit" \in Ops /\ c \in Calls(created) /\ CallInv("edit", c)
  BY TabFacts DEF Ops
<1>3. c.arg # Seeded /\ c.arg # NoPrompt
  BY <1>1, <1>2 DEF CallInv
<1>4. CASE Reply(t, "edit", refused) /\ UNCHANGED <<promptRows, settingsRow>>
  <2>1. /\ refused \in Calls(created) /\ refused.at = "refused" /\ refused.op = "delete"
        /\ refused.arg = c.arg
    BY <1>1, <1>2 DEF Calls
  <2> HIDE DEF refused, c
  <2>2. CallInv("edit", refused)
    BY <1>1, <1>2, <2>1 DEF CallInv
  <2>3. ASSUME t \notin tainted
        PROVE  AgreesAfter(promptRows', settingsRow', t, "edit", refused, store[t])
    <3>1. PromptsInv(promptRows, refused, store[t])
      BY <1>1, <2>1, <2>3, TabFacts DEF PromptsInv, PromptsAfter, c
    <3> QED
      BY <1>4, <2>3, <3>1, TabFacts DEF AgreesAfter, After
  <2> QED
    BY <1>1, <1>2, <1>4, <2>1, <2>2, <2>3, TabFacts, WriteStep
<1>5. CASE /\ promptRows' = promptRows \ {c.arg}
           /\ settingsRow' = IF settingsRow.prompt = c.arg
                             THEN [settingsRow EXCEPT !.prompt = Seeded] ELSE settingsRow
           /\ Reply(t, "edit", d)
  <2>1. d \in Calls(created) /\ d.at = "answered" /\ d.op = "delete" /\ d.arg = c.arg
    BY <1>1, <1>2 DEF Calls
  <2>2. /\ settingsRow' \in SettingsRows(created)
        /\ settingsRow'.prompt = IF settingsRow.prompt = c.arg THEN Seeded ELSE settingsRow.prompt
        /\ settingsRow'.mode = settingsRow.mode /\ settingsRow'.configured = settingsRow.configured
    BY <1>5, TabFacts DEF SettingsRows, Seeded
  <2>3. ~settingsRow'.configured => settingsRow' = NoRow
    <3>1. settingsRow.prompt = Seeded => settingsRow' = settingsRow
      BY <1>3, <1>5
    <3>2. ~settingsRow.configured => settingsRow = NoRow /\ settingsRow.prompt = Seeded
      BY TabFacts DEF NoRow
    <3> QED
      BY <2>2, <3>1, <3>2
  <2> HIDE DEF d, c
  <2>4. CallInv("edit", d)
    BY <1>1, <1>2, <2>1 DEF CallInv
  <2>5. ASSUME t \notin tainted PROVE AgreesAfter(promptRows', settingsRow', t, "edit", d, store[t])
    <3>1. PromptsInv(promptRows', d, store[t])
      BY <1>1, <1>5, <2>1, <2>5, TabFacts DEF PromptsInv, PromptsAfter, c
    <3>2. \A x : Agrees(promptRows, settingsRow, x) => Agrees(promptRows', settingsRow', x)
      BY <1>3, <1>5, <2>2, AgreesWithout
    <3>3. SettingsInv(promptRows', settingsRow', requests[t]["get"], requests[t]["update"], store[t])
      BY <2>2, <2>5, <3>2, TabFacts DEF SettingsInv
    <3> QED
      BY <3>1, <3>3 DEF AgreesAfter, After
  <2>6. promptRows' \subseteq 0..created /\ Seeded \in promptRows' /\ settingsRow'.prompt \in promptRows'
    BY <1>3, <1>5, <2>2, TabFacts
  <2>7. /\ created' \in Nat /\ created <= created' /\ d \in Calls(created')
        /\ settingsRow' \in SettingsRows(created') /\ promptRows' \subseteq 0..created'
    BY <1>1, <2>1, <2>2, <2>6, TabFacts
  <2> QED
    BY <1>1, <1>2, <1>5, <2>3, <2>4, <2>5, <2>6, <2>7, WriteStep
<1> QED
  BY <1>1, <1>4, <1>5 DEF DeletePrompt

LEMMA SaveSettingsAgrees ==
    ASSUME SettingsAgree, NEW t \in SettingsTabs, NEW o \in Ops, SaveSettings(t, o)
    PROVE  SettingsAgree'
<1> DEFINE c == requests[t][o]
           refused == [c EXCEPT !.at = "refused"]
           row == Merged(c)
           d == [c EXCEPT !.at = "answered", !.read = row]
<1>1. /\ c.at = "checked" /\ c.op = "update" /\ created' = created
      /\ tainted' = tainted \cup OtherTabs(t) /\ UNCHANGED <<legacy, store, promptRows>>
  BY DEF SaveSettings
<1>2. c \in Calls(created) /\ CallInv(o, c)
  BY TabFacts
<1>3. o \in {"get", "update"}
  BY <1>1, <1>2 DEF CallInv, Ops, EditOps
<1>4. CASE Reply(t, o, refused) /\ UNCHANGED settingsRow
  <2>1. /\ refused \in Calls(created) /\ refused.at = "refused" /\ refused.op = "update"
    BY <1>1, <1>2 DEF Calls
  <2> HIDE DEF refused, c
  <2>2. CallInv(o, refused)
    BY <1>3, <2>1 DEF CallInv
  <2>3. ASSUME t \notin tainted
        PROVE  AgreesAfter(promptRows', settingsRow', t, o, refused, store[t])
    <3>1. SettingsInv(promptRows, settingsRow, After(t, o, refused, "get"),
                      After(t, o, refused, "update"), store[t])
      BY <1>1, <1>3, <2>1, <2>3, TabFacts DEF SettingsInv, After, c
    <3>2. PromptsInv(promptRows, After(t, o, refused, "edit"), store[t])
      BY <1>3, <2>3, TabFacts DEF After
    <3> QED
      BY <1>1, <1>4, <3>1, <3>2 DEF AgreesAfter
  <2> QED
    BY <1>1, <1>2, <1>4, <2>1, <2>2, <2>3, TabFacts, WriteStep
<1>5. CASE row.prompt \in promptRows /\ settingsRow' = row /\ Reply(t, o, d)
  <2>1. row \in SettingsRows(created) /\ row.configured
    <3>1. row.prompt \in 0..created
      BY <1>5, TabFacts
    <3>2. row.mode \in Modes
      BY <1>2 DEF Merged, Calls, SettingsRows, Modes, ModeArgs
    <3> QED
      BY <3>1, <3>2 DEF Merged, SettingsRows
  <2> HIDE DEF row
  <2>2. d \in Calls(created) /\ d.at = "answered" /\ d.op = "update" /\ d.read = row
    BY <1>1, <1>2, <2>1 DEF Calls
  <2> HIDE DEF d, c
  <2>3. CallInv(o, d)
    BY <1>3, <2>2 DEF CallInv
  <2>4. ASSUME t \notin tainted PROVE AgreesAfter(promptRows', settingsRow', t, o, d, store[t])
    <3>1. SettingsInv(promptRows, row, After(t, o, d, "get"), After(t, o, d, "update"), store[t])
      BY <1>1, <1>3, <2>1, <2>2, <2>4, TabFacts DEF SettingsInv, After, Agrees, c
    <3>2. PromptsInv(promptRows, After(t, o, d, "edit"), store[t])
      BY <1>3, <2>4, TabFacts DEF After
    <3> QED
      BY <1>1, <1>5, <3>1, <3>2 DEF AgreesAfter
  <2> QED
    BY <1>1, <1>5, <2>1, <2>2, <2>3, <2>4, TabFacts, WriteStep
<1> QED
  BY <1>1, <1>4, <1>5 DEF SaveSettings

LEMMA CreateMeetingAgrees ==
    ASSUME SettingsAgree, NEW t \in SettingsTabs, CreateMeeting(t)
    PROVE  SettingsAgree'
<1> DEFINE c == requests[t]["start"]
<1>1. PICK d : Reply(t, "start", d) /\ d \in {[c EXCEPT !.at = "answered"], [c EXCEPT !.at = "refused"]}
  BY DEF CreateMeeting
<1>2. c.op = "start" /\ "start" \in Ops /\ c \in Calls(created)
  BY TabFacts DEF CreateMeeting, Ops
<1>3. d \in Calls(created) /\ d.op = "start"
  BY <1>1, <1>2 DEF Calls
<1>4. CallInv("start", d)
  BY <1>3 DEF CallInv
<1>5. t \notin tainted => AgreesAfter(promptRows, settingsRow, t, "start", d, store[t])
  BY TabFacts DEF AgreesAfter, After
<1>6. UNCHANGED <<store, promptRows, settingsRow, created, legacy, tainted>>
  BY DEF CreateMeeting
<1> QED
  BY <1>1, <1>2, <1>3, <1>4, <1>5, <1>6, ReplyStep

-----------------------------------------------------------------------------
LEMMA EndStep ==
    ASSUME SettingsAgree, NEW t \in SettingsTabs, NEW o \in Ops, NEW s, EndCall(t, o, s),
           UNCHANGED <<promptRows, settingsRow, created>>,
           legacy' = legacy \/ legacy' = NoLegacy, s \in Stores(created),
           tainted' = tainted \/ tainted' = tainted \cup {t},
           t \notin tainted' => AgreesAfter(promptRows, settingsRow, t, o, NoCall, s)
    PROVE  SettingsAgree'
<1>1. NoCall \in Calls(created) /\ NoCall.at = "none"
  BY TabFacts, NoCallTypes DEF NoCall
<1>2. CallInv(o, NoCall)
  BY <1>1 DEF CallInv
<1>3. legacy' \in [prompt : {Seeded, NoPrompt}, mode : ModeArgs]
  BY TabFacts DEF NoLegacy, ModeArgs
<1>4. requests' = [requests EXCEPT ![t][o] = NoCall] /\ store' = [store EXCEPT ![t] = s]
  BY DEF EndCall
<1> HIDE DEF NoCall
<1> QED
  BY <1>1, <1>2, <1>3, <1>4, PageStep

\* A call that ends without an answer the tab uses, in a store that is only less busy.
LEMMA QuietEnd ==
    ASSUME SettingsAgree, NEW t \in SettingsTabs, NEW o \in Ops, NEW s, t \notin tainted,
           s.prompts = store[t].prompts, s.loaded = store[t].loaded, s.prompt = store[t].prompt,
           s.mode = store[t].mode, s.hydrated = store[t].hydrated,
           o # "get",
           o = "edit" /\ requests[t]["edit"].at = "answered" => requests[t]["edit"].op = "edit",
           o = "update" => requests[t]["update"].at # "answered" /\ store[t].hydrated
    PROVE  AgreesAfter(promptRows, settingsRow, t, o, NoCall, s)
<1>1. NoCall.at = "none" /\ NoCall.op = "none"
  BY DEF NoCall
<1>2. PromptsInv(promptRows, After(t, o, NoCall, "edit"), s)
  BY <1>1, TabFacts DEF PromptsInv, PromptsAfter, After
<1>3. SettingsInv(promptRows, settingsRow, After(t, o, NoCall, "get"), After(t, o, NoCall, "update"), s)
  BY <1>1, TabFacts DEF SettingsInv, Agrees, After
<1> QED
  BY <1>2, <1>3 DEF AgreesAfter

LEMMA ListAgrees ==
    ASSUME SettingsAgree, NEW t \in SettingsTabs, NEW o \in Ops, ListArrives(t, o)
    PROVE  SettingsAgree'
<1> DEFINE c == requests[t][o]
           s == [store[t] EXCEPT !.prompts = c.list, !.loaded = TRUE, !.loading = FALSE]
<1>1. /\ c.at = "answered" /\ c.op = "list" /\ EndCall(t, o, s)
      /\ tainted' = IF c.list # promptRows THEN tainted \cup {t} ELSE tainted
      /\ UNCHANGED <<promptRows, settingsRow, legacy, created>>
  BY DEF ListArrives, Answered, Server
<1>2. c \in Calls(created) /\ CallInv(o, c)
  BY TabFacts
<1>3. o \in {"list", "relist"}
  BY <1>1, <1>2 DEF CallInv, Ops, EditOps
<1>4. /\ s \in Stores(created) /\ s.prompts = c.list /\ s.prompt = store[t].prompt
      /\ s.mode = store[t].mode /\ s.hydrated = store[t].hydrated
  <2>1. c.list \in SUBSET (0..created)
    BY <1>2 DEF Calls
  <2>2. store[t] \in Stores(created)
    BY TabFacts
  <2> HIDE DEF c
  <2> QED
    BY <2>1, <2>2 DEF Stores
<1> HIDE DEF c, s
<1>5. ASSUME t \notin tainted' PROVE AgreesAfter(promptRows, settingsRow, t, o, NoCall, s)
  <2>1. t \notin tainted /\ s.prompts = promptRows
    BY <1>1, <1>4, <1>5
  <2>2. PromptsInv(promptRows, After(t, o, NoCall, "edit"), s)
    BY <1>3, <2>1, TabFacts DEF PromptsInv, PromptsAfter, After
  <2>3. SettingsInv(promptRows, settingsRow,
                    After(t, o, NoCall, "get"), After(t, o, NoCall, "update"), s)
    BY <1>3, <1>4, <2>1, TabFacts DEF SettingsInv, Agrees, After
  <2> QED
    BY <2>2, <2>3 DEF AgreesAfter
<1> QED
  BY <1>1, <1>4, <1>5, EndStep

\* Settings that came agree with those stored, and nothing else is under way.
LEMMA AppliedAgrees ==
    ASSUME SettingsAgree, NEW t \in SettingsTabs, NEW o \in {"get", "update"}, NEW row,
           row \in SettingsRows(created), t \notin tainted, requests[t][o].at # "none",
           Agrees(promptRows, settingsRow, row)
    PROVE  AgreesAfter(promptRows, settingsRow, t, o, NoCall, applySettings(t, row))
<1> DEFINE s == applySettings(t, row)
<1>1. /\ s.prompts = store[t].prompts /\ s.loaded = store[t].loaded
      /\ s.prompt = row.prompt /\ s.mode = row.mode /\ s.hydrated
  BY TabFacts DEF applySettings, Stores
<1>2. NoCall.at = "none" /\ NoCall.op = "none"
  BY DEF NoCall
<1> HIDE DEF s
<1>3. PromptsInv(promptRows, After(t, o, NoCall, "edit"), s)
  BY <1>1, TabFacts DEF PromptsInv, PromptsAfter, After
<1>4. SettingsInv(promptRows, settingsRow, After(t, o, NoCall, "get"), After(t, o, NoCall, "update"), s)
  BY <1>1, <1>2, TabFacts DEF SettingsInv, Agrees, After
<1> QED
  BY <1>3, <1>4 DEF AgreesAfter, s

LEMMA AppliedTypes ==
    ASSUME SettingsAgree, NEW t \in SettingsTabs, NEW row \in SettingsRows(created)
    PROVE  applySettings(t, row) \in Stores(created)
BY TabFacts DEF applySettings, Stores, SettingsRows

LEMMA SettingsArriveAgrees ==
    ASSUME SettingsAgree, NEW t \in SettingsTabs, SettingsArrive(t)
    PROVE  SettingsAgree'
<1> DEFINE c == requests[t]["get"]
           d == Request("update", legacy.prompt, legacy.mode)
<1>1. /\ c.at = "answered" /\ c.op = "get" /\ "get" \in Ops
      /\ UNCHANGED <<promptRows, settingsRow, legacy, created, tainted>>
  BY DEF SettingsArrive, Answered, Server, Ops
<1>2. c \in Calls(created) /\ c.read \in SettingsRows(created)
  BY <1>1, TabFacts DEF Calls
<1>3. CASE ~c.read.configured /\ Reply(t, "get", d) /\ UNCHANGED store
  <2>1. d \in Calls(created) /\ d.at = "sent" /\ d.op = "update"
    <3>1. legacy.prompt \in PromptArgs(created) /\ legacy.mode \in ModeArgs
      BY TabFacts DEF Seeded, PromptArgs
    <3>2. created \in Nat /\ "update" \in CallOps
      BY TabFacts DEF CallOps
    <3> QED
      BY <3>1, <3>2, RequestTypes
  <2> HIDE DEF c, d
  <2>2. CallInv("get", d)
    BY <2>1 DEF CallInv
  <2>3. ASSUME t \notin tainted
        PROVE  AgreesAfter(promptRows, settingsRow, t, "get", d, store[t])
    BY <1>1, <1>3, <2>1, <2>3, TabFacts DEF AgreesAfter, After, SettingsInv, c
  <2> QED
    BY <1>1, <1>3, <2>1, <2>2, <2>3, ReplyStep
<1>4. CASE EndCall(t, "get", applySettings(t, c.read))
  <2>1. ASSUME t \notin tainted
        PROVE  AgreesAfter(promptRows, settingsRow, t, "get", NoCall, applySettings(t, c.read))
    <3>1. Agrees(promptRows, settingsRow, c.read)
      BY <1>1, <2>1, TabFacts DEF SettingsInv
    <3> QED
      BY <1>1, <1>2, <2>1, <3>1, AppliedAgrees
  <2> QED
    BY <1>1, <1>2, <1>4, <2>1, AppliedTypes, EndStep
<1> QED
  BY <1>3, <1>4 DEF SettingsArrive

\* The answers of updates, of the page and of a migration.
LEMMA UpdatedAgrees ==
    ASSUME SettingsAgree, NEW t \in SettingsTabs, Migrated(t) \/ SettingsSaved(t)
    PROVE  SettingsAgree'
<1>1. PICK o \in {"get", "update"} :
        /\ requests[t][o].at = "answered" /\ requests[t][o].op = "update"
        /\ EndCall(t, o, applySettings(t, requests[t][o].read))
        /\ legacy' = legacy \/ legacy' = NoLegacy
        /\ UNCHANGED <<promptRows, settingsRow, created, tainted>>
  BY DEF Migrated, SettingsSaved, Answered, Server
<1> DEFINE c == requests[t][o]
<1>2. o \in Ops /\ c.read \in SettingsRows(created)
  BY TabFacts DEF Calls, Ops
<1>3. ASSUME t \notin tainted
      PROVE  AgreesAfter(promptRows, settingsRow, t, o, NoCall, applySettings(t, c.read))
  <2>1. Agrees(promptRows, settingsRow, c.read)
    BY <1>1, <1>3, TabFacts DEF SettingsInv
  <2> QED
    BY <1>1, <1>2, <1>3, <2>1, AppliedAgrees
<1> QED
  BY <1>1, <1>2, <1>3, AppliedTypes, EndStep

\* The answer of an edit brings the prompts of the tab to those of the table.
LEMMA AnsweredEdit ==
    ASSUME SettingsAgree, NEW t \in SettingsTabs, t \notin tainted, NEW s,
           s.prompts = PromptsAfter(requests[t]["edit"], store[t].prompts),
           s.loaded = store[t].loaded, s.prompt = store[t].prompt,
           s.mode = store[t].mode, s.hydrated = store[t].hydrated
    PROVE  AgreesAfter(promptRows, settingsRow, t, "edit", NoCall, s)
<1>1. NoCall.at = "none"
  BY DEF NoCall
<1>2. PromptsAfter(NoCall, s.prompts) = s.prompts
  BY <1>1 DEF PromptsAfter
<1>3. PromptsInv(promptRows, NoCall, s)
  BY <1>1, <1>2, TabFacts DEF PromptsInv
<1>4. SettingsInv(promptRows, settingsRow, requests[t]["get"], requests[t]["update"], s)
  BY TabFacts DEF SettingsInv, Agrees
<1> QED
  BY <1>3, <1>4 DEF AgreesAfter, After

LEMMA EditEndsAgrees ==
    ASSUME SettingsAgree, NEW t \in SettingsTabs, PromptSaved(t) \/ DeletedAtHome(t)
    PROVE  SettingsAgree'
<1> DEFINE c == requests[t]["edit"]
<1>1. PICK s : /\ EndCall(t, "edit", s) /\ c.at = "answered"
               /\ \/ /\ c.op = "create"
                     /\ s = [store[t] EXCEPT !.prompts = @ \cup {c.arg}, !.loading = FALSE]
                  \/ c.op = "edit" /\ s = [store[t] EXCEPT !.loading = FALSE]
                  \/ c.op = "delete" /\ s = [store[t] EXCEPT !.prompts = @ \ {c.arg}, !.loading = FALSE]
               /\ UNCHANGED <<promptRows, settingsRow, legacy, created, tainted>>
  BY DEF PromptSaved, DeletedAtHome, Answered, WithoutPrompt, Server
<1>2. store[t] \in Stores(created) /\ "edit" \in Ops
  BY TabFacts DEF Ops
<1>3. c.arg \in 0..created
  <2>1. c.arg \in PromptArgs(created) /\ CallInv("edit", c)
    BY TabFacts DEF Calls, Ops
  <2> QED
    BY <1>1, <2>1 DEF CallInv, PromptArgs
<1> HIDE DEF c
<1>4. /\ s \in Stores(created) /\ s.prompts = PromptsAfter(c, store[t].prompts)
      /\ s.loaded = store[t].loaded /\ s.prompt = store[t].prompt
      /\ s.mode = store[t].mode /\ s.hydrated = store[t].hydrated
  <2> DEFINE r == store[t]
             p == PromptsAfter(c, r.prompts)
  <2>1. p \in SUBSET (0..created)
    BY <1>1, <1>2, <1>3 DEF PromptsAfter, Stores
  <2>2. \/ s = [r EXCEPT !.prompts = p, !.loading = FALSE]
        \/ s = [r EXCEPT !.loading = FALSE] /\ p = r.prompts
    BY <1>1 DEF PromptsAfter
  <2>3. r \in Stores(created)
    BY <1>2
  <2> HIDE DEF p, r
  <2>4. /\ s \in Stores(created) /\ s.prompts = p /\ s.loaded = r.loaded
        /\ s.prompt = r.prompt /\ s.mode = r.mode /\ s.hydrated = r.hydrated
    BY <2>1, <2>2, <2>3 DEF Stores
  <2> QED
    BY <2>4 DEF p, r
<1>5. t \notin tainted => AgreesAfter(promptRows, settingsRow, t, "edit", NoCall, s)
  BY <1>4, AnsweredEdit DEF c
<1> QED
  BY <1>1, <1>2, <1>4, <1>5, EndStep

LEMMA handleDeleteAgrees ==
    ASSUME SettingsAgree, NEW t \in SettingsTabs, handleDelete(t)
    PROVE  SettingsAgree'
<1> DEFINE e == requests[t]["edit"]
           c == Request("update", Seeded, "none")
           q == [requests[t] EXCEPT !["edit"] = NoCall, !["update"] = c]
           r == store[t]
           s == [WithoutPrompt(t, e.arg) EXCEPT !.saving = TRUE]
<1>1. /\ e.at = "answered" /\ e.op = "delete" /\ r.prompt = e.arg
      /\ requests[t]["update"].at = "none"
      /\ requests' = [requests EXCEPT ![t]["edit"] = NoCall, ![t]["update"] = c]
      /\ store' = [store EXCEPT ![t] = s]
      /\ UNCHANGED <<promptRows, settingsRow, created, legacy, tainted>>
  BY DEF handleDelete, Answered, Free, Server
<1>2. /\ r \in Stores(created) /\ requests[t] \in [Ops -> Calls(created)] /\ created \in Nat
      /\ "edit" \in Ops /\ "update" \in Ops /\ "get" \in Ops /\ CallInv("edit", e)
  BY TabFacts DEF Ops
<1>3. NoCall \in Calls(created) /\ NoCall.at = "none"
  BY <1>2, NoCallTypes DEF NoCall
<1>4. c \in Calls(created) /\ c.at = "sent" /\ c.op = "update"
  <2>1. "update" \in CallOps /\ Seeded \in PromptArgs(created) /\ "none" \in ModeArgs
    BY <1>2 DEF CallOps, PromptArgs, ModeArgs, Seeded
  <2> QED
    BY <1>2, <2>1, RequestTypes
<1>5. /\ s \in Stores(created) /\ s.prompts = r.prompts \ {e.arg} /\ s.loaded = r.loaded
      /\ s.prompt = r.prompt /\ s.mode = r.mode /\ s.hydrated = r.hydrated
  BY <1>2 DEF WithoutPrompt, Stores
<1>6. e.arg # Seeded
  BY <1>1, <1>2 DEF CallInv
<1> HIDE DEF c, s, NoCall
<1>7. /\ q \in [Ops -> Calls(created)] /\ q["edit"] = NoCall /\ q["update"] = c
      /\ \A o \in Ops \ {"edit", "update"} : q[o] = requests[t][o]
  BY <1>2, <1>3, <1>4
<1>8. requests' = [requests EXCEPT ![t] = q]
  BY <1>1
<1> HIDE DEF q
<1>9. \A o \in Ops : CallInv(o, q[o])
  <2>1. CallInv("edit", NoCall) /\ CallInv("update", c)
    BY <1>3, <1>4 DEF CallInv
  <2> QED
    BY <1>7, <2>1, TabFacts
<1>10. ASSUME t \notin tainted PROVE InStepWith(promptRows, settingsRow, q, s)
  <2>1. PromptsInv(promptRows, NoCall, s)
    <3>1. PromptsAfter(NoCall, s.prompts) = PromptsAfter(e, r.prompts)
      BY <1>1, <1>3, <1>5 DEF PromptsAfter
    <3> QED
      BY <1>3, <1>5, <1>10, <3>1, TabFacts DEF PromptsInv
  <2>2. SettingsInv(promptRows, settingsRow, requests[t]["get"], requests[t]["update"], r)
    BY <1>10, TabFacts
  <2>3. SettingsInv(promptRows, settingsRow, requests[t]["get"], c, s)
    BY <1>1, <1>4, <1>5, <1>6, <2>2 DEF SettingsInv, Agrees
  <2>4. q["get"] = requests[t]["get"]
    BY <1>2, <1>7
  <2> QED
    BY <1>7, <2>1, <2>3, <2>4 DEF InStepWith
<1>11. /\ created' \in Nat /\ created <= created'
       /\ promptRows' \subseteq 0..created' /\ Seeded \in promptRows'
       /\ settingsRow' \in SettingsRows(created') /\ settingsRow'.prompt \in promptRows'
       /\ ~settingsRow'.configured => settingsRow' = NoRow
       /\ legacy' \in [prompt : {Seeded, NoPrompt}, mode : ModeArgs]
       /\ tainted \subseteq tainted' /\ tainted' \subseteq SettingsTabs
  BY <1>1, TabFacts DEF SettingsAgree, SettingsTypes
<1>12. q \in [Ops -> Calls(created')] /\ s \in Stores(created')
  BY <1>1, <1>5, <1>7
<1> QED
  BY <1>1, <1>8, <1>9, <1>10, <1>11, <1>12, TabStep

LEMMA MeetingStartedAgrees ==
    ASSUME SettingsAgree, NEW t \in SettingsTabs, MeetingStarted(t)
    PROVE  SettingsAgree'
<1>1. /\ EndCall(t, "start", store[t]) /\ "start" \in Ops /\ store[t] \in Stores(created)
      /\ UNCHANGED <<promptRows, settingsRow, legacy, created, tainted>>
  BY TabFacts DEF MeetingStarted, Server, Ops
<1>2. t \notin tainted => AgreesAfter(promptRows, settingsRow, t, "start", NoCall, store[t])
  BY <1>1, QuietEnd
<1> QED
  BY <1>1, <1>2, EndStep

\* What a store keeps of a failed call.
LEMMA FailedStore ==
    ASSUME SettingsAgree, NEW t \in SettingsTabs, NEW o \in Ops
    PROVE  /\ Failed(t, o) \in Stores(created)
           /\ Failed(t, o).prompts = store[t].prompts /\ Failed(t, o).loaded = store[t].loaded
           /\ o # "get" =>
                /\ Failed(t, o).prompt = store[t].prompt /\ Failed(t, o).mode = store[t].mode
                /\ Failed(t, o).hydrated = store[t].hydrated
<1>1. store[t] \in Stores(created) /\ created \in Nat
  BY TabFacts
<1>2. NoRow \in SettingsRows(created)
  BY <1>1 DEF NoRow, SettingsRows, Modes, Seeded
<1>3. CASE o \in {"list", "relist", "edit"}
  BY <1>1, <1>3 DEF Failed, Stores
<1>4. CASE o = "get" /\ requests[t][o].op = "get"
  BY <1>1, <1>4 DEF Failed, Stores
<1>5. CASE o = "get" /\ requests[t][o].op = "update"
  <2>1. Failed(t, o) = applySettings(t, NoRow)
    BY <1>5 DEF Failed
  <2> QED
    BY <1>1, <1>2, <1>5, <2>1, AppliedTypes DEF applySettings, Stores
<1>6. CASE o = "update"
  BY <1>1, <1>6 DEF Failed, Stores
<1>7. CASE o = "start" \/ (o = "get" /\ requests[t][o].op \notin {"get", "update"})
  <2>1. Failed(t, o) = store[t]
    BY <1>7 DEF Failed
  <2> QED
    BY <1>1, <2>1
<1>8. \/ o \in {"list", "relist", "edit"} \/ o = "update"
      \/ o = "get" /\ requests[t][o].op = "get"
      \/ o = "get" /\ requests[t][o].op = "update"
      \/ o = "start" \/ (o = "get" /\ requests[t][o].op \notin {"get", "update"})
  <2>1. o \in {"list", "relist", "get", "edit", "update", "start"}
    BY DEF Ops
  <2> QED
    BY <2>1, Zenon
<1> QED
  BY <1>3, <1>4, <1>5, <1>6, <1>7, <1>8, Zenon

LEMMA RefusedAgrees ==
    ASSUME SettingsAgree, NEW t \in SettingsTabs, NEW o \in Ops, Refused(t, o)
    PROVE  SettingsAgree'
<1>1. /\ requests[t][o].at = "refused" /\ EndCall(t, o, Failed(t, o))
      /\ UNCHANGED <<promptRows, settingsRow, legacy, created, tainted>>
  BY DEF Refused, Server
<1>2. ASSUME t \notin tainted
      PROVE  AgreesAfter(promptRows, settingsRow, t, o, NoCall, Failed(t, o))
  <2>1. CASE o # "get"
    <3>1. o = "update" => store[t].hydrated
      BY <1>1, <1>2, TabFacts DEF SettingsInv
    <3> QED
      BY <1>1, <1>2, <2>1, <3>1, FailedStore, QuietEnd
  <2>2. CASE o = "get"
    <3>1. requests[t]["get"].op = "update"
      BY <1>1, <2>2, TabFacts DEF CallInv
    <3>2. settingsRow = NoRow
      BY <1>1, <1>2, <2>2, <3>1, TabFacts DEF SettingsInv
    <3>3. NoRow \in SettingsRows(created) /\ Agrees(promptRows, settingsRow, NoRow)
      BY <3>2, TabFacts DEF Agrees
    <3>4. Failed(t, o) = applySettings(t, NoRow)
      BY <2>2, <3>1 DEF Failed
    <3> QED
      BY <1>1, <1>2, <2>2, <3>3, <3>4, AppliedAgrees
  <2> QED
    BY <2>1, <2>2
<1> QED
  BY <1>1, <1>2, FailedStore, EndStep

LEMMA LostAgrees ==
    ASSUME SettingsAgree, NEW t \in SettingsTabs, NEW o \in Ops, Lost(t, o)
    PROVE  SettingsAgree'
<1>1. /\ EndCall(t, o, Failed(t, o)) /\ tainted' = tainted \cup {t}
      /\ UNCHANGED <<promptRows, settingsRow, legacy, created>>
  BY DEF Lost, Server
<1> QED
  BY <1>1, FailedStore, EndStep

-----------------------------------------------------------------------------
\* What the stores and the calls of the tabs hold of the settings of the user: in a tab behind whose
\* back nothing was changed, they are the stored ones as far as its calls have ended.
THEOREM SettingsKeepUp == PromptSpec => []SettingsAgree
<1>1. PromptInit => SettingsAgree
  <2> SUFFICES ASSUME PromptInit PROVE SettingsAgree
    OBVIOUS
  <2>1. /\ created \in Nat /\ promptRows \subseteq 0..created /\ Seeded \in promptRows
    <3>1. Cardinality({0}) = 1 /\ IsFiniteSet({0})
      BY FS_Singleton
    <3>2. Cardinality({0} \cup {1}) = Cardinality({0}) + 1
      BY <3>1, FS_AddElement
    <3>3. {0} \cup {1} = {0, 1}
      OBVIOUS
    <3>4. promptRows \in {{0}, {0, 1}} /\ created = Cardinality(promptRows) - 1
      BY DEF PromptInit, Seeded
    <3>5. (promptRows = {0} /\ created = 0) \/ (promptRows = {0, 1} /\ created = 1)
      BY <3>1, <3>2, <3>3, <3>4
    <3> QED
      BY <3>5 DEF Seeded
  <2>2. settingsRow \in SettingsRows(created) /\ settingsRow.prompt \in promptRows
        /\ (~settingsRow.configured => settingsRow = NoRow)
    <3>1. \/ settingsRow = NoRow
          \/ \E p \in promptRows : settingsRow = [configured |-> TRUE, prompt |-> p, mode |-> "batch"]
      BY DEF PromptInit
    <3>2. NoRow \in SettingsRows(created) /\ NoRow.prompt = Seeded
      BY <2>1 DEF SettingsRows, NoRow, Modes
    <3>3. ASSUME NEW p \in promptRows,
                 settingsRow = [configured |-> TRUE, prompt |-> p, mode |-> "batch"]
          PROVE  /\ settingsRow \in SettingsRows(created) /\ settingsRow.prompt = p
                 /\ settingsRow.configured
      BY <2>1, <3>3 DEF SettingsRows, Modes
    <3>4. CASE settingsRow = NoRow
      BY <2>1, <3>2, <3>4
    <3> QED
      BY <3>1, <3>3, <3>4
  <2>3. legacy \in [prompt : {Seeded, NoPrompt}, mode : ModeArgs]
    BY DEF PromptInit, NoLegacy, ModeArgs, Modes
  <2>4. store \in [SettingsTabs -> Stores(created)]
    BY <2>1 DEF PromptInit, Stores, Modes, Seeded
  <2>5. requests \in [SettingsTabs -> [Ops -> Calls(created)]]
    BY <2>1, NoCallTypes DEF PromptInit
  <2>6. NoCall.at = "none" /\ NoCall.op = "none"
    BY DEF NoCall
  <2>7. /\ \A t \in SettingsTabs : requests[t] = [o \in Ops |-> NoCall]
        /\ \A t \in SettingsTabs : /\ store[t].prompts = {} /\ ~store[t].loaded
                                   /\ ~store[t].hydrated /\ store[t].prompt = Seeded
    BY DEF PromptInit
  <2> HIDE DEF NoCall
  <2>8. ASSUME NEW t \in SettingsTabs PROVE InStepWith(promptRows, settingsRow, requests[t], store[t])
    <3>1. requests[t]["edit"] = NoCall /\ requests[t]["get"] = NoCall /\ requests[t]["update"] = NoCall
      BY <2>7 DEF Ops
    <3> QED
      BY <2>6, <2>7, <3>1 DEF InStepWith, PromptsInv, PromptsAfter, SettingsInv
  <2>9. \A t \in SettingsTabs, o \in Ops : CallInv(o, requests[t][o])
    BY <2>6, <2>7 DEF CallInv
  <2>10. tainted \subseteq SettingsTabs
    BY DEF PromptInit
  <2> QED
    BY <2>1, <2>2, <2>3, <2>4, <2>5, <2>8, <2>9, <2>10 DEF SettingsAgree, SettingsTypes
<1>2. SettingsAgree /\ [PromptNext]_promptVars => SettingsAgree'
  <2> SUFFICES ASSUME SettingsAgree, [PromptNext]_promptVars PROVE SettingsAgree'
    OBVIOUS
  <2>1. CASE UNCHANGED promptVars
    BY <2>1 DEF promptVars, SettingsAgree, SettingsTypes, CallInv, InStepWith, PromptsInv, PromptsAfter,
                SettingsInv, Agrees
  <2>2. ASSUME NEW t \in SettingsTabs,
               \/ fetchPrompts(t) \/ fetchSettings(t) \/ EditPrompt(t) \/ updateSettings(t)
               \/ startMeeting(t)
        PROVE  SettingsAgree'
    BY <2>2, FetchPromptsAgrees, FetchSettingsAgrees, EditPromptAgrees, UpdateSettingsAgrees,
       StartMeetingAgrees
  <2>3. ASSUME NEW t \in SettingsTabs,
               Create(t) \/ SavePrompt(t) \/ DeletePrompt(t) \/ CreateMeeting(t)
        PROVE  SettingsAgree'
    BY <2>3, CreateAgrees, SavePromptAgrees, DeletePromptAgrees, CreateMeetingAgrees
  <2>4. ASSUME NEW t \in SettingsTabs,
               \/ SettingsArrive(t) \/ Migrated(t) \/ SettingsSaved(t) \/ PromptSaved(t)
               \/ DeletedAtHome(t) \/ handleDelete(t) \/ MeetingStarted(t)
        PROVE  SettingsAgree'
    BY <2>4, SettingsArriveAgrees, UpdatedAgrees, EditEndsAgrees, handleDeleteAgrees,
       MeetingStartedAgrees
  <2>5. ASSUME NEW t \in SettingsTabs, NEW o \in Ops,
               \/ Serve(t, o) \/ Checks(t, o) \/ SaveSettings(t, o) \/ ListArrives(t, o)
               \/ Refused(t, o) \/ Lost(t, o)
        PROVE  SettingsAgree'
    BY <2>5, ServeAgrees, ChecksAgrees, SaveSettingsAgrees, ListAgrees, RefusedAgrees, LostAgrees
  <2> QED
    BY <2>1, <2>2, <2>3, <2>4, <2>5 DEF PromptNext
<1> QED
  BY <1>1, <1>2, PTL DEF PromptSpec

\* usePromptStore and useUserSettingsStore: once the calls of a tab have ended, the defaults it shows
\* are the stored ones, if no answer was lost and no other tab wrote.
THEOREM SettingsAreShown == PromptSpec => []ShownIsStored
<1>1. SettingsAgree => ShownIsStored
  <2> SUFFICES ASSUME SettingsAgree, NEW t \in SettingsTabs \ tainted, AtRest(t)
               PROVE  ResolvedPrompt(t) = settingsRow.prompt /\ store[t].mode = settingsRow.mode
    BY DEF ShownIsStored
  <2>1. /\ store[t].hydrated /\ store[t].loaded
        /\ requests[t]["edit"].at = "none" /\ requests[t]["update"].at = "none"
    BY DEF AtRest, Free, Ops
  <2>2. Agrees(promptRows, settingsRow, store[t])
    BY <2>1, TabFacts DEF SettingsInv
  <2>3. store[t].prompts = promptRows
    BY <2>1, TabFacts DEF PromptsInv, PromptsAfter
  <2> QED
    BY <2>2, <2>3, TabFacts DEF Agrees, ResolvedPrompt
<1> QED
  BY <1>1, SettingsKeepUp, PTL

-----------------------------------------------------------------------------
(***************************************************************************)
(* Texts at rest.  What a cell holds is its text, unless it was damaged or *)
(* is the ciphertext of another cell (CellsInv); so does an entity that is *)
(* being saved, once or again (EntitiesInv).                               *)
(***************************************************************************)
KeyIds == {"legacy", "k1", "k2"}
Keyrings == [keys : SUBSET KeyIds, active : KeyIds, legacyKeys : SUBSET {"old", "new", "newer"}]

Versions == [form : {"versioned"}, kid : KeyIds, aad : Used, text : SavedTexts, intact : BOOLEAN]
Legacies == [form : {"legacy"}, key : {"old", "new", "newer"}, text : SavedTexts, intact : BOOLEAN]
Values == [form : {"plain"}, text : SavedTexts] \cup Versions \cup Legacies

Entities(r) == [row : {r}, text : SavedTexts, fields : [Fields[r] -> Values]]

CryptTypes ==
    /\ configuration \in Configurations /\ keyring \in [Backends -> Keyrings]
    /\ cells \in [Used -> Values] /\ written \in [Used -> SavedTexts]
    /\ entity \in [Backends -> {NoEntity} \cup Entities("note") \cup Entities("document")]
    /\ damages \in Nat

\* The value v is of the cell c, not moved there from another one.
AtHome(c, v) == v.form = "versioned" => v.aad = c

CellsInv ==
    /\ \A c \in Used :
         IF cells[c].form = "plain" THEN cells[c].text = written[c]
         ELSE cells[c].intact /\ AtHome(c, cells[c]) => cells[c].text = written[c]
    /\ damages = 0 => \A c \in Used : AtHome(c, cells[c])

EntitiesInv ==
    \A i \in Backends : entity[i] # NoEntity =>
        \A f \in Fields[entity[i].row] :
            /\ entity[i].fields[f].text = entity[i].text
            /\ AtHome(<<entity[i].row, f>>, entity[i].fields[f])

CryptInv == CryptTypes /\ CellsInv /\ EntitiesInv

LEMMA UsedCells ==
    /\ Used = {<<"note", "content">>, <<"document", "noteContent">>, <<"document", "resultContent">>}
    /\ \A r \in Rows : \A f \in Fields[r] : <<r, f>> \in Used
    /\ \A c \in Used : c[1] \in Rows /\ c[2] \in Fields[c[1]] /\ c = <<c[1], c[2]>>
<1>1. Fields["note"] = {"content"} /\ Fields["document"] = {"noteContent", "resultContent"}
  BY DEF Fields
<1>2. Used = {<<"note", "content">>, <<"document", "noteContent">>, <<"document", "resultContent">>}
  BY <1>1 DEF Used, Cells, Rows
<1> QED
  BY <1>1, <1>2 DEF Rows

LEMMA KeyringTypes ==
    ASSUME NEW c \in Configurations
    PROVE  KeyringOf(c) \in Keyrings
<1>1. c.ring \subseteq KeyIds /\ c.active \in KeyIds
  BY DEF Configurations, KeyIds
<1>2. \A k \in KeyIds : KeyOf[k] \in {"old", "new", "newer"}
  BY DEF KeyOf, KeyIds
<1> DEFINE ring == IF c.ring # {} THEN c.ring ELSE {"legacy"}
<1>3. ring \subseteq KeyIds
  BY <1>1 DEF KeyIds
<1>4. KeyringOf(c) = [keys |-> ring, active |-> c.active,
                      legacyKeys |-> {KeyOf[k] : k \in ring} \cup (IF c.single THEN {"old"} ELSE {})]
  BY DEF KeyringOf
<1> HIDE DEF ring
<1>5. {KeyOf[k] : k \in ring} \cup (IF c.single THEN {"old"} ELSE {}) \subseteq {"old", "new", "newer"}
  BY <1>2, <1>3
<1> QED
  BY <1>1, <1>3, <1>4, <1>5 DEF Keyrings

\* encryptFields leaves the text of a field and ties its ciphertext to the cell.
LEMMA EncryptedAtHome ==
    ASSUME CryptTypes, NEW i \in Backends, NEW c \in Used, NEW v \in Values, AtHome(c, v)
    PROVE  /\ Encrypted(i, c, v) \in Values /\ Encrypted(i, c, v).text = v.text
           /\ AtHome(c, Encrypted(i, c, v))
<1>1. CASE isEncrypted(v) \/ v.text = "empty"
  BY <1>1 DEF Encrypted
<1>2. CASE ~(isEncrypted(v) \/ v.text = "empty")
  <2>1. keyring[i].active \in KeyIds /\ v.text \in SavedTexts
    BY DEF CryptTypes, Keyrings, Values, Versions, Legacies
  <2>2. Encrypted(i, c, v) = Versioned(keyring[i].active, c, v.text)
    BY <1>2 DEF Encrypted
  <2>3. Versioned(keyring[i].active, c, v.text) \in Versions
    BY <2>1 DEF Versioned, Versions
  <2> QED
    BY <2>2, <2>3 DEF Versioned, AtHome, Values
<1> QED
  BY <1>1, <1>2

LEMMA BeginSaveKeeps ==
    ASSUME CryptInv, NEW i \in Backends, BeginSave(i)
    PROVE  CryptInv'
<1>1. PICK r \in Rows, text \in SavedTexts :
        entity' = [entity EXCEPT ![i] = [row |-> r, text |-> text,
                     fields |-> [f \in Fields[r] |-> Encrypted(i, <<r, f>>, Plain(text))]]]
  BY DEF BeginSave
<1> DEFINE fields == [f \in Fields[r] |-> Encrypted(i, <<r, f>>, Plain(text))]
           e == [row |-> r, text |-> text, fields |-> fields]
<1>2. Plain(text) \in Values /\ Plain(text).text = text /\ \A c : AtHome(c, Plain(text))
  BY DEF Plain, Values, AtHome
<1>3. \A f \in Fields[r] : /\ fields[f] \in Values /\ fields[f].text = text
                           /\ AtHome(<<r, f>>, fields[f])
  BY <1>2, UsedCells, EncryptedAtHome DEF CryptInv
<1>4. fields \in [Fields[r] -> Values]
  BY <1>3
<1> HIDE DEF fields
<1>5. e \in Entities(r) /\ e.row = r /\ e.text = text /\ e.fields = fields
  BY <1>4 DEF Entities
<1> HIDE DEF e
<1>6. entity' = [entity EXCEPT ![i] = e]
  BY <1>1 DEF e, fields
<1>7. UNCHANGED <<configuration, keyring, cells, written, damages>>
  BY DEF BeginSave
<1>8. CryptTypes'
  BY <1>5, <1>6, <1>7 DEF CryptInv, CryptTypes, Rows
<1>9. EntitiesInv'
  BY <1>3, <1>5, <1>6 DEF CryptInv, CryptTypes, EntitiesInv
<1> QED
  BY <1>7, <1>8, <1>9 DEF CryptInv, CellsInv

LEMMA SaveFailsKeeps ==
    ASSUME CryptInv, NEW i \in Backends, SaveFails(i)
    PROVE  CryptInv'
<1> DEFINE e == entity[i]
           r == e.row
           fields == [f \in DOMAIN e.fields |-> Encrypted(i, <<r, f>>, e.fields[f])]
<1>1. /\ e # NoEntity /\ damages' = damages + 1
      /\ entity' = [entity EXCEPT ![i].fields = fields] \/ entity' = [entity EXCEPT ![i] = NoEntity]
      /\ UNCHANGED <<configuration, keyring, cells, written>>
  BY DEF SaveFails
<1>2. r \in Rows /\ e \in Entities(r) /\ DOMAIN e.fields = Fields[r]
  BY <1>1 DEF CryptInv, CryptTypes, Entities, Rows
<1>3. damages' \in Nat /\ damages' # 0
  BY <1>1 DEF CryptInv, CryptTypes
<1>4. \A f \in Fields[r] : /\ fields[f] \in Values /\ fields[f].text = e.text
                           /\ AtHome(<<r, f>>, fields[f])
  <2> SUFFICES ASSUME NEW f \in Fields[r]
               PROVE  /\ fields[f] \in Values /\ fields[f].text = e.text
                      /\ AtHome(<<r, f>>, fields[f])
    OBVIOUS
  <2>1. e.fields[f] \in Values
    BY <1>2 DEF Entities
  <2>2. e.fields[f].text = e.text /\ AtHome(<<r, f>>, e.fields[f])
    BY <1>1 DEF CryptInv, EntitiesInv
  <2>3. fields[f] = Encrypted(i, <<r, f>>, e.fields[f]) /\ <<r, f>> \in Used
    BY <1>2, UsedCells
  <2> QED
    BY <2>1, <2>2, <2>3, EncryptedAtHome DEF CryptInv
<1>5. CASE entity' = [entity EXCEPT ![i].fields = fields]
  <2>1. fields \in [Fields[r] -> Values]
    BY <1>2, <1>4
  <2> DEFINE n == [e EXCEPT !.fields = fields]
  <2>2. entity' = [entity EXCEPT ![i] = n]
    BY <1>5
  <2> HIDE DEF fields
  <2>3. n \in Entities(r) /\ n.row = r /\ n.text = e.text /\ n.fields = fields
    BY <1>2, <2>1 DEF Entities
  <2> HIDE DEF n
  <2>4. CryptTypes'
    BY <1>1, <1>2, <1>3, <2>2, <2>3 DEF CryptInv, CryptTypes, Rows
  <2>5. EntitiesInv'
    BY <1>4, <2>2, <2>3 DEF CryptInv, CryptTypes, EntitiesInv
  <2> QED
    BY <1>1, <1>3, <2>4, <2>5 DEF CryptInv, CellsInv
<1>6. CASE entity' = [entity EXCEPT ![i] = NoEntity]
  <2>1. CryptTypes' /\ EntitiesInv'
    BY <1>1, <1>3, <1>6 DEF CryptInv, CryptTypes, EntitiesInv
  <2> QED
    BY <1>1, <1>3, <2>1 DEF CryptInv, CellsInv
<1> QED
  BY <1>1, <1>5, <1>6

LEMMA StoreEntityKeeps ==
    ASSUME CryptInv, NEW i \in Backends, StoreEntity(i)
    PROVE  CryptInv'
<1> DEFINE e == entity[i]
<1>1. /\ e # NoEntity
      /\ \/ /\ cells' = [c \in Used |-> IF c[1] = e.row THEN e.fields[c[2]] ELSE cells[c]]
            /\ written' = [c \in Used |-> IF c[1] = e.row THEN e.text ELSE written[c]]
         \/ UNCHANGED <<cells, written>>
      /\ entity' = [entity EXCEPT ![i] = NoEntity]
      /\ UNCHANGED <<configuration, keyring, damages>>
  BY DEF StoreEntity
<1>2. e.row \in Rows /\ e \in Entities(e.row)
  BY <1>1 DEF CryptInv, CryptTypes, Entities, Rows
<1>3. \A c \in Used : c[1] = e.row =>
        /\ e.fields[c[2]] \in Values /\ e.fields[c[2]].text = e.text
        /\ AtHome(c, e.fields[c[2]])
  <2> SUFFICES ASSUME NEW c \in Used, c[1] = e.row
               PROVE  /\ e.fields[c[2]] \in Values /\ e.fields[c[2]].text = e.text
                      /\ AtHome(c, e.fields[c[2]])
    OBVIOUS
  <2>1. c[2] \in Fields[e.row] /\ c = <<e.row, c[2]>>
    BY UsedCells
  <2>2. e.fields[c[2]] \in Values
    BY <1>2, <2>1 DEF Entities
  <2>3. e.fields[c[2]].text = e.text /\ AtHome(<<e.row, c[2]>>, e.fields[c[2]])
    BY <1>1, <2>1 DEF CryptInv, EntitiesInv
  <2> QED
    BY <2>1, <2>2, <2>3
<1>4. e.text \in SavedTexts
  BY <1>2 DEF Entities
<1>5. EntitiesInv'
  BY <1>1 DEF CryptInv, CryptTypes, EntitiesInv
<1>6. CASE UNCHANGED <<cells, written>>
  BY <1>1, <1>5, <1>6 DEF CryptInv, CryptTypes, CellsInv
<1>7. CASE /\ cells' = [c \in Used |-> IF c[1] = e.row THEN e.fields[c[2]] ELSE cells[c]]
           /\ written' = [c \in Used |-> IF c[1] = e.row THEN e.text ELSE written[c]]
  <2>1. cells' \in [Used -> Values] /\ written' \in [Used -> SavedTexts]
    BY <1>3, <1>4, <1>7 DEF CryptInv, CryptTypes
  <2>2. \A c \in Used : /\ cells'[c] = IF c[1] = e.row THEN e.fields[c[2]] ELSE cells[c]
                        /\ written'[c] = IF c[1] = e.row THEN e.text ELSE written[c]
    BY <1>7
  <2>3. CryptTypes' /\ CellsInv'
    BY <1>1, <1>3, <2>1, <2>2 DEF CryptInv, CryptTypes, CellsInv
  <2> QED
    BY <1>5, <2>3 DEF CryptInv
<1> QED
  BY <1>1, <1>6, <1>7

\* One field is damaged or moved: nothing was moved before, so what it gets is of another cell.
LEMMA DamageKeeps ==
    ASSUME CryptInv, MaxDamages \in {0, 1}, NEW c \in Used, Damage(c)
    PROVE  CryptInv'
<1>1. /\ damages < MaxDamages /\ damages' = damages + 1 /\ cells[c].form # "plain"
      /\ UNCHANGED <<configuration, keyring, written, entity>>
  BY DEF Damage
<1>2. damages = 0 /\ damages' = 1
  BY <1>1 DEF CryptInv, CryptTypes
<1>3. PICK v : /\ cells' = [cells EXCEPT ![c] = v] /\ v \in Values /\ v.form # "plain"
               /\ v.intact /\ AtHome(c, v) => v.text = written[c]
  <2>1. CASE cells' = [cells EXCEPT ![c].intact = FALSE]
    <3> DEFINE v == [cells[c] EXCEPT !.intact = FALSE]
    <3>1. cells[c] \in Versions \cup Legacies
      BY <1>1 DEF CryptInv, CryptTypes, Values
    <3>2. v \in Versions \cup Legacies /\ v.form # "plain" /\ ~v.intact
      BY <3>1 DEF Versions, Legacies
    <3>3. cells' = [cells EXCEPT ![c] = v]
      BY <2>1
    <3> HIDE DEF v
    <3> QED
      BY <3>2, <3>3 DEF Values
  <2>2. CASE \E d \in Used \ {c} : /\ cells[d].form = "versioned"
                                   /\ cells' = [cells EXCEPT ![c] = cells[d]]
    <3>1. PICK d \in Used \ {c} : /\ cells[d].form = "versioned"
                                  /\ cells' = [cells EXCEPT ![c] = cells[d]]
      BY <2>2
    <3>2. ~AtHome(c, cells[d]) /\ cells[d] \in Values
      BY <1>2, <3>1 DEF CryptInv, CryptTypes, CellsInv, AtHome
    <3> QED
      BY <3>1, <3>2
  <2> QED
    BY <2>1, <2>2 DEF Damage
<1>4. CryptTypes'
  BY <1>1, <1>2, <1>3 DEF CryptInv, CryptTypes
<1>5. CellsInv'
  BY <1>1, <1>2, <1>3 DEF CryptInv, CryptTypes, CellsInv
<1>6. EntitiesInv'
  BY <1>1 DEF CryptInv, EntitiesInv
<1> QED
  BY <1>4, <1>5, <1>6 DEF CryptInv

LEMMA ConfigurationsKeep ==
    ASSUME CryptInv, \/ Configure \/ UNCHANGED cryptVars
                     \/ \E i \in Backends : Load(i) \/ Restart(i)
    PROVE  CryptInv'
<1>1. CASE Configure
  BY <1>1 DEF Configure, CryptInv, CryptTypes, CellsInv, EntitiesInv
<1>2. CASE UNCHANGED cryptVars
  BY <1>2 DEF cryptVars, CryptInv, CryptTypes, CellsInv, EntitiesInv
<1>3. ASSUME NEW i \in Backends, Load(i) PROVE CryptInv'
  BY <1>3 DEF Load, CryptInv, CryptTypes, CellsInv, EntitiesInv
<1>4. ASSUME NEW i \in Backends, Restart(i) PROVE CryptInv'
  <2>1. KeyringOf(configuration) \in Keyrings
    BY KeyringTypes DEF CryptInv, CryptTypes
  <2>2. CryptTypes'
    BY <1>4, <2>1 DEF Restart, CryptInv, CryptTypes
  <2>3. CellsInv' /\ EntitiesInv'
    BY <1>4 DEF Restart, CryptInv, CryptTypes, CellsInv, EntitiesInv
  <2> QED
    BY <2>2, <2>3 DEF CryptInv
<1> QED
  BY <1>1, <1>2, <1>3, <1>4

\* What the subscriber keeps: a field that was neither damaged nor moved holds the text that was saved
\* last, whatever keys were rotated and saves repeated, when at most one is damaged or moved.
THEOREM CellsHoldTheirTexts ==
    ASSUME MaxDamages \in {0, 1}
    PROVE  CryptSpec => []CryptInv
<1>1. CryptInit => CryptInv
  <2> SUFFICES ASSUME CryptInit PROVE CryptInv
    OBVIOUS
  <2>1. \A c \in Used : /\ cells[c] = Plain("empty") \/ cells[c] = Legacy("old", "one")
                        /\ written[c] = cells[c].text
    BY DEF CryptInit
  <2>2. /\ Plain("empty") \in Values /\ Plain("empty").form = "plain"
        /\ Legacy("old", "one") \in Values /\ Legacy("old", "one").form = "legacy"
        /\ Plain("empty").text \in SavedTexts /\ Legacy("old", "one").text \in SavedTexts
    BY DEF Plain, Legacy, Values, Legacies, SavedTexts
  <2>3. cells \in [Used -> Values] /\ written \in [Used -> SavedTexts]
    <3>1. DOMAIN cells = Used /\ cells = [c \in Used |-> cells[c]]
      BY DEF CryptInit
    <3>2. written = [c \in Used |-> cells[c].text]
      BY DEF CryptInit
    <3> QED
      BY <2>1, <2>2, <3>1, <3>2
  <2>4. configuration \in Configurations /\ keyring = [i \in Backends |-> KeyringOf(configuration)]
    BY DEF CryptInit
  <2>5. CryptTypes
    BY <2>3, <2>4, KeyringTypes DEF CryptInit, CryptTypes
  <2>6. CellsInv
    BY <2>1, <2>2 DEF CellsInv, AtHome
  <2>7. EntitiesInv
    BY DEF CryptInit, EntitiesInv
  <2> QED
    BY <2>5, <2>6, <2>7 DEF CryptInv
<1>2. CryptInv /\ [CryptNext]_cryptVars => CryptInv'
  BY BeginSaveKeeps, StoreEntityKeeps, SaveFailsKeeps, DamageKeeps, ConfigurationsKeep DEF CryptNext
<1> QED
  BY <1>1, <1>2, PTL DEF CryptSpec

\* EncryptionSubscriber reads back what was saved last, an error or a blank field with a cause: for any
\* instances, rotations, repeated saves, and one damaged or moved field.
THEOREM SavedTextIsRead ==
    ASSUME MaxDamages \in {0, 1}
    PROVE  CryptSpec => ReadsBack
<1> DEFINE Sound(c, value, read, i) ==
             \/ read = written[c]
             \/ /\ read = IF c[1] = "document" THEN "empty" ELSE "error"
                /\ \/ value = Plain("lookalike")
                   \/ value.form # "plain" /\ ~value.intact
                   \/ value.form = "versioned" /\ (value.aad # c \/ value.kid \notin keyring[i].keys)
                   \/ value.form = "legacy" /\ value.key \notin keyring[i].legacyKeys
<1>1. ASSUME CryptInv, NEW i \in Backends, NEW c \in Used
      PROVE  Sound(c, cells[c], Decrypted(i, c, cells[c]), i)
  <2> DEFINE v == cells[c]
  <2>1. v.form \in {"plain", "versioned", "legacy"}
    BY <1>1 DEF CryptInv, CryptTypes, Values, Versions, Legacies
  <2>2. CASE v.form = "plain"
    <3>1. v = Plain(v.text)
      BY <1>1, <2>2 DEF CryptInv, CryptTypes, Values, Versions, Legacies, Plain
    <3>2. CASE v.text = "lookalike"
      <4>1. Decrypted(i, c, v) = IF c[1] = "document" THEN "empty" ELSE "error"
        BY <2>2, <3>2 DEF Decrypted, isEncrypted, Decryptable
      <4> QED
        BY <3>1, <3>2, <4>1
    <3>3. CASE v.text # "lookalike"
      BY <1>1, <2>2, <3>3 DEF CryptInv, CellsInv, Decrypted, isEncrypted
    <3> QED
      BY <3>2, <3>3
  <2>3. CASE v.form # "plain" /\ Decryptable(i, c, v)
    BY <1>1, <2>3 DEF CryptInv, CellsInv, Decrypted, isEncrypted, Decryptable, AtHome
  <2>4. CASE v.form # "plain" /\ ~Decryptable(i, c, v)
    <3>1. Decrypted(i, c, v) = IF c[1] = "document" THEN "empty" ELSE "error"
      BY <2>4 DEF Decrypted, isEncrypted
    <3> QED
      BY <2>1, <2>4, <3>1 DEF Decryptable
  <2> QED
    BY <2>2, <2>3, <2>4
<1>2. ASSUME CryptInv, [CryptNext]_cryptVars, NEW i \in Backends,
             answer' # answer, answer'.row # "none", answer'.by = i, NEW f \in DOMAIN answer'.fields
      PROVE  Sound(<<answer'.row, f>>, cells[<<answer'.row, f>>], answer'.fields[f], i)
  <2>1. \E j \in Backends : Load(j)
    BY <1>2 DEF CryptNext, cryptVars, BeginSave, StoreEntity, SaveFails, Restart, Damage, Configure,
                NoAnswer
  <2>2. PICK j \in Backends, r \in Rows :
          answer' = [row |-> r, by |-> j,
                     fields |-> [g \in Fields[r] |-> Decrypted(j, <<r, g>>, cells[<<r, g>>])]]
    BY <2>1 DEF Load
  <2>3. /\ answer'.row = r /\ j = i /\ f \in Fields[r] /\ <<r, f>> \in Used
        /\ answer'.fields[f] = Decrypted(i, <<r, f>>, cells[<<r, f>>])
    BY <1>2, <2>2, UsedCells
  <2> HIDE DEF Sound
  <2> QED
    BY <1>1, <1>2, <2>3
<1>3. CryptInv /\ [CryptNext]_cryptVars =>
        [\A i \in Backends : answer' # answer /\ answer'.row # "none" /\ answer'.by = i =>
           \A f \in DOMAIN answer'.fields :
             LET c == <<answer'.row, f>>
                 value == cells[c]
             IN \/ answer'.fields[f] = written[c]
                \/ /\ answer'.fields[f] = IF answer'.row = "document" THEN "empty" ELSE "error"
                   /\ \/ value = Plain("lookalike")
                      \/ value.form # "plain" /\ ~value.intact
                      \/ value.form = "versioned" /\ (value.aad # c \/ value.kid \notin keyring[i].keys)
                      \/ value.form = "legacy" /\ value.key \notin keyring[i].legacyKeys]_cryptVars
  BY <1>2
<1> QED
  BY <1>3, CellsHoldTheirTexts, PTL DEF CryptSpec, ReadsBack

-----------------------------------------------------------------------------
(***************************************************************************)
(* The search.  A document is missing, up to date, about to be refreshed   *)
(* or suspected (DocumentsInv).  A search that is about to read them has   *)
(* one of every meeting, or knows that it was deleted since (FindInv).     *)
(***************************************************************************)
Copies == [Scopes -> IndexedTexts]
Documents == {NoDocument} \cup [kind : {"document"}, fields : Copies]
RefreshesUnderWay == [of : Meetings, by : {"save", "search"},
                      at : {"meeting", "texts", "delete", "invalidate"},
                      copy : Copies, left : SUBSET Scopes]

SearchTypeInv ==
    /\ texts \in [Meetings -> Copies] /\ trashed \subseteq Meetings
    /\ documents \in [Meetings -> Documents]
    /\ refreshes \in Seq(RefreshesUnderWay)
    /\ changes \in Nat

\* The search under way has its fields, and was begun no later than now.
QueryInv ==
    /\ search = [at |-> search.at, scope |-> search.scope, page |-> search.page,
                 missing |-> search.missing, over |-> search.over, ok |-> search.ok,
                 results |-> search.results, since |-> search.since,
                 dropped |-> search.dropped, doubt |-> search.doubt]
    /\ search.missing \subseteq Meetings
    /\ search.since \in Nat /\ search.since <= changes

\* The document of m is gone or has the texts of m, or it is known that it may not.
Fresh(m) ==
    \/ m \in suspect
    \/ documents[m] \in {NoDocument, DocumentOf(texts[m])}
    \/ \E i \in DOMAIN refreshes : refreshes[i].of = m

DocumentsInv == \A m \in Meetings : Fresh(m)

\* Between the check and the reading every document is there, or was deleted in between.
FindInv == search.at = "find" /\ changes = search.since =>
               \A m \in NotTrashed : documents[m] # NoDocument \/ m \in search.dropped

SearchInv == SearchTypeInv /\ QueryInv /\ DocumentsInv /\ FindInv /\ SearchFindsWhatIsStored

LEMMA RemoveOne ==
  ASSUME NEW S, NEW s \in Seq(S), NEW i \in DOMAIN s
  PROVE  /\ RemoveAt(s, i) \in Seq(S)
         /\ \A j \in DOMAIN s \ {i} : \E k \in DOMAIN RemoveAt(s, i) : RemoveAt(s, i)[k] = s[j]
<1> DEFINE n == Len(s)
           a == SubSeq(s, 1, i - 1)
           b == SubSeq(s, i + 1, n)
           r == a \o b
<1>1. n \in Nat /\ DOMAIN s = 1..n /\ i \in 1..n /\ RemoveAt(s, i) = r
  BY DEF RemoveAt
<1>2. \A j \in 1..n : s[j] \in S
  BY <1>1
<1>3. a \in Seq(S) /\ Len(a) = i - 1 /\ \A j \in 1..(i - 1) : a[j] = s[j]
  <2>1. i - 1 \in Int /\ \A j \in 1..(i - 1) : s[j] \in S
    BY <1>1, <1>2
  <2>2. /\ a \in Seq(S) /\ Len(a) = IF 1 <= i - 1 THEN i - 1 - 1 + 1 ELSE 0
        /\ \A j \in 1..(i - 1 - 1 + 1) : a[j] = s[1 + j - 1]
    BY <2>1, SubSeqProperties
  <2>3. (IF 1 <= i - 1 THEN i - 1 - 1 + 1 ELSE 0) = i - 1 /\ i - 1 - 1 + 1 = i - 1
    BY <1>1
  <2>4. \A j \in 1..(i - 1) : 1 + j - 1 = j
    BY <1>1
  <2>5. \A j \in 1..(i - 1) : a[j] = s[j]
    BY <2>2, <2>3, <2>4, Zenon
  <2> HIDE DEF a
  <2> QED BY <2>2, <2>3, <2>5, Zenon
<1>4. b \in Seq(S) /\ Len(b) = n - i /\ \A j \in 1..(n - i) : b[j] = s[i + j]
  <2>1. i + 1 \in Int /\ n \in Int /\ \A j \in (i + 1)..n : s[j] \in S
    BY <1>1, <1>2
  <2>2. /\ b \in Seq(S) /\ Len(b) = IF i + 1 <= n THEN n - (i + 1) + 1 ELSE 0
        /\ \A j \in 1..(n - (i + 1) + 1) : b[j] = s[i + 1 + j - 1]
    BY <2>1, SubSeqProperties
  <2>3. n - (i + 1) + 1 = n - i /\ \A j \in 1..(n - i) : i + 1 + j - 1 = i + j
    BY <1>1
  <2>4. \A j \in 1..(n - i) : b[j] = s[i + j]
    BY <2>2, <2>3, Zenon
  <2> HIDE DEF b
  <2> QED BY <1>1, <2>2, <2>3, <2>4
<1>5. r \in Seq(S) /\ Len(r) = n - 1 /\ DOMAIN r = 1..(n - 1)
  <2>1. r \in Seq(S) /\ Len(r) = (i - 1) + (n - i)
    <3> HIDE DEF a, b
    <3> QED BY <1>3, <1>4, ConcatProperties
  <2> HIDE DEF r
  <2> QED BY <1>1, <2>1
<1>6. \A k \in 1..(n - 1) : r[k] = IF k <= i - 1 THEN a[k] ELSE b[k - (i - 1)]
  <2>1. \A k \in 1..((i - 1) + (n - i)) : r[k] = IF k <= i - 1 THEN a[k] ELSE b[k - (i - 1)]
    <3> HIDE DEF a, b
    <3> QED BY <1>3, <1>4, ConcatProperties
  <2>2. (i - 1) + (n - i) = n - 1
    BY <1>1
  <2> HIDE DEF r
  <2> QED BY <2>1, <2>2
<1>7. ASSUME NEW j \in 1..n, j < i  PROVE r[j] = s[j] /\ j \in DOMAIN r
  <2> HIDE DEF a, b, r
  <2> QED BY <1>7, <1>1, <1>3, <1>5, <1>6
<1>8. ASSUME NEW j \in 1..n, j > i  PROVE r[j - 1] = s[j] /\ j - 1 \in DOMAIN r
  <2> HIDE DEF a, b, r
  <2>1. /\ j - 1 \in 1..(n - 1) /\ ~(j - 1 <= i - 1) /\ j - i \in 1..(n - i)
        /\ j - 1 - (i - 1) = j - i /\ i + (j - i) = j
    BY <1>8, <1>1
  <2>2. r[j - 1] = b[j - i]
    BY <2>1, <1>6
  <2> QED BY <2>1, <2>2, <1>4, <1>5
<1>9. ASSUME NEW j \in DOMAIN s \ {i}  PROVE \E k \in DOMAIN r : r[k] = s[j]
  <2> HIDE DEF a, b, r
  <2>1. j \in 1..n /\ (j < i \/ j > i)
    BY <1>1, <1>9
  <2>2. CASE j < i
    BY <2>1, <2>2, <1>7
  <2>3. CASE j > i
    BY <2>1, <2>3, <1>8
  <2> QED BY <2>1, <2>2, <2>3
<1> QED
  BY <1>1, <1>5, <1>9

LEMMA DocumentIsTyped ==
  ASSUME NEW t \in Copies
  PROVE  DocumentOf(t) \in Documents /\ \A f \in Scopes : limitText(t[f]) \in IndexedTexts
BY DEF DocumentOf, Documents, Copies, limitText, IndexedTexts

LEMMA NoDocumentIsTyped == NoDocument \in Documents
BY DEF Documents

LEMMA RefreshTypes ==
  ASSUME NEW m \in Meetings, NEW by \in {"save", "search"}
  PROVE  Refresh(m, by) \in RefreshesUnderWay /\ Refresh(m, by).of = m
<1>1. [f \in Scopes |-> "none"] \in Copies
  BY DEF Copies, IndexedTexts
<1> QED BY <1>1 DEF Refresh, RefreshesUnderWay

LEMMA SearchBeginsWell == SearchInit => SearchInv
<1> SUFFICES ASSUME SearchInit PROVE SearchInv
  OBVIOUS
<1>1. SearchTypeInv
  <2>1. texts \in [Meetings -> Copies]
    <3>1. \A m \in Meetings :
            [f \in Scopes |-> IF f = "title" /\ m = LastMeeting THEN "early" ELSE "none"] \in Copies
      BY DEF Copies, IndexedTexts
    <3> QED BY <3>1 DEF SearchInit
  <2>2. documents \in [Meetings -> Documents]
    BY NoDocumentIsTyped DEF SearchInit
  <2>3. refreshes \in Seq(RefreshesUnderWay) /\ trashed = {} /\ changes = 0
    BY DEF SearchInit
  <2> QED BY <2>1, <2>2, <2>3 DEF SearchTypeInv
<1>2. QueryInv
  BY DEF SearchInit, QueryInv, NoSearch
<1>3. DocumentsInv
  BY DEF SearchInit, DocumentsInv, Fresh
<1>4. FindInv /\ SearchFindsWhatIsStored
  BY DEF SearchInit, FindInv, SearchFindsWhatIsStored, NoSearch
<1> QED BY <1>1, <1>2, <1>3, <1>4 DEF SearchInv

\* A change of the tables ends what is known of the search under way.
LEMMA ChangeIsNoticed ==
  ASSUME SearchInv, search' = search, changes' = changes + 1
  PROVE  QueryInv' /\ FindInv' /\ SearchFindsWhatIsStored'
<1>1. search.since \in Nat /\ changes \in Nat /\ search.since <= changes
  BY DEF SearchInv, QueryInv, SearchTypeInv
<1>2. changes' # search'.since /\ search'.since <= changes'
  BY <1>1
<1>3. QueryInv'
  BY <1>2 DEF SearchInv, QueryInv
<1> QED BY <1>2, <1>3 DEF FindInv, SearchFindsWhatIsStored

\* An answer stays what it was while the tables do.
LEMMA AnswerStays ==
  ASSUME SearchFindsWhatIsStored, UNCHANGED <<texts, trashed, changes>>,
         search'.at = search.at, search'.since = search.since, search'.results = search.results,
         search'.scope = search.scope, search'.page = search.page, search'.doubt = search.doubt
  PROVE  SearchFindsWhatIsStored'
<1>1. NotTrashed' = NotTrashed /\ InTexts' = InTexts /\ InCurrentDocuments' = InCurrentDocuments
  BY DEF NotTrashed, InTexts, InCurrentDocuments
<1>2. \A h : Found(NotTrashed, h, search.page)' = Found(NotTrashed, h, search.page)
  BY <1>1
<1>3. Found(NotTrashed, InTexts, search.page)' = Found(NotTrashed, InTexts, search.page)
  BY <1>1
<1> QED BY <1>1, <1>2, <1>3 DEF SearchFindsWhatIsStored

\* A document that was fresh stays so when nothing of it changes.
LEMMA FreshStays ==
  ASSUME NEW m \in Meetings, Fresh(m), UNCHANGED <<documents[m], texts[m]>>,
         m \in suspect => m \in suspect',
         \A i \in DOMAIN refreshes : refreshes[i].of = m =>
            \E k \in DOMAIN refreshes' : refreshes'[k].of = m
  PROVE  Fresh(m)'
BY DEF Fresh

\* A refresh is begun: those under way stay, and one of its meeting is among them.
LEMMA RefreshBegins ==
  ASSUME refreshes \in Seq(RefreshesUnderWay), NEW m \in Meetings, NEW by \in {"save", "search"},
         refreshes' = Append(refreshes, Refresh(m, by))
  PROVE  /\ refreshes' \in Seq(RefreshesUnderWay)
         /\ DOMAIN refreshes \subseteq DOMAIN refreshes'
         /\ \A i \in DOMAIN refreshes : refreshes'[i].of = refreshes[i].of
         /\ \E i \in DOMAIN refreshes' : refreshes'[i].of = m
<1> DEFINE r == Refresh(m, by)
<1>1. r \in RefreshesUnderWay /\ r.of = m
  BY RefreshTypes
<1>2. refreshes' = Append(refreshes, r)
  OBVIOUS
<1> HIDE DEF r
<1>3. /\ refreshes' \in Seq(RefreshesUnderWay)
      /\ DOMAIN refreshes = 1..Len(refreshes) /\ DOMAIN refreshes' = 1..(Len(refreshes) + 1)
      /\ Len(refreshes) \in Nat
      /\ \A i \in 1..Len(refreshes) : refreshes'[i] = refreshes[i]
      /\ refreshes'[Len(refreshes) + 1] = r
  BY <1>1, <1>2
<1>4. Len(refreshes) + 1 \in DOMAIN refreshes' /\ DOMAIN refreshes \subseteq DOMAIN refreshes'
  BY <1>3
<1> QED BY <1>1, <1>3, <1>4, Zenon

LEMMA SaveTextKeeps ==
  ASSUME SearchInv, NEW m \in Meetings, NEW f \in Scopes, SaveText(m, f)
  PROVE  SearchInv'
<1>1. PICK t \in IndexedTexts : texts' = [texts EXCEPT ![m][f] = t]
  BY DEF SaveText, TextsOf, IndexedTexts
<1>2. /\ refreshes' = Append(refreshes, Refresh(m, "save")) /\ changes' = changes + 1
      /\ UNCHANGED <<trashed, documents, search, suspect>>
  BY DEF SaveText
<1>3. SearchTypeInv
  BY DEF SearchInv
<1>4. /\ refreshes' \in Seq(RefreshesUnderWay)
      /\ DOMAIN refreshes \subseteq DOMAIN refreshes'
      /\ \A i \in DOMAIN refreshes : refreshes'[i].of = refreshes[i].of
      /\ \E i \in DOMAIN refreshes' : refreshes'[i].of = m
  BY <1>2, <1>3, RefreshBegins DEF SearchTypeInv
<1>5. SearchTypeInv'
  <2>1. texts' \in [Meetings -> Copies]
    BY <1>1, <1>3 DEF SearchTypeInv, Copies
  <2> QED BY <1>2, <1>3, <1>4, <2>1 DEF SearchTypeInv
<1>6. DocumentsInv'
  <2>1. ASSUME NEW n \in Meetings  PROVE Fresh(n)'
    <3>1. CASE n = m
      BY <3>1, <1>4 DEF Fresh
    <3>2. CASE n # m
      <4>1. Fresh(n) /\ texts'[n] = texts[n]
        BY <3>2, <1>1, <1>3 DEF SearchInv, DocumentsInv, SearchTypeInv
      <4> QED BY <4>1, <1>2, <1>4, FreshStays, Zenon
    <3> QED BY <3>1, <3>2
  <2> QED BY <2>1 DEF DocumentsInv
<1> QED BY <1>2, <1>5, <1>6, ChangeIsNoticed DEF SearchInv

LEMMA SaveSegmentsKeeps ==
  ASSUME SearchInv, NEW m \in Meetings, SaveSegments(m)
  PROVE  SearchInv'
<1>1. PICK t \in IndexedTexts : texts' = [texts EXCEPT ![m]["transcript"] = t]
  BY DEF SaveSegments
<1>2. /\ suspect' = suspect \cup {m} /\ changes' = changes + 1
      /\ UNCHANGED <<trashed, documents, refreshes, search>>
  BY DEF SaveSegments
<1>3. SearchTypeInv
  BY DEF SearchInv
<1>4. SearchTypeInv'
  <2>1. texts' \in [Meetings -> Copies]
    BY <1>1, <1>3 DEF SearchTypeInv, Copies
  <2> QED BY <1>2, <1>3, <2>1 DEF SearchTypeInv
<1>5. DocumentsInv'
  <2>1. ASSUME NEW n \in Meetings  PROVE Fresh(n)'
    <3>1. CASE n = m
      BY <3>1, <1>2 DEF Fresh
    <3>2. CASE n # m
      <4>1. Fresh(n) /\ texts'[n] = texts[n]
        BY <3>2, <1>1, <1>3 DEF SearchInv, DocumentsInv, SearchTypeInv
      <4> QED BY <4>1, <1>2 DEF Fresh
    <3> QED BY <3>1, <3>2
  <2> QED BY <2>1 DEF DocumentsInv
<1> QED BY <1>2, <1>4, <1>5, ChangeIsNoticed DEF SearchInv

LEMMA TrashOrRestoreKeeps ==
  ASSUME SearchInv, NEW m \in Meetings, TrashOrRestore(m)
  PROVE  SearchInv'
<1>1. /\ trashed' \in {trashed \ {m}, trashed \cup {m}} /\ changes' = changes + 1
      /\ UNCHANGED <<texts, documents, refreshes, search, suspect>>
  BY DEF TrashOrRestore
<1>2. SearchTypeInv'
  BY <1>1 DEF SearchInv, SearchTypeInv
<1>3. DocumentsInv'
  BY <1>1 DEF SearchInv, DocumentsInv, Fresh
<1> QED BY <1>1, <1>2, <1>3, ChangeIsNoticed DEF SearchInv

LEMMA RefreshIsTyped ==
  ASSUME SearchInv, NEW i \in DOMAIN refreshes
  PROVE  /\ SearchTypeInv /\ refreshes[i] \in RefreshesUnderWay
         /\ refreshes[i].of \in Meetings /\ texts[refreshes[i].of] \in Copies
<1>1. SearchTypeInv /\ refreshes \in Seq(RefreshesUnderWay)
  BY DEF SearchInv, SearchTypeInv
<1>2. refreshes[i] \in RefreshesUnderWay
  BY <1>1
<1>3. refreshes[i].of \in Meetings
  BY <1>2 DEF RefreshesUnderWay
<1> QED BY <1>1, <1>2, <1>3 DEF SearchTypeInv

\* A refresh goes on: it is still one of its meeting.
LEMMA RefreshMoves ==
  ASSUME SearchInv, NEW i \in DOMAIN refreshes, NEW e \in RefreshesUnderWay,
         e.of = refreshes[i].of, refreshes' = [refreshes EXCEPT ![i] = e],
         UNCHANGED <<texts, trashed, documents, search, changes, suspect>>
  PROVE  SearchInv'
<1>1. /\ refreshes' \in Seq(RefreshesUnderWay) /\ DOMAIN refreshes' = DOMAIN refreshes
      /\ \A j \in DOMAIN refreshes : refreshes'[j].of = refreshes[j].of
  BY DEF SearchInv, SearchTypeInv
<1>2. SearchTypeInv'
  BY <1>1 DEF SearchInv, SearchTypeInv
<1>3. DocumentsInv'
  BY <1>1 DEF SearchInv, DocumentsInv, Fresh
<1>4. QueryInv' /\ FindInv'
  BY DEF SearchInv, QueryInv, FindInv, NotTrashed
<1>5. SearchFindsWhatIsStored'
  BY AnswerStays DEF SearchInv
<1> QED BY <1>2, <1>3, <1>4, <1>5 DEF SearchInv

LEMMA RefreshReadsKeeps ==
  ASSUME SearchInv, NEW i \in DOMAIN refreshes,
         RefreshReadsMeeting(i) \/ (\E f \in Scopes : RefreshReadsText(i, f)) \/ RefreshFails(i)
  PROVE  SearchInv'
<1> DEFINE r == refreshes[i]
           m == r.of
<1>1. r \in RefreshesUnderWay /\ m \in Meetings /\ texts[m] \in Copies
  BY RefreshIsTyped
<1>2. r.copy \in Copies /\ r.left \subseteq Scopes /\ r.by \in {"save", "search"}
  BY <1>1 DEF RefreshesUnderWay
<1>3. CASE RefreshReadsMeeting(i)
  <2>1. UNCHANGED <<texts, trashed, documents, search, changes, suspect>>
    BY <1>3 DEF RefreshReadsMeeting
  <2>2. CASE m \in trashed
    <3> DEFINE e == [r EXCEPT !.at = "delete"]
    <3>1. refreshes' = [refreshes EXCEPT ![i] = e]
      BY <1>3, <2>2 DEF RefreshReadsMeeting
    <3>2. e \in RefreshesUnderWay /\ e.of = m
      BY <1>1 DEF RefreshesUnderWay
    <3> HIDE DEF e
    <3> QED BY <2>1, <3>1, <3>2, RefreshMoves
  <2>3. CASE m \notin trashed
    <3> DEFINE copy == [r.copy EXCEPT !["title"] = texts[m]["title"]]
               e == [r EXCEPT !.at = "texts", !.copy = copy]
    <3>1. refreshes' = [refreshes EXCEPT ![i] = e]
      BY <1>3, <2>3 DEF RefreshReadsMeeting
    <3>2. copy \in Copies
      BY <1>1, <1>2 DEF Copies
    <3> HIDE DEF copy
    <3>3. e \in RefreshesUnderWay /\ e.of = m
      BY <1>1, <3>2 DEF RefreshesUnderWay
    <3> HIDE DEF e
    <3> QED BY <2>1, <3>1, <3>3, RefreshMoves
  <2> QED BY <2>2, <2>3
<1>4. CASE \E f \in Scopes : RefreshReadsText(i, f)
  <2>1. PICK f \in Scopes : RefreshReadsText(i, f)
    BY <1>4
  <2> DEFINE copy == [r.copy EXCEPT ![f] = limitText(texts[m][f])]
             e == [r EXCEPT !.left = r.left \ {f}, !.copy = copy]
  <2>2. refreshes' = [refreshes EXCEPT ![i] = e]
    BY <2>1 DEF RefreshReadsText
  <2>3. limitText(texts[m][f]) \in IndexedTexts
    BY <1>1, DocumentIsTyped
  <2>4. copy \in Copies
    BY <1>2, <2>3 DEF Copies
  <2> HIDE DEF copy
  <2>5. e \in RefreshesUnderWay /\ e.of = m
    BY <1>1, <1>2, <2>4 DEF RefreshesUnderWay
  <2> HIDE DEF e
  <2>6. UNCHANGED <<texts, trashed, documents, search, changes, suspect>>
    BY <2>1 DEF RefreshReadsText
  <2> QED BY <2>2, <2>5, <2>6, RefreshMoves
<1>5. CASE RefreshFails(i)
  <2> DEFINE e == [Refresh(m, r.by) EXCEPT !.at = "invalidate"]
  <2>1. /\ refreshes' = [refreshes EXCEPT ![i] = e]
        /\ UNCHANGED <<texts, trashed, documents, search, changes, suspect>>
    BY <1>5 DEF RefreshFails
  <2>2. Refresh(m, r.by) \in RefreshesUnderWay /\ Refresh(m, r.by).of = m
    BY <1>1, <1>2, RefreshTypes
  <2>3. e \in RefreshesUnderWay /\ e.of = m
    BY <2>2 DEF RefreshesUnderWay
  <2> HIDE DEF e
  <2> QED BY <2>1, <2>3, RefreshMoves
<1> QED BY <1>3, <1>4, <1>5

\* A refresh ends: what the others find does not depend on it, its own document is fresh or suspected,
\* and a search that is about to read knows when it was deleted.
LEMMA RefreshLeaves ==
  ASSUME SearchInv, NEW i \in DOMAIN refreshes, NEW ok, NEW D, Ended(i, ok, D),
         UNCHANGED <<texts, trashed, changes>>,
         NEW d \in Documents,
         documents' \in {documents, [documents EXCEPT ![refreshes[i].of] = d]},
         suspect \ {refreshes[i].of} \subseteq suspect',
         \/ refreshes[i].of \in suspect'
         \/ documents'[refreshes[i].of] \in {NoDocument, DocumentOf(texts[refreshes[i].of])},
         \/ documents' = documents
         \/ documents'[refreshes[i].of] # NoDocument
         \/ refreshes[i].of \in D
  PROVE  SearchInv'
<1> DEFINE m == refreshes[i].of
<1>1. SearchTypeInv /\ refreshes[i] \in RefreshesUnderWay /\ m \in Meetings /\ QueryInv
  BY RefreshIsTyped DEF SearchInv
<1>2. refreshes' = RemoveAt(refreshes, i)
  BY DEF Ended
<1>3. /\ refreshes' \in Seq(RefreshesUnderWay)
      /\ \A j \in DOMAIN refreshes \ {i} : \E k \in DOMAIN refreshes' : refreshes'[k] = refreshes[j]
  BY <1>1, <1>2, RemoveOne DEF SearchTypeInv
<1>4. SearchTypeInv'
  BY <1>1, <1>3 DEF SearchTypeInv
<1>5. DocumentsInv'
  <2>1. ASSUME NEW n \in Meetings  PROVE Fresh(n)'
    <3>1. CASE n = m
      BY <3>1 DEF Fresh
    <3>2. CASE n # m
      <4>1. Fresh(n) /\ documents'[n] = documents[n] /\ (n \in suspect => n \in suspect')
        BY <3>2, <1>1 DEF SearchInv, DocumentsInv, SearchTypeInv
      <4>2. ASSUME NEW j \in DOMAIN refreshes, refreshes[j].of = n
            PROVE  \E k \in DOMAIN refreshes' : refreshes'[k].of = n
        <5>1. j # i
          BY <4>2, <3>2
        <5> QED BY <4>2, <5>1, <1>3
      <4> QED BY <4>1, <4>2, FreshStays
    <3> QED BY <3>1, <3>2
  <2> QED BY <2>1 DEF DocumentsInv
<1> DEFINE missing == IF refreshes[i].by = "search" THEN search.missing \ {m} ELSE search.missing
           fine == IF refreshes[i].by = "search" THEN search.ok /\ ok ELSE search.ok
           gone == IF search.at = "find" THEN search.dropped \cup D ELSE search.dropped
<1>6. search' = [search EXCEPT !.missing = missing, !.ok = fine, !.dropped = gone]
  BY DEF Ended
<1>7. missing \subseteq Meetings /\ (search.at = "find" => gone = search.dropped \cup D)
  BY <1>1 DEF QueryInv
<1> HIDE DEF missing, fine, gone
<1>8. search' = [at |-> search.at, scope |-> search.scope, page |-> search.page,
                 missing |-> missing, over |-> search.over, ok |-> fine,
                 results |-> search.results, since |-> search.since,
                 dropped |-> gone, doubt |-> search.doubt]
  BY <1>1, <1>6 DEF QueryInv
<1>9. /\ search'.at = search.at /\ search'.since = search.since /\ search'.results = search.results
      /\ search'.scope = search.scope /\ search'.page = search.page /\ search'.doubt = search.doubt
      /\ search'.dropped = gone /\ search'.missing = missing
  BY <1>8
<1>10. QueryInv'
  BY <1>1, <1>7, <1>8 DEF QueryInv
<1>11. FindInv'
  <2> SUFFICES ASSUME search.at = "find", changes = search.since, NEW n \in NotTrashed
               PROVE  documents'[n] # NoDocument \/ n \in gone
    BY <1>9 DEF FindInv, NotTrashed
  <2>1. documents[n] # NoDocument \/ n \in search.dropped
    BY DEF SearchInv, FindInv
  <2>2. n # m => documents'[n] = documents[n]
    BY <1>1 DEF SearchTypeInv, NotTrashed
  <2> QED BY <1>7, <2>1, <2>2
<1>12. SearchFindsWhatIsStored'
  BY <1>9, AnswerStays DEF SearchInv
<1> QED BY <1>4, <1>5, <1>10, <1>11, <1>12 DEF SearchInv

LEMMA RefreshSavesKeeps ==
  ASSUME SearchInv, NEW i \in DOMAIN refreshes, RefreshSaves(i)
  PROVE  SearchInv'
<1> DEFINE m == refreshes[i].of
           d == [kind |-> "document", fields |-> refreshes[i].copy]
<1>1. SearchTypeInv /\ m \in Meetings /\ refreshes[i] \in RefreshesUnderWay
  BY RefreshIsTyped
<1>2. d \in Documents /\ d # NoDocument
  BY <1>1 DEF Documents, RefreshesUnderWay, NoDocument
<1>3. /\ documents' = [documents EXCEPT ![m] = d] /\ Ended(i, TRUE, {})
      /\ suspect' = IF d = DocumentOf(texts[m]) THEN suspect \ {m} ELSE suspect \cup {m}
      /\ UNCHANGED <<texts, trashed, changes>>
  BY DEF RefreshSaves
<1> HIDE DEF d
<1>4. documents'[m] = d
  BY <1>1, <1>3 DEF SearchTypeInv
<1>5. suspect \ {m} \subseteq suspect' /\ (m \in suspect' \/ documents'[m] = DocumentOf(texts[m]))
  BY <1>3, <1>4
<1> QED BY <1>2, <1>3, <1>4, <1>5, RefreshLeaves

LEMMA RefreshDeletesKeeps ==
  ASSUME SearchInv, NEW i \in DOMAIN refreshes, RefreshDeletes(i) \/ RefreshInvalidates(i)
  PROVE  SearchInv'
<1> DEFINE m == refreshes[i].of
<1>1. SearchTypeInv /\ m \in Meetings
  BY RefreshIsTyped
<1>2. UNCHANGED <<texts, trashed, changes>>
  BY DEF RefreshDeletes, RefreshInvalidates
<1>3. ASSUME NEW ok, Ended(i, ok, {m}), suspect' = suspect \ {m},
             documents' = [documents EXCEPT ![m] = NoDocument]
      PROVE  SearchInv'
  <2>1. documents'[m] = NoDocument
    BY <1>1, <1>3 DEF SearchTypeInv
  <2> QED BY <1>2, <1>3, <2>1, NoDocumentIsTyped, RefreshLeaves
<1>4. CASE RefreshDeletes(i)
  BY <1>3, <1>4 DEF RefreshDeletes
<1>5. CASE documents' = Invalidated(m) /\ suspect' = suspect \ {m} /\ Ended(i, FALSE, {m})
  BY <1>3, <1>5 DEF Invalidated
<1>6. CASE suspect' = suspect \cup {m} /\ UNCHANGED documents /\ Ended(i, FALSE, {})
  BY <1>2, <1>6, NoDocumentIsTyped, RefreshLeaves
<1> QED BY <1>4, <1>5, <1>6 DEF RefreshInvalidates

\* A step of the search leaves the tables, the documents and who is suspected.
Untouched == UNCHANGED <<texts, trashed, documents, changes, suspect>>

LEMMA BeginSearchKeeps ==
  ASSUME SearchInv, beginSearch
  PROVE  SearchInv'
<1>1. Untouched /\ refreshes' = refreshes /\ changes \in Nat
  BY DEF beginSearch, Untouched, SearchInv, SearchTypeInv
<1>2. \A n \in Nat : findMissingMeetingIds(n) \subseteq Meetings
  BY DEF findMissingMeetingIds, Uncovered, NotTrashed
<1>3. findMissingMeetingIds(CoverageBatch) \subseteq Meetings
  BY DEF findMissingMeetingIds, Uncovered, NotTrashed
<1>4. PICK scope \in Queried, page \in Pages :
        \/ search' = [[NoSearch EXCEPT !.scope = scope, !.page = page, !.since = changes] EXCEPT
                        !.at = "cover", !.missing = findMissingMeetingIds(CoverageBatch),
                        !.over = findMissingMeetingIds(CoverageBatch + 1)
                                   # findMissingMeetingIds(CoverageBatch)]
        \/ search' = [[NoSearch EXCEPT !.scope = scope, !.page = page, !.since = changes] EXCEPT
                        !.at = "legacy"]
  BY DEF beginSearch
<1> DEFINE missing == findMissingMeetingIds(CoverageBatch)
           over == findMissingMeetingIds(CoverageBatch + 1) # findMissingMeetingIds(CoverageBatch)
<1>5. \/ search' = [at |-> "cover", scope |-> scope, page |-> page, missing |-> missing, over |-> over,
                    ok |-> TRUE, results |-> <<>>, since |-> changes, dropped |-> {}, doubt |-> {}]
      \/ search' = [at |-> "legacy", scope |-> scope, page |-> page, missing |-> {}, over |-> FALSE,
                    ok |-> TRUE, results |-> <<>>, since |-> changes, dropped |-> {}, doubt |-> {}]
  <2> HIDE DEF missing, over
  <2>1. \/ search' = [[NoSearch EXCEPT !.scope = scope, !.page = page, !.since = changes] EXCEPT
                        !.at = "cover", !.missing = missing, !.over = over]
        \/ search' = [[NoSearch EXCEPT !.scope = scope, !.page = page, !.since = changes] EXCEPT
                        !.at = "legacy"]
    BY <1>4 DEF missing, over
  <2> QED BY <2>1 DEF NoSearch
<1> HIDE DEF missing, over
<1>6. QueryInv' /\ search'.at \in {"cover", "legacy"}
  BY <1>1, <1>3, <1>5 DEF QueryInv, Untouched, missing
<1>7. FindInv' /\ SearchFindsWhatIsStored'
  BY <1>6 DEF FindInv, SearchFindsWhatIsStored
<1> QED
  BY <1>1, <1>6, <1>7 DEF SearchInv, SearchTypeInv, DocumentsInv, Fresh, Untouched

LEMMA EnsureCoverageKeeps ==
  ASSUME SearchInv, ensureCoverage
  PROVE  SearchInv'
<1>1. PICK m \in search.missing : refreshes' = Append(refreshes, Refresh(m, "search"))
  BY DEF ensureCoverage
<1>2. Untouched /\ search' = search /\ m \in Meetings /\ SearchTypeInv
  BY <1>1 DEF ensureCoverage, Untouched, SearchInv, QueryInv
<1>3. /\ refreshes' \in Seq(RefreshesUnderWay)
      /\ DOMAIN refreshes \subseteq DOMAIN refreshes'
      /\ \A i \in DOMAIN refreshes : refreshes'[i].of = refreshes[i].of
  BY <1>1, <1>2, RefreshBegins DEF SearchTypeInv
<1>4. SearchTypeInv'
  BY <1>2, <1>3 DEF SearchTypeInv, Untouched
<1>5. DocumentsInv'
  BY <1>2, <1>3 DEF SearchInv, DocumentsInv, Fresh, Untouched
<1>6. QueryInv' /\ FindInv'
  BY <1>2 DEF SearchInv, QueryInv, FindInv, NotTrashed, Untouched
<1>7. SearchFindsWhatIsStored'
  BY <1>2, AnswerStays DEF SearchInv, Untouched
<1> QED BY <1>4, <1>5, <1>6, <1>7 DEF SearchInv

\* The last look of ensureCoverage lets the documents be read when it misses none.
LEMMA CheckCoverageKeeps ==
  ASSUME SearchInv, checkCoverage
  PROVE  SearchInv'
<1>1. Untouched /\ refreshes' = refreshes /\ QueryInv
  BY DEF checkCoverage, Untouched, SearchInv
<1>2. \E at \in {"find", "legacy"} : /\ search' = [search EXCEPT !.at = at]
                                     /\ at = "find" => Uncovered = {}
  <2>1. CASE search' = [search EXCEPT !.at = IF search.ok /\ ~search.over /\ Uncovered = {}
                                             THEN "find" ELSE "legacy"]
    <3>1. CASE search.ok /\ ~search.over /\ Uncovered = {}
      BY <2>1, <3>1
    <3>2. CASE ~(search.ok /\ ~search.over /\ Uncovered = {})
      BY <2>1, <3>2
    <3> QED BY <3>1, <3>2
  <2>2. CASE search' = [search EXCEPT !.at = "legacy"]
    BY <2>2
  <2> QED BY <2>1, <2>2 DEF checkCoverage
<1>3. PICK at \in {"find", "legacy"} : /\ search' = [search EXCEPT !.at = at]
                                       /\ at = "find" => Uncovered = {}
  BY <1>2
<1>4. QueryInv' /\ search'.at = at
  BY <1>1, <1>3 DEF QueryInv, Untouched
<1>5. FindInv'
  BY <1>1, <1>3, <1>4 DEF FindInv, Uncovered, NotTrashed, Untouched
<1>6. SearchFindsWhatIsStored'
  BY <1>4 DEF SearchFindsWhatIsStored
<1> QED
  BY <1>1, <1>4, <1>5, <1>6 DEF SearchInv, SearchTypeInv, DocumentsInv, Fresh, Untouched

\* Who is in doubt when the documents are read.
Doubted == search.dropped \cup suspect \cup {refreshes[i].of : i \in DOMAIN refreshes}

\* The documents that are not in doubt when they are read are there and up to date.
LEMMA DocumentsAreUpToDate ==
  ASSUME SearchInv, search.at = "find", changes = search.since, NEW m \in NotTrashed \ Doubted
  PROVE  InDocuments[m] = InCurrentDocuments[m]
<1>1. m \in Meetings /\ m \notin suspect /\ ~\E i \in DOMAIN refreshes : refreshes[i].of = m
  BY DEF NotTrashed, Doubted
<1>2. documents[m] # NoDocument
  BY DEF SearchInv, FindInv, Doubted
<1>3. documents[m] = DocumentOf(texts[m])
  BY <1>1, <1>2 DEF SearchInv, DocumentsInv, Fresh
<1> QED BY <1>1, <1>2, <1>3 DEF InDocuments, InCurrentDocuments, Covered

\* The field of a match is one of the texts, or none.
LEMMA MatchIsTyped ==
  ASSUME NEW fields, NEW scope
  PROVE  MatchedIn(fields, scope) \in Scopes \cup {"none"}
<1> DEFINE hits == {i \in DOMAIN TextOrder : /\ TextOrder[i] \in Scopes
                                             /\ scope \in {TextOrder[i], "all"}
                                             /\ fields[TextOrder[i]] # "none"}
<1>1. MatchedIn(fields, scope) = IF hits = {} THEN "none" ELSE TextOrder[Min(hits)]
  BY DEF MatchedIn
<1>2. hits \subseteq 1..4 /\ \A i \in hits : TextOrder[i] \in Scopes
  BY DEF TextOrder
<1> HIDE DEF hits
<1>3. CASE hits = {}
  BY <1>1, <1>3
<1>4. CASE hits # {}
  <2>1. \E x \in hits : \A y \in hits : x <= y
    <3>1. hits \subseteq {1, 2, 3, 4}
      BY <1>2
    <3>2. CASE 1 \in hits
      BY <3>1, <3>2
    <3>3. CASE 1 \notin hits /\ 2 \in hits
      BY <3>1, <3>3
    <3>4. CASE 1 \notin hits /\ 2 \notin hits /\ 3 \in hits
      BY <3>1, <3>4
    <3>5. CASE 1 \notin hits /\ 2 \notin hits /\ 3 \notin hits
      <4>1. 4 \in hits /\ \A y \in hits : y = 4
        BY <1>4, <3>1, <3>5
      <4> QED BY <4>1
    <3> QED BY <3>2, <3>3, <3>4, <3>5
  <2>2. Min(hits) \in hits
    BY <2>1 DEF Min
  <2> QED BY <1>1, <1>2, <1>4, <2>2
<1> QED BY <1>3, <1>4

LEMMA ProjectionKeeps ==
  ASSUME SearchInv, searchProjection
  PROVE  SearchInv'
<1>1. Untouched /\ refreshes' = refreshes /\ QueryInv /\ search.at = "find"
  BY DEF searchProjection, Untouched, SearchInv
<1>2. CASE search' = [search EXCEPT !.at = "answered",
                                    !.results = Found(NotTrashed, InDocuments, search.page),
                                    !.doubt = search.dropped \cup suspect
                                                \cup {refreshes[i].of : i \in DOMAIN refreshes}]
  <2> DEFINE results == Found(NotTrashed, InDocuments, search.page)
             doubt == Doubted
  <2>1. search' = [search EXCEPT !.at = "answered", !.results = results, !.doubt = doubt]
    BY <1>2 DEF Doubted
  <2> HIDE DEF results, doubt
  <2>2. /\ QueryInv' /\ search'.at = "answered" /\ search'.results = results
        /\ search'.since = search.since /\ search'.doubt = doubt
        /\ search'.scope = search.scope /\ search'.page = search.page
    BY <1>1, <2>1 DEF QueryInv, Untouched
  <2>3. FindInv'
    BY <2>2 DEF FindInv
  <2>4. SearchFindsWhatIsStored'
    <3> SUFFICES ASSUME changes = search.since
                 PROVE  (\E matchedIn \in [Meetings -> Scopes \cup {"none"}] :
                           /\ \A m \in NotTrashed \ search.doubt : matchedIn[m] = InCurrentDocuments[m]
                           /\ search.results = Found(NotTrashed, matchedIn, search.page))'
      BY <1>1, <2>2 DEF SearchFindsWhatIsStored, Untouched
    <3>1. InDocuments \in [Meetings -> Scopes \cup {"none"}]
      BY MatchIsTyped DEF InDocuments
    <3>2. \A m \in NotTrashed \ doubt : InDocuments[m] = InCurrentDocuments[m]
      BY <1>1, DocumentsAreUpToDate DEF doubt
    <3>3. NotTrashed' = NotTrashed /\ InCurrentDocuments' = InCurrentDocuments
      BY <1>1, <2>2 DEF NotTrashed, InCurrentDocuments, Untouched
    <3>4. \A h : Found(NotTrashed, h, search.page)' = Found(NotTrashed, h, search.page)
      BY <2>2, <3>3
    <3>5. search'.results = Found(NotTrashed, InDocuments, search.page)
      BY <2>2 DEF results
    <3> HIDE DEF results
    <3>6. PICK h \in [Meetings -> Scopes \cup {"none"}] :
             /\ \A m \in NotTrashed \ doubt : h[m] = InCurrentDocuments[m]
             /\ search'.results = Found(NotTrashed, h, search.page)
      BY <3>1, <3>2, <3>5
    <3> QED BY <2>2, <3>3, <3>4, <3>6
  <2> QED
    BY <1>1, <2>2, <2>3, <2>4 DEF SearchInv, SearchTypeInv, DocumentsInv, Fresh, Untouched
<1>3. CASE search' = [search EXCEPT !.at = "legacy"]
  <2>1. QueryInv' /\ search'.at = "legacy"
    BY <1>1, <1>3 DEF QueryInv, Untouched
  <2>2. FindInv' /\ SearchFindsWhatIsStored'
    BY <2>1 DEF FindInv, SearchFindsWhatIsStored
  <2> QED
    BY <1>1, <2>1, <2>2 DEF SearchInv, SearchTypeInv, DocumentsInv, Fresh, Untouched
<1> QED BY <1>2, <1>3 DEF searchProjection

LEMMA LegacyKeeps ==
  ASSUME SearchInv, searchLegacy
  PROVE  SearchInv'
<1>1. Untouched /\ refreshes' = refreshes /\ QueryInv
  BY DEF searchLegacy, Untouched, SearchInv
<1> DEFINE results == Found(NotTrashed, InTexts, search.page)
<1>2. search' = [search EXCEPT !.at = "answered", !.results = results]
  BY DEF searchLegacy
<1> HIDE DEF results
<1>3. /\ QueryInv' /\ search'.at = "answered" /\ search'.results = results
      /\ search'.scope = search.scope /\ search'.page = search.page
  BY <1>1, <1>2 DEF QueryInv, Untouched
<1>4. Found(NotTrashed, InTexts, search.page)' = Found(NotTrashed, InTexts, search.page)
  BY <1>1, <1>3 DEF InTexts, NotTrashed, Untouched
<1>5. FindInv' /\ SearchFindsWhatIsStored'
  BY <1>3, <1>4 DEF FindInv, SearchFindsWhatIsStored, results
<1> QED
  BY <1>1, <1>3, <1>5 DEF SearchInv, SearchTypeInv, DocumentsInv, Fresh, Untouched

LEMMA EndSearchKeeps ==
  ASSUME SearchInv, endSearch
  PROVE  SearchInv'
<1>1. Untouched /\ refreshes' = refreshes /\ search' = NoSearch
  BY DEF endSearch, Untouched
<1>2. QueryInv' /\ FindInv' /\ SearchFindsWhatIsStored'
  BY <1>1 DEF QueryInv, FindInv, SearchFindsWhatIsStored, NoSearch, SearchInv, SearchTypeInv, Untouched
<1> QED
  BY <1>1, <1>2 DEF SearchInv, SearchTypeInv, DocumentsInv, Fresh, Untouched

LEMMA SearchStutters ==
  ASSUME SearchInv, UNCHANGED searchVars
  PROVE  SearchInv'
<1>1. UNCHANGED <<texts, trashed, documents, refreshes, search, changes, suspect>>
  BY DEF searchVars
<1>2. SearchFindsWhatIsStored'
  BY <1>1, AnswerStays DEF SearchInv
<1> QED
  BY <1>1, <1>2 DEF SearchInv, SearchTypeInv, QueryInv, DocumentsInv, Fresh, FindInv, NotTrashed

\* What every step of the search keeps: a document is missing, up to date, about to be refreshed or
\* suspected; and between the last look of ensureCoverage and the reading of the documents none is
\* deleted that the search does not know of, unless the meetings change.
THEOREM DocumentsKeepUp == SearchSpec => []SearchInv
<1>1. SearchInit => SearchInv
  BY SearchBeginsWell
<1>2. SearchInv /\ [SearchNext]_searchVars => SearchInv'
  <2> SUFFICES ASSUME SearchInv, [SearchNext]_searchVars PROVE SearchInv'
    OBVIOUS
  <2>1. CASE \E m \in Meetings : \E f \in Scopes : SaveText(m, f)
    BY <2>1, SaveTextKeeps
  <2>2. CASE \E m \in Meetings : SaveSegments(m) \/ TrashOrRestore(m)
    BY <2>2, SaveSegmentsKeeps, TrashOrRestoreKeeps
  <2>3. ASSUME NEW i \in DOMAIN refreshes,
               \/ RefreshReadsMeeting(i) \/ (\E f \in Scopes : RefreshReadsText(i, f))
               \/ RefreshSaves(i) \/ RefreshDeletes(i) \/ RefreshFails(i) \/ RefreshInvalidates(i)
        PROVE  SearchInv'
    BY <2>3, RefreshReadsKeeps, RefreshSavesKeeps, RefreshDeletesKeeps
  <2>4. CASE \/ beginSearch \/ ensureCoverage \/ checkCoverage
             \/ searchProjection \/ searchLegacy \/ endSearch
    BY <2>4, BeginSearchKeeps, EnsureCoverageKeeps, CheckCoverageKeeps, ProjectionKeeps, LegacyKeeps,
       EndSearchKeeps
  <2>5. CASE UNCHANGED searchVars
    BY <2>5, SearchStutters
  <2> QED BY <2>1, <2>2, <2>3, <2>4, <2>5, Zenon DEF SearchNext
<1> QED BY <1>1, <1>2, PTL DEF SearchSpec

\* A search that meets no change answers what the tables hold, save for single meetings that it could
\* name, for any number of meetings, any size of a page or of the coverage batch, and whatever
\* refreshes failed, were overtaken, never ran or deleted a document between the check and the reading.
THEOREM SearchIsExact == SearchSpec => []SearchFindsWhatIsStored
<1>1. SearchInv => SearchFindsWhatIsStored
  BY DEF SearchInv
<1> QED BY <1>1, DocumentsKeepUp, PTL
===============================================================================
