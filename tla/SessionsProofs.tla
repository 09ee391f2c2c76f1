--------------------------- MODULE SessionsProofs ---------------------------
(***************************************************************************)
(* Proofs about sessions, for every value of the constants of              *)
(* Sessions.tla.                                                           *)
(*                                                                         *)
(* What a cookie says is not inductive by itself: a refresh's answer lands *)
(* later and is the cookie from then on.  SessionInv asks the same of the  *)
(* cookie and of the answers under way, and adds that none was minted      *)
(* after the browser's last activity.                                      *)
(***************************************************************************)
EXTENDS Sessions, TLAPS

\* What holds of a token in a browser that was last active at time a.
Holds(t, a) ==
    /\ t \in Token
    /\ t.seen <= a
    /\ ~t.acted => t.acct = t.person /\ t.epoch = t.born
    /\ t.acct \in Operators => t.acct = t.person
    /\ t.operator # None => t.operator = t.person /\ t.acct \in Workspaces /\ t.acted

Held(t, a) == t = None \/ Holds(t, a)

BrowserHolds(b) ==
    /\ active[b] <= now
    /\ Held(cookie[b], active[b])
    /\ \A x \in Tabs : Held(reply[b][x], active[b])

SessionInv == TypeOK /\ \A b \in Browsers : BrowserHolds(b)

-----------------------------------------------------------------------------
(* Tokens *)

LEMMA TimeBounds ==
    ASSUME ConstantsOK
    PROVE  Idle \in Nat /\ MaxAge \in Nat /\ MaxTime \in Nat /\ MaxEpoch \in Nat
  BY DEF ConstantsOK

LEMMA AccountsApart ==
    ASSUME ConstantsOK
    PROVE  Operators \cap Workspaces = {} /\ None \notin Operators \cup Workspaces
  BY DEF ConstantsOK

\* A token stays good when the browser is active again.
LEMMA HeldLonger ==
    ASSUME ConstantsOK, NEW t, NEW a \in Time, NEW z \in Time, a <= z, Held(t, a)
    PROVE  Held(t, z)
<1>1. CASE t = None
  BY <1>1 DEF Held
<1>2. CASE Holds(t, a)
  <2>1. t.seen \in Time
    BY <1>2 DEF Holds, Token
  <2>2. t.seen <= z
    BY <1>2, <2>1, TimeBounds DEF Holds, Time
  <2> QED
    BY <1>2, <2>2 DEF Held, Holds
<1> QED
  BY <1>1, <1>2 DEF Held

\* The token of a sign-in is good.
LEMMA SignedInHolds ==
    ASSUME ConstantsOK, TypeOK, NEW o \in Operators
    PROVE  Holds([acct |-> o, epoch |-> account[o].epoch, seen |-> now, operator |-> None,
                  person |-> o, born |-> account[o].epoch, acted |-> FALSE], now)
<1> DEFINE t == [acct |-> o, epoch |-> account[o].epoch, seen |-> now, operator |-> None,
                 person |-> o, born |-> account[o].epoch, acted |-> FALSE]
<1>1. o \in Accounts
  BY DEF Accounts
<1>2. account[o].epoch \in 0..MaxEpoch /\ now \in Time
  BY <1>1 DEF TypeOK
<1>3. t \in Token
  BY <1>1, <1>2 DEF Token
<1>4. now <= now
  BY <1>2, TimeBounds DEF Time
<1> QED
  BY <1>3, <1>4 DEF Holds

\* A refresh mints a good token from a good one.
LEMMA SlideHolds ==
    ASSUME ConstantsOK, TypeOK, NEW t, NEW a \in Time, Holds(t, a)
    PROVE  Holds(Slide(t), now)
<1>1. now \in Time /\ now <= now
  BY TimeBounds DEF TypeOK, Time
<1>2. t \in Token
  BY DEF Holds
<1>3. Slide(t) \in Token
  BY <1>1, <1>2 DEF Slide, Token
<1>4. /\ Slide(t).seen = now
      /\ Slide(t).operator = None
      /\ Slide(t).acct = t.acct /\ Slide(t).person = t.person
      /\ Slide(t).epoch = t.epoch /\ Slide(t).born = t.born /\ Slide(t).acted = t.acted
  BY <1>2 DEF Slide, Token
<1> QED
  BY <1>1, <1>3, <1>4 DEF Holds

\* A switch mints a good token from a good one of the agency's own tenant.
LEMMA SwitchedHolds ==
    ASSUME ConstantsOK, TypeOK, NEW t, NEW a \in Time, Holds(t, a), NEW w \in Workspaces,
           t.acct \in Operators
    PROVE  Holds([t EXCEPT !.acct = w, !.epoch = account[w].epoch, !.seen = now,
                           !.operator = t.acct, !.acted = TRUE], now)
<1> DEFINE u == [t EXCEPT !.acct = w, !.epoch = account[w].epoch, !.seen = now,
                          !.operator = t.acct, !.acted = TRUE]
<1>1. now \in Time /\ now <= now
  BY TimeBounds DEF TypeOK, Time
<1>2. t \in Token /\ t.acct = t.person
  BY DEF Holds
<1>3. w \in Accounts /\ account[w].epoch \in 0..MaxEpoch
  BY DEF Accounts, TypeOK
<1>4. u \in Token
  BY <1>1, <1>2, <1>3 DEF Token
<1>5. /\ u.acct = w /\ u.seen = now /\ u.operator = t.acct /\ u.person = t.person
      /\ u.acted = TRUE
  BY <1>2 DEF Token
<1>6. w \notin Operators
  BY AccountsApart
<1>7. Holds(u, now)
  <2> HIDE DEF u
  <2> QED
    BY <1>1, <1>2, <1>4, <1>5, <1>6 DEF Holds
<1> QED
  BY <1>7

\* An exit mints a good token from a good one that is acting.
LEMMA ExitedHolds ==
    ASSUME ConstantsOK, TypeOK, NEW t, NEW a \in Time, Holds(t, a), t.operator # None
    PROVE  Holds([t EXCEPT !.acct = t.operator, !.epoch = account[t.operator].epoch,
                           !.seen = now, !.operator = None], now)
<1> DEFINE o == t.operator
           u == [t EXCEPT !.acct = o, !.epoch = account[o].epoch, !.seen = now,
                          !.operator = None]
<1>1. now \in Time /\ now <= now
  BY TimeBounds DEF TypeOK, Time
<1>2. t \in Token /\ o = t.person
  BY DEF Holds
<1>3. o \in Operators
  BY <1>2 DEF Token
<1>4. o \in Accounts /\ account[o].epoch \in 0..MaxEpoch
  BY <1>3 DEF Accounts, TypeOK
<1>5. u \in Token
  BY <1>1, <1>2, <1>4 DEF Token
<1>6. /\ u.acct = o /\ u.seen = now /\ u.operator = None /\ u.person = t.person
      /\ u.acted = t.acted
  BY <1>2 DEF Token
<1>7. Holds(u, now)
  <2> HIDE DEF u
  <2> QED
    BY <1>1, <1>2, <1>5, <1>6 DEF Holds
<1> QED
  BY <1>7

-----------------------------------------------------------------------------
(* Steps *)

LEMMA InitHolds == ASSUME ConstantsOK PROVE Init => SessionInv
<1> SUFFICES ASSUME Init PROVE SessionInv
  OBVIOUS
<1>1. 0 \in Time /\ 0 \in 0..MaxEpoch /\ 0 <= 0
  BY TimeBounds DEF Time
<1>2. TypeOK
  BY <1>1 DEF Init, TypeOK
<1>3. ASSUME NEW b \in Browsers PROVE BrowserHolds(b)
  BY <1>1 DEF Init, BrowserHolds, Held
<1> QED
  BY <1>2, <1>3 DEF SessionInv

\* A cookie that is set is the cookie of a browser that is active now.
LEMMA SetCookieHolds ==
    ASSUME ConstantsOK, SessionInv, NEW b \in Browsers, NEW t, Held(t, now), SetCookie(b, t),
           UNCHANGED <<account, reply, audit, now>>
    PROVE  SessionInv'
<1>1. TypeOK
  BY DEF SessionInv
<1>2. t \in Token \cup {None}
  BY DEF Held, Holds
<1>3. TypeOK'
  BY <1>1, <1>2 DEF TypeOK, SetCookie
<1>4. ASSUME NEW c \in Browsers PROVE BrowserHolds(c)'
  <2>1. BrowserHolds(c) /\ active[c] \in Time /\ now \in Time
    BY <1>1 DEF SessionInv, TypeOK
  <2>2. CASE c # b
    BY <1>1, <2>1, <2>2 DEF BrowserHolds, SetCookie, TypeOK, Held, Holds
  <2>3. CASE c = b
    <3>1. cookie'[b] = t /\ active'[b] = now /\ reply'[b] = reply[b] /\ now' = now
      BY <1>1 DEF SetCookie, TypeOK
    <3>2. now <= now
      BY <2>1, TimeBounds DEF Time
    <3>3. \A x \in Tabs : Held(reply[b][x], now)
      BY <2>1, <2>3, HeldLonger DEF BrowserHolds
    <3> QED
      BY <2>3, <3>1, <3>2, <3>3 DEF BrowserHolds, Held, Holds
  <2> QED
    BY <2>2, <2>3
<1> QED
  BY <1>3, <1>4 DEF SessionInv

\* A step that leaves the browsers alone leaves their tokens good.
LEMMA BrowsersRest ==
    ASSUME ConstantsOK, SessionInv, UNCHANGED <<cookie, reply, active>>, TypeOK',
           now' \in Time, now <= now'
    PROVE  SessionInv'
<1>1. ASSUME NEW b \in Browsers PROVE BrowserHolds(b)'
  <2>1. BrowserHolds(b) /\ active[b] \in Time /\ now \in Time
    BY DEF SessionInv, TypeOK
  <2>2. active[b] <= now'
    BY <2>1, TimeBounds DEF BrowserHolds, Time
  <2> QED
    BY <2>1, <2>2 DEF BrowserHolds, Held, Holds
<1> QED
  BY <1>1 DEF SessionInv

LEMMA StepHolds == ASSUME ConstantsOK PROVE SessionInv /\ [Next]_vars => SessionInv'
<1> SUFFICES ASSUME SessionInv, [Next]_vars PROVE SessionInv'
  OBVIOUS
<1> USE DEF SessionInv
<1>0. TypeOK /\ now \in Time /\ now <= now
  BY TimeBounds DEF TypeOK, Time
<1>1. ASSUME NEW b \in Browsers, NEW o \in Operators, SignIn(b, o) PROVE SessionInv'
  <2> DEFINE t == [acct |-> o, epoch |-> account[o].epoch, seen |-> now, operator |-> None,
                   person |-> o, born |-> account[o].epoch, acted |-> FALSE]
  <2>1. Held(t, now)
    BY <1>0, SignedInHolds DEF Held
  <2>2. SetCookie(b, t) /\ UNCHANGED <<account, reply, audit, now>>
    BY <1>1 DEF SignIn
  <2> HIDE DEF t
  <2> QED
    BY <2>1, <2>2, SetCookieHolds
<1>2. ASSUME NEW b \in Browsers, Mutate(b) PROVE SessionInv'
  <2>1. cookie[b] \in Token
    BY <1>0, <1>2 DEF Mutate, Accepted, TypeOK
  <2>2. [account |-> cookie[b].acct, operator |-> cookie[b].operator]
            \in [account: Accounts, operator: Operators \cup {None}]
    BY <2>1 DEF Token
  <2>3. TypeOK'
    BY <1>0, <1>2, <2>2 DEF Mutate, TypeOK
  <2>4. ASSUME NEW c \in Browsers PROVE BrowserHolds(c)'
    <3>1. BrowserHolds(c) /\ active[c] \in Time
      BY <1>0 DEF TypeOK
    <3>2. active'[c] \in Time /\ active[c] <= active'[c] /\ active'[c] <= now'
      BY <1>0, <1>2, <3>1, TimeBounds DEF Mutate, TypeOK, BrowserHolds, Time
    <3>3. Held(cookie[c], active'[c]) /\ \A x \in Tabs : Held(reply[c][x], active'[c])
      BY <3>1, <3>2, HeldLonger DEF BrowserHolds
    <3> QED
      BY <1>2, <3>2, <3>3 DEF Mutate, BrowserHolds, Held, Holds
  <2> QED
    BY <2>3, <2>4
<1>3. ASSUME NEW b \in Browsers, NEW x \in Tabs, Refresh(b, x) PROVE SessionInv'
  <2>1. Holds(cookie[b], active[b]) /\ active[b] \in Time
    BY <1>0, <1>3 DEF Refresh, Accepted, BrowserHolds, Held, TypeOK
  <2>2. Holds(Slide(cookie[b]), now)
    BY <1>0, <2>1, SlideHolds
  <2>3. Slide(cookie[b]) \in Token
    BY <2>2 DEF Holds
  <2>4. TypeOK'
    BY <1>0, <1>3, <2>3 DEF Refresh, TypeOK
  <2>5. ASSUME NEW c \in Browsers PROVE BrowserHolds(c)'
    <3>1. BrowserHolds(c) /\ active[c] \in Time
      BY <1>0 DEF TypeOK
    <3>2. CASE c # b
      BY <1>0, <1>3, <3>1, <3>2 DEF Refresh, TypeOK, BrowserHolds, Held, Holds
    <3>3. CASE c = b
      <4>1. /\ reply'[b][x] = Slide(cookie[b]) /\ active'[b] = now
            /\ \A y \in Tabs \ {x} : reply'[b][y] = reply[b][y]
            /\ cookie'[b] = cookie[b] /\ now' = now
        BY <1>0, <1>3 DEF Refresh, TypeOK
      <4>2. Held(cookie[b], now) /\ \A y \in Tabs : Held(reply[b][y], now)
        BY <1>0, <3>1, <3>3, HeldLonger DEF BrowserHolds
      <4>3. ASSUME NEW y \in Tabs PROVE Held(reply'[b][y], now)
        BY <2>2, <4>1, <4>2 DEF Held
      <4> QED
        BY <1>0, <3>3, <4>1, <4>2, <4>3 DEF BrowserHolds, Held, Holds
    <3> QED
      BY <3>2, <3>3
  <2> QED
    BY <2>4, <2>5
<1>4. ASSUME NEW b \in Browsers, NEW x \in Tabs, Land(b, x) \/ LoseReply(b, x)
      PROVE  SessionInv'
  <2>1. reply[b][x] \in Token \cup {None}
    BY <1>0 DEF TypeOK
  <2>2. /\ reply' = [reply EXCEPT ![b][x] = None]
        /\ cookie' \in {cookie, [cookie EXCEPT ![b] = reply[b][x]]}
        /\ UNCHANGED <<account, active, audit, now>>
    BY <1>4 DEF Land, LoseReply
  <2>3. TypeOK'
    BY <1>0, <2>1, <2>2 DEF TypeOK
  <2>4. ASSUME NEW c \in Browsers PROVE BrowserHolds(c)'
    <3>1. BrowserHolds(c) /\ BrowserHolds(b)
      OBVIOUS
    <3>2. Held(cookie'[c], active[c])
      BY <1>0, <2>2, <3>1 DEF TypeOK, BrowserHolds
    <3>3. ASSUME NEW y \in Tabs PROVE Held(reply'[c][y], active[c])
      <4>1. reply'[c][y] \in {None, reply[c][y]}
        BY <1>0, <2>2 DEF TypeOK
      <4> QED
        BY <3>1, <4>1 DEF BrowserHolds, Held
    <3> QED
      BY <2>2, <3>1, <3>2, <3>3 DEF BrowserHolds, Held, Holds
  <2> QED
    BY <2>3, <2>4
<1>5. ASSUME NEW b \in Browsers, NEW w \in Workspaces, SwitchTo(b, w) PROVE SessionInv'
  <2> DEFINE t == [cookie[b] EXCEPT !.acct = w, !.epoch = account[w].epoch, !.seen = now,
                                    !.operator = cookie[b].acct, !.acted = TRUE]
  <2>1. Holds(cookie[b], active[b]) /\ active[b] \in Time
    BY <1>0, <1>5 DEF SwitchTo, Accepted, BrowserHolds, Held, TypeOK
  <2>2. cookie[b].acct \in Operators
    BY <1>5 DEF SwitchTo
  <2>3. Held(t, now)
    BY <1>0, <2>1, <2>2, SwitchedHolds DEF Held
  <2>4. SetCookie(b, t) /\ UNCHANGED <<account, reply, audit, now>>
    BY <1>5 DEF SwitchTo
  <2> HIDE DEF t
  <2> QED
    BY <2>3, <2>4, SetCookieHolds
<1>6. ASSUME NEW b \in Browsers, Exit(b) PROVE SessionInv'
  <2> DEFINE o == cookie[b].operator
             t == [cookie[b] EXCEPT !.acct = o, !.epoch = account[o].epoch, !.seen = now,
                                    !.operator = None]
  <2>1. Holds(cookie[b], active[b]) /\ active[b] \in Time
    BY <1>0, <1>6 DEF Exit, Accepted, BrowserHolds, Held, TypeOK
  <2>2. o # None
    BY <1>6 DEF Exit
  <2>3. Held(t, now)
    BY <1>0, <2>1, <2>2, ExitedHolds DEF Held
  <2>4. SetCookie(b, t) /\ UNCHANGED <<account, reply, audit, now>>
    BY <1>6 DEF Exit
  <2> HIDE DEF t
  <2> QED
    BY <2>3, <2>4, SetCookieHolds
<1>7. ASSUME NEW b \in Browsers, Logout(b) PROVE SessionInv'
  <2>1. Held(None, now)
    BY DEF Held
  <2> QED
    BY <1>7, <2>1, SetCookieHolds DEF Logout
<1>8. ASSUME NEW u \in Accounts, NEW s \in {"active", "disabled"}, SetStatus(u, s)
      PROVE SessionInv'
  <2>1. TypeOK'
    BY <1>0, <1>8 DEF SetStatus, TypeOK
  <2> QED
    BY <1>0, <1>8, <2>1, BrowsersRest DEF SetStatus
<1>9. ASSUME NEW u \in Accounts, RevokeSessions(u) \/ ScimDisable(u) PROVE SessionInv'
  <2>1. account[u].epoch + 1 \in 0..MaxEpoch
    BY <1>0, <1>9, TimeBounds DEF RevokeSessions, ScimDisable, TypeOK
  <2>2. TypeOK'
    BY <1>0, <1>9, <2>1 DEF RevokeSessions, ScimDisable, TypeOK
  <2> QED
    BY <1>0, <1>9, <2>2, BrowsersRest DEF RevokeSessions, ScimDisable
<1>10. CASE Tick
  <2>1. now' \in Time /\ now <= now'
    BY <1>0, <1>10, TimeBounds DEF Tick, Time
  <2>2. TypeOK'
    BY <1>0, <1>10, <2>1 DEF Tick, TypeOK
  <2> QED
    BY <1>10, <2>1, <2>2, BrowsersRest DEF Tick
<1>11. CASE UNCHANGED vars
  <2>1. TypeOK'
    BY <1>0, <1>11 DEF vars, TypeOK
  <2> QED
    BY <1>0, <1>11, <2>1, BrowsersRest DEF vars
<1> QED
  BY <1>1, <1>2, <1>3, <1>4, <1>5, <1>6, <1>7, <1>8, <1>9, <1>10, <1>11 DEF Next

THEOREM SessionsHold == ASSUME ConstantsOK PROVE Spec => []SessionInv
  BY InitHolds, StepHolds, PTL DEF Spec

-----------------------------------------------------------------------------
(* Results *)

\* The variables always have their types.
THEOREM TypeCorrect == ASSUME ConstantsOK PROVE Spec => []TypeOK
<1>1. SessionInv => TypeOK
  BY DEF SessionInv
<1> QED
  BY <1>1, SessionsHold, PTL

\* Revoking an operator's sessions forces a fresh sign-in: a session that has
\* not acted inside a workspace and is accepted was born under today's epoch.
THEOREM RevocationForcesSignIn == ASSUME ConstantsOK PROVE Spec => []RevokedMustSignIn
<1>1. SessionInv => RevokedMustSignIn
  <2> SUFFICES ASSUME SessionInv, NEW b \in Browsers, Accepted(b), ~cookie[b].acted
               PROVE  cookie[b].born = account[cookie[b].person].epoch
    BY DEF RevokedMustSignIn
  <2>1. Holds(cookie[b], active[b])
    BY DEF SessionInv, BrowserHolds, Held, Accepted
  <2>2. account[cookie[b].acct].epoch = cookie[b].epoch
    BY DEF Accepted, Live
  <2> QED
    BY <2>1, <2>2 DEF Holds
<1> QED
  BY <1>1, SessionsHold, PTL

\* A browser without activity for the idle timeout is not accepted, however
\* late a refresh's answer lands.
THEOREM IdleSessionsLapse == ASSUME ConstantsOK PROVE Spec => []IdleLapses
<1>1. SessionInv => IdleLapses
  <2> SUFFICES ASSUME SessionInv, NEW b \in Browsers, Accepted(b)
               PROVE  now - active[b] <= Idle
    BY DEF IdleLapses
  <2>1. Holds(cookie[b], active[b])
    BY DEF SessionInv, BrowserHolds, Held, Accepted
  <2>2. cookie[b].seen \in Time /\ active[b] \in Time /\ now \in Time
    BY <2>1 DEF Holds, Token, SessionInv, TypeOK
  <2>3. now - cookie[b].seen <= Idle
    BY DEF Accepted, Fresh
  <2>4. cookie[b].seen <= active[b]
    BY <2>1 DEF Holds
  <2> QED
    BY <2>2, <2>3, <2>4, TimeBounds DEF Time
<1> QED
  BY <1>1, SessionsHold, PTL

\* Switching, exiting and refreshing lead a person back to the person's own
\* account, never into a colleague's.
THEOREM PeopleStayPut == ASSUME ConstantsOK PROVE Spec => []PersonStaysPut
<1>1. SessionInv => PersonStaysPut
  BY DEF SessionInv, BrowserHolds, Held, Holds, PersonStaysPut
<1> QED
  BY <1>1, SessionsHold, PTL
=============================================================================
