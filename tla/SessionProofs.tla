---------------------------- MODULE SessionProofs ----------------------------
(***************************************************************************)
(* The web client around its pages, for any tokens, rows and filters.      *)
(*   The session: who gets one, and what becomes of one whose token is     *)
(* gone.  The argument rests on the callback page: until it has set the    *)
(* session no request is in flight that a 401 could answer, so the token   *)
(* it has exchanged is still there, or its loss has asked for a            *)
(* redirection.                                                            *)
(*   The paged lists: paging to the end misses nothing.  Cached pages of   *)
(* different ages need not agree on anything; it is enough that each of    *)
(* them is whole: what it leaves out of its rows is below the cursor it    *)
(* hands out.  So every row that is owed to the walk has been seen or is   *)
(* still ahead, below the cursor of the page shown.                        *)
(***************************************************************************)
EXTENDS Session, Paging, FiniteSetTheorems, WellFoundedInduction, TLAPS

Asks == [for : {"warm", "signin", "signout", "exchange"}, via : Realm \union {Nothing}]

SessionTypes ==
    /\ asks \in SUBSET Asks /\ manager \in Realm \union {Nothing}
    /\ token \in Token \union {Nothing} /\ session \in Token \union {Nothing}
    /\ exchange \in Token \union {"none", "code"}

(* The callback page asks once for its manager, sends no request, and what *)
(* its exchange has brought is in the client.                              *)
Exchanges == {a \in asks : a.for = "exchange"}

ExchangeHeld ==
    /\ exchange # "none" => where = "callback" /\ Exchanges = {}
    /\ Exchanges # {} => where = "callback"
    /\ \A a, b \in Exchanges : a = b
    /\ where = "callback" => calls = {}
    /\ exchange \in Token => token # Nothing

SessionInv == SessionTypes /\ ExchangeHeld /\ NoSilentAnonymity

(* Asking for a redirection.                                               *)
LEMMA AskTyped ==
    ASSUME SessionTypes, NEW p \in {"warm", "signin", "signout", "exchange"}
    PROVE  Ask(p) \in Asks /\ Ask(p).for = p
BY DEF Ask, Asks, SessionTypes

(* A page load leaves nothing of the session.                              *)
LEMMA LoadsFresh ==
    ASSUME NEW place, Loads(place)
    PROVE  SessionInv'
<1>1. asks' \in SUBSET Asks
  <2>1. /\ [for |-> "warm", via |-> Nothing] \in Asks
        /\ [for |-> "exchange", via |-> Nothing] \in Asks
    BY DEF Asks
  <2>2. CASE place = "app" BY <2>1, <2>2 DEF Loads
  <2>3. CASE place = "callback" BY <2>1, <2>3 DEF Loads
  <2>4. CASE place \notin {"app", "callback"} BY <2>4 DEF Loads
  <2>5. QED BY <2>2, <2>3, <2>4
<1>2. /\ place # "callback" => Exchanges' = {}
      /\ \A a, b \in Exchanges' : a = b
  BY DEF Loads, Exchanges
<1>3. QED BY <1>1, <1>2, TokensAreDistinct DEF Loads, SessionInv, SessionTypes, ExchangeHeld, NoSilentAnonymity

(* Nobody is signed in before the first page is loaded.                    *)
LEMMA InitSession == Init => SessionInv
BY TokensAreDistinct DEF Init, SessionInv, SessionTypes, ExchangeHeld, NoSilentAnonymity, Asks, Exchanges

(* A lookup that is answered, also by a failure, keeps what waits for it.  *)
LEMMA LookUpKeeps ==
    ASSUME SessionInv, NEW a \in asks, NEW r \in Realm, LookUp(a, r)
    PROVE  SessionInv'
<1> DEFINE b == [a EXCEPT !.via = r]
           warm == [for |-> "warm", via |-> r]
<1>1. a \in Asks BY DEF SessionInv, SessionTypes
<1>2. b \in Asks /\ b.for = a.for BY <1>1 DEF Asks
<1>3. asks' = (asks \ {a}) \union ({b} \ {warm}) BY DEF LookUp
<1>4. warm.for = "warm" OBVIOUS
<1> HIDE DEF b, warm
<1>5. asks' \in SUBSET Asks BY <1>2, <1>3 DEF SessionInv, SessionTypes
<1>6. (\E c \in asks : c.for = "signin") => \E c \in asks' : c.for = "signin"
  <2>1. SUFFICES ASSUME NEW c \in asks, c.for = "signin" PROVE \E d \in asks' : d.for = "signin"
    OBVIOUS
  <2>2. CASE c = a
    <3>1. b # warm BY <1>2, <1>4, <2>1, <2>2
    <3>2. b \in asks' /\ b.for = "signin" BY <1>2, <1>3, <2>1, <2>2, <3>1
    <3>3. QED BY <3>2
  <2>3. CASE c # a BY <1>3, <2>1, <2>3
  <2>4. QED BY <2>2, <2>3
<1>7. /\ UNCHANGED <<where, token, session, exchange, calls>>
      /\ manager' = r
  BY DEF LookUp
<1>8. Exchanges' \subseteq (Exchanges \ {a}) \union (IF a.for = "exchange" THEN {b} ELSE {})
  BY <1>2, <1>3 DEF Exchanges
<1>9. /\ Exchanges = {} => Exchanges' = {}
      /\ \A c, d \in Exchanges' : c = d
  <2>1. a.for = "exchange" => Exchanges = {a} BY DEF SessionInv, ExchangeHeld, Exchanges
  <2>2. QED BY <1>8, <2>1 DEF SessionInv, ExchangeHeld
<1>10. QED BY <1>5, <1>6, <1>7, <1>9 DEF SessionInv, SessionTypes, ExchangeHeld, NoSilentAnonymity

(* The callback page, from its code to the session.                        *)
LEMMA CallbackKeeps ==
    ASSUME SessionInv,
           \/ \E a \in asks : Exchanging(a)
           \/ \E t \in Token : CodeExchanged(t) \/ TenantAnswered(t)
           \/ CodeRefused
    PROVE  SessionInv'
<1>1. ASSUME NEW a \in asks, Exchanging(a) PROVE SessionInv'
  <2>1. CASE a.via # realm BY <1>1, <2>1, LoadsFresh DEF Exchanging
  <2>2. CASE a.via = realm
    <3>1. /\ asks' = asks \ {a} /\ exchange' = "code"
          /\ UNCHANGED <<where, token, session, manager, calls>>
          /\ a.for = "exchange"
      BY <1>1, <2>2 DEF Exchanging
    <3>2. where = "callback" /\ Exchanges = {a} BY <3>1 DEF SessionInv, ExchangeHeld, Exchanges
    <3>3. Exchanges' = {} BY <3>1, <3>2 DEF Exchanges
    <3>4. QED
      BY <3>1, <3>2, <3>3, TokensAreDistinct DEF SessionInv, SessionTypes, ExchangeHeld, NoSilentAnonymity
  <2>3. QED BY <2>1, <2>2
<1>2. ASSUME NEW t \in Token, CodeExchanged(t) PROVE SessionInv'
  <2>1. /\ token' = t /\ exchange' = t /\ exchange = "code" /\ t # Nothing
        /\ UNCHANGED <<where, session, asks, manager, calls>>
    BY <1>2, TokensAreDistinct DEF CodeExchanged
  <2>2. Exchanges' = {} /\ where = "callback"
    BY <2>1, TokensAreDistinct DEF SessionInv, ExchangeHeld, Exchanges
  <2>3. QED BY <2>1, <2>2, TokensAreDistinct DEF SessionInv, SessionTypes, ExchangeHeld, NoSilentAnonymity
<1>3. ASSUME NEW t \in Token, TenantAnswered(t) PROVE SessionInv'
  <2>1. /\ exchange = t /\ session' = t /\ exchange' = "none" /\ UNCHANGED <<manager, calls>>
        /\ \/ token' = token /\ asks' = asks
           \/ token' = Nothing /\ asks' = asks \union {Ask("signin")}
    BY <1>3 DEF TenantAnswered, Signed, Expired
  <2>2. token # Nothing BY <2>1 DEF SessionInv, ExchangeHeld
  <2>3. Ask("signin") \in Asks /\ Ask("signin").for = "signin"
    BY AskTyped DEF SessionInv
  <2>4. Exchanges' = {}
    BY <2>1, <2>3, TokensAreDistinct DEF SessionInv, ExchangeHeld, Exchanges
  <2>5. where' = "app" BY <1>3 DEF TenantAnswered, Signed
  <2>6. QED
    BY <2>1, <2>2, <2>3, <2>4, <2>5, TokensAreDistinct
    DEF SessionInv, SessionTypes, ExchangeHeld, NoSilentAnonymity
<1>4. CASE CodeRefused BY <1>4, LoadsFresh DEF CodeRefused
<1>5. QED BY <1>1, <1>2, <1>3, <1>4

(* The application: requests and their answers, renewals, the way out.     *)
LEMMA AppKeeps ==
    ASSUME SessionInv,
           \/ Protect \/ Call \/ RenewStart \/ RenewFails \/ Logout
           \/ \E t \in Token \union {Nothing} : CallAnswered(t)
           \/ \E t \in Token : Expire(t) \/ RenewDone(t)
    PROVE  SessionInv'
<1>s. /\ Ask("signin") \in Asks /\ Ask("signin").for = "signin"
      /\ Ask("signout") \in Asks /\ Ask("signout").for = "signout"
  BY AskTyped DEF SessionInv
<1>e. Exchanges' = Exchanges
  <2>1. asks' \in {asks, asks \union {Ask("signin")}, asks \union {Ask("signout")}}
    BY DEF Protect, Call, RenewStart, RenewFails, Logout, CallAnswered, Expired, Expire, memory, RenewDone
  <2>2. QED BY <1>s, <2>1 DEF Exchanges
<1> USE DEF SessionInv, SessionTypes, ExchangeHeld, NoSilentAnonymity
<1>1. CASE Protect BY <1>1, <1>s, <1>e DEF Protect
<1>2. CASE Call BY <1>2, <1>e DEF Call
<1>3. CASE RenewStart BY <1>3, <1>e DEF RenewStart
<1>4. CASE RenewFails BY <1>4, <1>e DEF RenewFails
<1>5. CASE Logout BY <1>5, <1>s, <1>e, TokensAreDistinct DEF Logout
<1>6. ASSUME NEW t \in Token \union {Nothing}, CallAnswered(t) PROVE SessionInv'
  <2>1. where # "callback" /\ exchange = "none" BY <1>6 DEF CallAnswered
  <2>2. CASE t \in good BY <1>6, <1>e, <2>1, <2>2, TokensAreDistinct DEF CallAnswered
  <2>3. CASE t \notin good BY <1>6, <1>s, <1>e, <2>1, <2>3, TokensAreDistinct DEF CallAnswered, Expired
  <2>4. QED BY <2>2, <2>3
<1>7. ASSUME NEW t \in Token, Expire(t) PROVE SessionInv' BY <1>7, <1>e DEF Expire, memory
<1>8. ASSUME NEW t \in Token, RenewDone(t) PROVE SessionInv'
  BY <1>8, <1>e, TokensAreDistinct DEF RenewDone
<1>9. QED BY <1>1, <1>2, <1>3, <1>4, <1>5, <1>6, <1>7, <1>8

(* Every step keeps the invariant.                                         *)
LEMMA SessionSteps == SessionInv /\ [Next]_vars => SessionInv'
<1> SUFFICES ASSUME SessionInv, [Next]_vars PROVE SessionInv' OBVIOUS
<1>1. CASE OpenApp BY <1>1, LoadsFresh DEF OpenApp
<1>2. CASE Redirect
  <2>1. PICK a \in asks : Depart(a) BY <1>2 DEF Redirect
  <2>2. Loads("idp") \/ Loads("out") BY <2>1 DEF Depart
  <2>3. QED BY <2>2, LoadsFresh
<1>3. CASE Lookup BY <1>3, LookUpKeeps DEF Lookup
<1>4. CASE SignIn BY <1>4, LoadsFresh DEF SignIn
<1>5. CASE \/ \E a \in asks : Exchanging(a)
           \/ \E t \in Token : CodeExchanged(t) \/ TenantAnswered(t)
           \/ CodeRefused
  BY <1>5, CallbackKeeps
<1>6. CASE \/ Protect \/ Call \/ RenewStart \/ RenewFails \/ Logout
           \/ \E t \in Token \union {Nothing} : CallAnswered(t)
           \/ \E t \in Token : Expire(t) \/ RenewDone(t)
  BY <1>6, AppKeeps
<1>7. CASE UNCHANGED vars
  BY <1>7 DEF vars, memory, SessionInv, SessionTypes, ExchangeHeld, Exchanges, NoSilentAnonymity
<1>8. QED BY <1>1, <1>2, <1>3, <1>4, <1>5, <1>6, <1>7 DEF Next

(* A session whose requests go out without a token is on its way out, see  *)
(* NoSilentAnonymity, whatever 401 or renewal took the token.              *)
THEOREM NobodySilentlyAnonymous == Spec => []NoSilentAnonymity
<1>1. SessionInv => NoSilentAnonymity BY DEF SessionInv
<1>2. QED BY InitSession, SessionSteps, <1>1, PTL DEF Spec

(* Nothing but the callback page signs in, see OnlyCallbackSignsIn: not a  *)
(* renewal, an answer or a redirection that comes late.                    *)
THEOREM CallbackSignsIn == Spec => OnlyCallbackSignsIn
<1>1. SessionInv /\ [Next]_vars => [session = Nothing /\ session' # Nothing => where = "callback"]_vars
  <2>1. SUFFICES ASSUME SessionInv, Next, session = Nothing, session' # Nothing
                 PROVE  where = "callback"
    OBVIOUS
  <2>2. \A place : ~Loads(place) BY <2>1 DEF Loads
  <2>3. ~OpenApp /\ ~Redirect /\ ~SignIn /\ ~CodeRefused /\ ~Lookup
    BY <2>1, <2>2 DEF OpenApp, Redirect, Depart, SignIn, CodeRefused, Lookup, LookUp
  <2>4. ~Protect /\ ~Call /\ ~RenewStart /\ ~RenewFails /\ ~Logout
    BY <2>1 DEF Protect, Call, RenewStart, RenewFails, Logout
  <2>5. \A a \in asks : ~Exchanging(a) BY <2>1, <2>2 DEF Exchanging
  <2>6. \A t \in Token : ~CodeExchanged(t) /\ ~Expire(t) /\ ~RenewDone(t)
    BY <2>1 DEF CodeExchanged, Expire, RenewDone, memory
  <2>7. \A t \in Token \union {Nothing} : ~CallAnswered(t) BY <2>1 DEF CallAnswered, Expired
  <2>8. PICK t \in Token : TenantAnswered(t) BY <2>1, <2>3, <2>4, <2>5, <2>6, <2>7 DEF Next
  <2>9. exchange = t BY <2>8 DEF TenantAnswered
  <2>10. exchange # "none" BY <2>9, TokensAreDistinct
  <2>11. QED BY <2>1, <2>10 DEF SessionInv, ExchangeHeld
<1>2. QED BY InitSession, SessionSteps, <1>1, PTL DEF Spec, OnlyCallbackSignsIn

-----------------------------------------------------------------------------
(* The paged lists.                                                        *)

Page == (SUBSET Row) \union {None}
Entry == [data : Page, request : {"idle", "asked", "read"}, read : Page,
          failed : BOOLEAN, invalid : BOOLEAN]
Walks == [state : {"fresh", "on", "off"}, owed : SUBSET Row, seen : SUBSET Row]

PageTypes ==
    /\ filter \in Filter /\ stack \in Seq(Row) /\ rows \in SUBSET Row
    /\ entries \in [Key -> Entry] /\ walk \in Walks

Descending(s) == \A i, j \in 1..Len(s) : i < j => s[j] < s[i]

Ahead(r, s) == s = <<>> \/ r < s[Len(s)]

(* A walk is fresh on the first page only; it owes no more than what is    *)
(* shown holds, has seen what is shown, and the rest is ahead of it.       *)
FreshFirst == walk.state = "fresh" => stack = <<>>
LooksCurrent ==
    Shown # None /\ walk.state # "off"
    => walk.state = "on" /\ walk.owed \subseteq Shown /\ Items(Shown, Cursor(stack)) \subseteq walk.seen
RestAhead == walk.state = "on" => \A r \in walk.owed : r \in walk.seen \/ Ahead(r, stack)

WalkInv == FreshFirst /\ LooksCurrent /\ RestAhead

PageInv == PageTypes /\ Descending(stack) /\ WalkInv

-----------------------------------------------------------------------------
(* Pages.                                                                  *)

(* Rows have a least and a greatest one.                                   *)
LEMMA Extremes ==
    ASSUME Parameters, NEW S \in SUBSET Row, S # {}
    PROVE  /\ \E m \in S : \A s \in S : m <= s
           /\ \E m \in S : \A s \in S : s <= m
<1> DEFINE R == OpToRel(<, Nat)
<1>1. S \subseteq Nat /\ Rows \in Nat /\ \A s \in S : s <= Rows BY DEF Row, Parameters
<1>2. \A x, y \in Nat : y < x => <<y, x>> \in R BY DEF OpToRel
<1>3. IsWellFoundedOn(R, Nat) BY NatLessThanWellFounded
<1> HIDE DEF R
<1>4. \E m \in S : \A s \in S : m <= s
  <2>1. PICK x \in S : \A y \in S : ~(<<y, x>> \in R) BY <1>1, <1>3, WFMin
  <2>2. \A y \in S : ~(y < x) BY <1>1, <1>2, <2>1
  <2>3. QED BY <1>1, <2>2
<1>5. \E m \in S : \A s \in S : s <= m
  <2> DEFINE D == {Rows - s : s \in S}
  <2>1. \A s \in S : Rows - s \in Nat BY <1>1
  <2>2. D \subseteq Nat /\ D # {} BY <2>1
  <2>3. PICK x \in D : \A y \in D : ~(<<y, x>> \in R) BY <2>2, <1>3, WFMin
  <2>4. PICK m \in S : x = Rows - m OBVIOUS
  <2>5. ASSUME NEW s \in S PROVE s <= m
    <3>1. ~(<<Rows - s, Rows - m>> \in R) BY <2>3, <2>4
    <3>2. ~(Rows - s < Rows - m) BY <1>2, <2>1, <3>1
    <3>3. QED BY <1>1, <3>2
  <2>6. QED BY <2>5
<1>6. QED BY <1>4, <1>5

(* What a page leaves out is below the cursor it hands out.                *)
LEMMA PagesAreWhole ==
    ASSUME Parameters, NEW all \in SUBSET Row, NEW c \in Row \union {None},
           Items(all, c) # Below(all, c)
    PROVE  /\ NextCursor(all, c) \in Row
           /\ c # None => NextCursor(all, c) < c
           /\ \A r \in Below(all, c) : r \in Items(all, c) \/ r < NextCursor(all, c)
<1> DEFINE B == Below(all, c)
           I == Items(all, c)
           Above(r) == {s \in B : s > r}
           n == NextCursor(all, c)
<1>1. B \subseteq Row /\ Row \subseteq Nat /\ IsFiniteSet(Row)
  <2>1. B \subseteq Row BY DEF Below
  <2>2. Row \subseteq Nat BY DEF Row, Parameters
  <2>3. 1 \in Int /\ Rows \in Int BY DEF Parameters
  <2>4. IsFiniteSet(Row) BY <2>3, FS_Interval DEF Row
  <2>5. QED BY <2>1, <2>2, <2>4
<1>2. IsFiniteSet(B) BY <1>1, FS_Subset
<1>n. \A r \in B : r \in Nat BY <1>1
<1>3. I = {r \in B : Cardinality(Above(r)) < PageSize} BY DEF Items
<1>4. I \subseteq B /\ B # {} BY <1>3
<1>5. I # {}
  <2>1. PICK m \in B : \A s \in B : s <= m BY <1>1, <1>4, Extremes
  <2>2. Above(m) = {}
    <3>1. \A s \in B : ~(s > m) BY <1>n, <2>1
    <3>2. QED BY <3>1
  <2>3. Cardinality(Above(m)) < PageSize BY <2>2, FS_EmptySet DEF Parameters
  <2>4. QED BY <1>3, <2>1, <2>3
<1>6. \E m \in I : \A s \in I : m <= s BY <1>1, <1>4, <1>5, Extremes
<1>7. n \in I /\ \A s \in I : n <= s
  <2>1. n = CHOOSE r \in I : \A s \in I : r <= s BY DEF NextCursor
  <2> HIDE DEF n, I
  <2>2. QED BY <1>6, <2>1
<1>8. ASSUME NEW r \in B, r \notin I PROVE r < n
  <2>1. SUFFICES ASSUME ~(r < n) PROVE FALSE OBVIOUS
  <2>a. r \in Nat /\ n \in Nat /\ n \in B BY <1>n, <1>4, <1>7, <1>8
  <2>2. r > n
    <3>1. r # n BY <1>7, <1>8
    <3> HIDE DEF n
    <3>2. QED BY <2>a, <2>1, <3>1
  <2>3. Above(r) \subseteq Above(n)
    <3> HIDE DEF n
    <3>1. \A s \in B : s > r => s > n BY <1>n, <2>a, <2>2
    <3>2. QED BY <3>1
  <2>4. IsFiniteSet(Above(n)) BY <1>2, FS_Subset
  <2>5. /\ Cardinality(Above(r)) <= Cardinality(Above(n))
        /\ Cardinality(Above(r)) \in Nat /\ Cardinality(Above(n)) \in Nat
    BY <2>3, <2>4, FS_Subset, FS_CardinalityType
  <2>6. Cardinality(Above(n)) < PageSize BY <1>3, <1>7
  <2>7. Cardinality(Above(r)) < PageSize BY <2>5, <2>6 DEF Parameters
  <2>8. QED BY <1>3, <1>8, <2>7
<1>9. c # None => n < c BY <1>4, <1>7 DEF Below
<1>10. n \in Row BY <1>1, <1>4, <1>7
<1>11. QED BY <1>8, <1>9, <1>10

(* The cursor of a stack is a row, or there is none.                       *)
LEMMA CursorTyped ==
    ASSUME Parameters, NEW s \in Seq(Row)
    PROVE  /\ Cursor(s) \in Row \union {None}
           /\ s = <<>> <=> Cursor(s) = None
           /\ s # <<>> => Cursor(s) = s[Len(s)] /\ s[Len(s)] \in Row /\ Len(s) \in Nat \ {0}
<1>1. CASE s = <<>> BY <1>1 DEF Cursor
<1>2. CASE s # <<>>
  <2>1. Len(s) \in Nat \ {0} /\ s[Len(s)] \in Row BY <1>2
  <2>2. QED BY <1>2, <2>1 DEF Cursor, Parameters, Row
<1>3. QED BY <1>1, <1>2

-----------------------------------------------------------------------------
(* The walk.                                                               *)

(* Whatever comes on the screen, a walk that owes nothing behind it still  *)
(* owes nothing behind it.                                                 *)
LEMMA LookKeeps ==
    ASSUME Parameters, NEW w \in Walks, stack' \in Seq(Row), Shown' \in Page,
           walk' = Looked(w, Shown', Cursor(stack')),
           w.state = "fresh" => stack' = <<>>,
           w.state = "on" => \A r \in w.owed : r \in w.seen \/ Ahead(r, stack')
    PROVE  walk' \in Walks /\ WalkInv'
<1> DEFINE all == Shown'
           seen == w.seen \union Items(all, Cursor(stack'))
<1>1. CASE all = None \/ w.state = "off"
  <2>1. walk' = w BY <1>1 DEF Looked
  <2>2. QED BY <1>1, <2>1 DEF WalkInv, FreshFirst, LooksCurrent, RestAhead
<1>2. CASE all # None /\ w.state # "off"
  <2> DEFINE owed == IF w.state = "fresh" THEN all ELSE w.owed \intersect all
  <2>1. walk' = [state |-> "on", owed |-> owed, seen |-> seen] BY <1>2 DEF Looked
  <2>2. all \in SUBSET Row BY <1>2 DEF Page
  <2>3. Items(all, Cursor(stack')) \subseteq Row BY <2>2 DEF Items, Below
  <2>4. owed \in SUBSET Row /\ owed \subseteq all BY <2>2
  <2>5. seen \in SUBSET Row BY <2>3 DEF Walks
  <2>6. \A r \in owed : r \in seen \/ Ahead(r, stack')
    <3>1. CASE w.state = "fresh" BY <3>1 DEF Ahead
    <3>2. CASE w.state # "fresh"
      <4>1. w.state = "on" BY <1>2, <3>2 DEF Walks
      <4>2. QED BY <3>2, <4>1
    <3>3. QED BY <3>1, <3>2
  <2> HIDE DEF owed, seen
  <2>7. walk'.state = "on" /\ walk'.owed = owed /\ walk'.seen = seen BY <2>1
  <2>8. walk' \in Walks BY <2>1, <2>4, <2>5 DEF Walks
  <2>9. Items(Shown', Cursor(stack')) \subseteq seen BY DEF seen
  <2>10. QED BY <2>4, <2>6, <2>7, <2>8, <2>9 DEF WalkInv, FreshFirst, LooksCurrent, RestAhead
<1>3. QED BY <1>1, <1>2

(* The same for a step that stays on its page.                             *)
LEMMA StayingKeeps ==
    ASSUME Parameters, PageInv, filter' = filter, stack' = stack, rows' \in SUBSET Row,
           entries' \in [Key -> Entry], Look(walk)
    PROVE  PageInv'
<1>1. Shown' \in Page
  <2>1. <<filter, Cursor(stack)>> \in Key BY CursorTyped DEF PageInv, PageTypes, Key
  <2>2. entries'[<<filter, Cursor(stack)>>] \in Entry BY <2>1
  <2>3. QED BY <2>2 DEF Shown, ShownOf, Entry, Page
<1>2. walk' = Looked(walk, Shown', Cursor(stack')) BY DEF Look, Shown
<1>3. /\ walk.state = "fresh" => stack' = <<>>
      /\ walk.state = "on" => \A r \in walk.owed : r \in walk.seen \/ Ahead(r, stack')
  BY DEF PageInv, WalkInv, FreshFirst, RestAhead
<1>4. stack' \in Seq(Row) /\ walk \in Walks BY DEF PageInv, PageTypes
<1>5. walk' \in Walks /\ WalkInv' BY <1>1, <1>2, <1>3, <1>4, LookKeeps
<1>6. Descending(stack)' BY DEF PageInv, Descending
<1>7. QED BY <1>4, <1>5, <1>6 DEF PageInv, PageTypes

(* What becomes of a query stays a query.                                  *)
LEMMA EntryOps ==
    ASSUME NEW e \in Entry, NEW v \in Page
    PROVE  /\ Blank \in Entry /\ Requested(e) \in Entry /\ Refetched(e) \in Entry
           /\ Failed(e) \in Entry /\ ReadAt(e, v) \in Entry /\ Answered(e) \in Entry
           /\ \A b \in BOOLEAN : Observed(e, b) \in Entry /\ Invalidated(e, b) \in Entry
<1> USE DEF Entry
<1>1. None \in Page BY DEF Page
<1>2. Blank \in Entry BY <1>1 DEF Blank
<1>3. \A f \in Entry : Requested(f) \in Entry BY <1>1 DEF Requested
<1>4. \A f \in Entry : Refetched(f) \in Entry BY <1>3 DEF Refetched
<1>5. Failed(e) \in Entry BY <1>1 DEF Failed
<1>6. ReadAt(e, v) \in Entry BY DEF ReadAt
<1>7. Answered(e) \in Entry BY <1>1 DEF Answered, Blank
<1>8. \A b \in BOOLEAN : Observed(e, b) \in Entry BY <1>3 DEF Observed
<1>9. \A b \in BOOLEAN : Invalidated(e, b) \in Entry
  <2>1. [e EXCEPT !.invalid = TRUE] \in Entry OBVIOUS
  <2>2. QED BY <1>4, <2>1 DEF Invalidated
<1>10. QED BY <1>2, <1>3, <1>4, <1>5, <1>6, <1>7, <1>8, <1>9

(* Going to another page needs a walk that fits where it goes.             *)
LEMMA GotoKeeps ==
    ASSUME Parameters, PageInv, NEW f \in Filter, NEW s \in Seq(Row), NEW w \in Walks,
           Goto(f, s, w), Descending(s),
           w.state = "fresh" => s = <<>>,
           w.state = "on" => \A r \in w.owed : r \in w.seen \/ Ahead(r, s)
    PROVE  PageInv'
<1>1. <<f, Cursor(s)>> \in Key BY CursorTyped DEF Key
<1>2. filter' = f /\ stack' = s /\ rows' = rows BY DEF Goto
<1>3. entries' \in [Key -> Entry]
  <2>1. PICK aged \in BOOLEAN :
          entries' = [entries EXCEPT ![<<f, Cursor(s)>>] =
              IF f \in Valid THEN Observed(entries[<<f, Cursor(s)>>], aged)
              ELSE entries[<<f, Cursor(s)>>]]
    BY DEF Goto
  <2>2. entries \in [Key -> Entry] BY DEF PageInv, PageTypes
  <2>3. entries[<<f, Cursor(s)>>] \in Entry BY <1>1, <2>2
  <2>4. Observed(entries[<<f, Cursor(s)>>], aged) \in Entry
    <3>1. None \in Page BY DEF Page
    <3>2. QED BY <2>3, <3>1, EntryOps
  <2>5. QED BY <2>1, <2>2, <2>3, <2>4
<1>4. Shown' \in Page
  <2>1. entries'[<<f, Cursor(s)>>] \in Entry BY <1>1, <1>3
  <2>2. QED BY <1>2, <2>1 DEF Shown, ShownOf, Entry, Page
<1>5. walk' = Looked(w, Shown', Cursor(stack')) BY DEF Goto, Look, Shown
<1>6. walk' \in Walks /\ WalkInv' BY <1>2, <1>4, <1>5, LookKeeps
<1>7. Descending(stack)' BY <1>2 DEF Descending
<1>8. QED BY <1>2, <1>3, <1>6, <1>7 DEF PageInv, PageTypes

-----------------------------------------------------------------------------
(* The steps.                                                              *)

(* A page just opened.                                                     *)
LEMMA InitPages == Parameters /\ PagingInit => PageInv
<1> SUFFICES ASSUME Parameters, PagingInit PROVE PageInv OBVIOUS
<1>1. Blank \in Entry /\ Requested(Blank) \in Entry
  <2>1. None \in Page BY DEF Page
  <2>2. Blank \in Entry BY <2>1 DEF Blank, Entry
  <2>3. QED BY <2>1, <2>2, EntryOps
<1>2. entries \in [Key -> Entry] BY <1>1 DEF PagingInit
<1>3. PageTypes BY <1>2 DEF PagingInit, Parameters, PageTypes, Walks, Start
<1>4. Shown = None
  <2>1. <<All, None>> \in Key BY DEF Key, Parameters
  <2>2. entries[<<All, None>>] = Requested(Blank) BY <2>1 DEF PagingInit
  <2>3. Requested(Blank).data = None BY DEF Requested, Blank
  <2>4. QED BY <2>2, <2>3 DEF PagingInit, Shown, ShownOf, Cursor
<1>5. WalkInv BY <1>4 DEF PagingInit, Start, WalkInv, FreshFirst, LooksCurrent, RestAhead
<1>6. Descending(stack) BY DEF PagingInit, Descending
<1>7. QED BY <1>3, <1>5, <1>6 DEF PageInv

(* Filters, Apply and opening the page again: a walk starts or there is    *)
(* none until the first page.                                              *)
LEMMA StartsKeep ==
    ASSUME Parameters, PageInv,
           \/ \E f \in Filter : SetAuditFilter(f) \/ SetDlqFilter(f)
           \/ ApplyFilters \/ Reopen
    PROVE  PageInv'
<1>a. /\ filter \in Filter /\ stack \in Seq(Row) /\ Descending(stack)
      /\ All \in Filter /\ <<>> \in Seq(Row) /\ Descending(<<>>)
  BY DEF PageInv, PageTypes, Parameters, Descending
<1>b. /\ Start \in Walks /\ Start.state = "fresh" /\ Start.owed = {}
      /\ Off \in Walks /\ Off.state = "off"
  BY DEF Start, Off, Walks
<1>1. ASSUME NEW f \in Filter, SetAuditFilter(f) PROVE PageInv'
  <2>1. Goto(f, <<>>, Start) BY <1>1 DEF SetAuditFilter
  <2>2. QED BY <1>a, <1>b, <2>1, GotoKeeps
<1>2. ASSUME NEW f \in Filter, SetDlqFilter(f) PROVE PageInv'
  <2>1. CASE stack = <<>>
    <3>1. Goto(f, <<>>, Start) BY <1>2, <2>1 DEF SetDlqFilter
    <3>2. QED BY <1>a, <1>b, <3>1, GotoKeeps
  <2>2. CASE stack # <<>>
    <3>1. Goto(f, stack, Off) BY <1>2, <2>2 DEF SetDlqFilter
    <3>2. QED BY <1>a, <1>b, <3>1, GotoKeeps
  <2>3. QED BY <2>1, <2>2
<1>3. CASE ApplyFilters
  <2>1. Goto(filter, <<>>, Start) BY <1>3 DEF ApplyFilters
  <2>2. QED BY <1>a, <1>b, <2>1, GotoKeeps
<1>4. CASE Reopen
  <2>1. Goto(All, <<>>, Start) BY <1>4 DEF Reopen
  <2>2. QED BY <1>a, <1>b, <2>1, GotoKeeps
<1>5. QED BY <1>1, <1>2, <1>3, <1>4

(* What the shown page leaves out is below the next cursor.                *)
LEMMA NextKeeps == ASSUME Parameters, PageInv, GoNext PROVE PageInv'
<1> DEFINE c == Cursor(stack)
           n == NextCursor(Shown, c)
<1>1. /\ filter \in Filter /\ stack \in Seq(Row) /\ walk \in Walks /\ Descending(stack)
      /\ Shown # None /\ n # None
  BY DEF PageInv, PageTypes, GoNext
<1>2. Shown \in SUBSET Row
  <2>1. <<filter, c>> \in Key BY <1>1, CursorTyped DEF Key
  <2>2. entries[<<filter, c>>] \in Entry BY <2>1 DEF PageInv, PageTypes
  <2>3. QED BY <1>1, <2>2 DEF Shown, ShownOf, Entry, Page
<1>3. /\ c \in Row \union {None}
      /\ stack = <<>> <=> c = None
      /\ stack # <<>> => c = stack[Len(stack)]
  BY <1>1, CursorTyped
<1>4. Items(Shown, c) # Below(Shown, c) BY <1>1 DEF NextCursor
<1>5. /\ n \in Row /\ (c # None => n < c)
      /\ \A r \in Below(Shown, c) : r \in Items(Shown, c) \/ r < n
  BY <1>2, <1>3, <1>4, PagesAreWhole
<1>6. Goto(filter, Append(stack, n), walk) BY DEF GoNext
<1> HIDE DEF n
<1>7. /\ Append(stack, n) \in Seq(Row) /\ Append(stack, n) # <<>>
      /\ Len(Append(stack, n)) = Len(stack) + 1 /\ Append(stack, n)[Len(Append(stack, n))] = n
      /\ \A i \in 1..Len(stack) : Append(stack, n)[i] = stack[i]
  BY <1>1, <1>5
<1>8. Descending(Append(stack, n))
  <2>1. SUFFICES ASSUME NEW i \in 1..(Len(stack) + 1), NEW j \in 1..(Len(stack) + 1), i < j
                 PROVE  Append(stack, n)[j] < Append(stack, n)[i]
    BY <1>7 DEF Descending
  <2>2. Len(stack) \in Nat BY <1>1
  <2>3. CASE j \in 1..Len(stack)
    <3>1. i \in 1..Len(stack) BY <2>1, <2>2, <2>3
    <3>2. QED BY <1>1, <1>7, <2>1, <2>3, <3>1 DEF Descending
  <2>4. CASE j = Len(stack) + 1
    <3>1. i \in 1..Len(stack) /\ stack # <<>> BY <1>1, <2>1, <2>2, <2>4
    <3>2. n < c /\ c = stack[Len(stack)] BY <1>3, <1>5, <3>1
    <3>3. i = Len(stack) \/ stack[Len(stack)] < stack[i]
      BY <1>1, <2>2, <3>1 DEF Descending
    <3>4. stack[i] \in Row /\ stack[Len(stack)] \in Row /\ n \in Row BY <1>1, <1>5, <2>2, <3>1
    <3>5. n < stack[i]
      <4>1. \A r \in Row : r \in Nat BY DEF Row, Parameters
      <4>2. stack[i] \in Nat /\ stack[Len(stack)] \in Nat /\ n \in Nat BY <3>4, <4>1
      <4>3. n < stack[Len(stack)] BY <3>2
      <4>4. QED BY <3>3, <4>2, <4>3
    <3>6. QED BY <1>7, <2>4, <3>1, <3>5
  <2>5. QED BY <2>1, <2>2, <2>3, <2>4
<1>9. walk.state # "fresh"
  BY <1>1 DEF PageInv, WalkInv, LooksCurrent
<1>10. ASSUME walk.state = "on", NEW r \in walk.owed PROVE r \in walk.seen \/ Ahead(r, Append(stack, n))
  <2>1. r \in Shown /\ Items(Shown, c) \subseteq walk.seen
    BY <1>1, <1>10 DEF PageInv, WalkInv, LooksCurrent
  <2>2. r \in walk.seen \/ r \in Below(Shown, c)
    BY <1>3, <1>10, <2>1 DEF PageInv, WalkInv, RestAhead, Ahead, Below
  <2>3. QED BY <1>5, <1>7, <2>1, <2>2 DEF Ahead
<1>11. QED BY <1>1, <1>6, <1>7, <1>8, <1>9, <1>10, GotoKeeps

(* The page before has the higher cursor.                                  *)
LEMMA PrevKeeps == ASSUME Parameters, PageInv, GoPrev PROVE PageInv'
<1> DEFINE s == SubSeq(stack, 1, Len(stack) - 1)
<1>1. /\ filter \in Filter /\ stack \in Seq(Row) /\ walk \in Walks /\ Descending(stack) /\ stack # <<>>
  BY DEF PageInv, PageTypes, GoPrev
<1>2. Len(stack) \in Nat \ {0} BY <1>1
<1>3. /\ s \in Seq(Row) /\ Len(s) = Len(stack) - 1
      /\ \A i \in 1..Len(s) : s[i] = stack[i] /\ i \in 1..Len(stack) /\ i < Len(stack)
  <2>1. \A i \in 1..(Len(stack) - 1) : i \in 1..Len(stack) /\ i < Len(stack) BY <1>2
  <2>2. s \in Seq(Row) BY <1>1, <1>2, <2>1
  <2>3. Len(s) = Len(stack) - 1
    <3>1. CASE Len(stack) = 1 BY <1>1, <3>1
    <3>2. CASE Len(stack) # 1
      <4>a. \A n \in Nat \ {0} : n # 1 => 1 <= n - 1 /\ n - 1 \in Nat OBVIOUS
      <4>1. 1 <= Len(stack) - 1 /\ Len(stack) - 1 \in Nat /\ 1 \in Nat BY <1>2, <3>2, <4>a
      <4>2. QED BY <1>1, <4>1
    <3>3. QED BY <3>1, <3>2
  <2>4. \A i \in 1..(Len(stack) - 1) : s[i] = stack[i] BY <1>1, <1>2
  <2>5. QED BY <2>1, <2>2, <2>3, <2>4
<1>4. Goto(filter, s, From(s)) BY DEF GoPrev
<1> HIDE DEF s
<1>5. Descending(s) BY <1>1, <1>3 DEF Descending
<1>6. CASE s = <<>>
  <2>1. From(s) = Start BY <1>6 DEF From
  <2>2. Start \in Walks /\ Start.state = "fresh" BY DEF Start, Walks
  <2>3. QED BY <1>1, <1>3, <1>4, <1>5, <1>6, <2>1, <2>2, GotoKeeps
<1>7. CASE s # <<>>
  <2>1. From(s) = walk BY <1>7 DEF From
  <2>2. walk.state # "fresh" BY <1>1 DEF PageInv, WalkInv, FreshFirst
  <2>3. Len(s) \in 1..Len(s) BY <1>3, <1>7
  <2>4. stack[Len(stack)] < s[Len(s)] BY <1>1, <1>2, <1>3, <2>3 DEF Descending
  <2>5. ASSUME walk.state = "on", NEW r \in walk.owed PROVE r \in walk.seen \/ Ahead(r, s)
    <3>1. r \in walk.seen \/ r < stack[Len(stack)]
      BY <1>1, <2>5 DEF PageInv, WalkInv, RestAhead, Ahead
    <3>2. r \in Row BY <1>1, <2>5 DEF Walks
    <3>3. stack[Len(stack)] \in Row /\ s[Len(s)] \in Row BY <1>1, <1>2, <1>3, <2>3
    <3>4. \A x \in Row : x \in Nat BY DEF Row, Parameters
    <3>5. r \in Nat /\ stack[Len(stack)] \in Nat /\ s[Len(s)] \in Nat BY <3>2, <3>3, <3>4
    <3>6. r \in walk.seen \/ r < s[Len(s)] BY <2>4, <3>1, <3>5
    <3>7. QED BY <3>6 DEF Ahead
  <2>6. QED BY <1>1, <1>3, <1>4, <1>5, <2>1, <2>2, <2>5, GotoKeeps
<1>8. QED BY <1>6, <1>7

(* The queries: fetched, marked, read and answered.                        *)
LEMMA QueriesKeep ==
    ASSUME Parameters, PageInv,
           \/ TryAgain \/ Poll \/ Focus \/ Marked
           \/ \E k \in Key : ServerReads(k) \/ Answer(k) \/ AnswerFails(k)
    PROVE  PageInv'
<1>a. /\ entries \in [Key -> Entry] /\ rows \in SUBSET Row /\ Current \in Key
      /\ None \in Page
  BY CursorTyped DEF PageInv, PageTypes, Key, Current, Page
<1>1. ASSUME NEW e \in Entry, Fetch(e) PROVE PageInv'
  <2>1. entries' \in [Key -> Entry] BY <1>a, <1>1 DEF Fetch
  <2>2. QED BY <1>a, <1>1, <2>1, StayingKeeps DEF Fetch
<1>2. entries[Current] \in Entry BY <1>a
<1>3. Requested(entries[Current]) \in Entry /\ Refetched(entries[Current]) \in Entry
  BY <1>a, <1>2, EntryOps
<1>4. CASE TryAgain BY <1>1, <1>3, <1>4 DEF TryAgain
<1>5. CASE Poll BY <1>1, <1>3, <1>5 DEF Poll
<1>6. CASE Focus BY <1>1, <1>3, <1>6 DEF Focus
<1>7. CASE Marked
  <2>1. \A k \in Key : Blank \in Entry /\ Invalidated(entries[k], k = Current) \in Entry
    BY <1>a, EntryOps
  <2>2. entries' \in [Key -> Entry] BY <1>7, <2>1 DEF Marked
  <2>3. QED BY <1>a, <1>7, <2>2, StayingKeeps DEF Marked
<1>8. ASSUME NEW k \in Key, ServerReads(k) \/ Answer(k) \/ AnswerFails(k) PROVE PageInv'
  <2>1. rows \intersect Matching[k[1]] \in Page BY <1>a DEF Page
  <2>2. /\ ReadAt(entries[k], rows \intersect Matching[k[1]]) \in Entry
        /\ Answered(entries[k]) \in Entry /\ Failed(entries[k]) \in Entry
    BY <1>a, <2>1, EntryOps
  <2>3. entries' \in [Key -> Entry] BY <1>a, <1>8, <2>2 DEF ServerReads, Answer, AnswerFails
  <2>4. QED BY <1>a, <1>8, <2>3, StayingKeeps DEF ServerReads, Answer, AnswerFails
<1>9. QED BY <1>4, <1>5, <1>6, <1>7, <1>8

(* Nothing is seen of changes on the server and of dropped entries.        *)
LEMMA UnseenKeep ==
    ASSUME Parameters, PageInv, RowsChange \/ (\E k \in Key : Forget(k)) \/ UNCHANGED pagingVars
    PROVE  PageInv'
<1>1. CASE RowsChange
  BY <1>1 DEF RowsChange, PageInv, PageTypes, WalkInv, FreshFirst, LooksCurrent, RestAhead,
              Shown, Descending, Ahead
<1>2. ASSUME NEW k \in Key, Forget(k) PROVE PageInv'
  <2>1. /\ UNCHANGED <<filter, stack, rows, walk>> /\ entries' = [entries EXCEPT ![k] = Blank]
        /\ k # Current /\ entries \in [Key -> Entry]
    BY <1>2 DEF Forget, PageInv, PageTypes
  <2>2. Blank \in Entry
    <3>1. None \in Page BY DEF Page
    <3>2. QED BY <3>1 DEF Blank, Entry
  <2>3. entries' \in [Key -> Entry] BY <2>1, <2>2
  <2>4. entries'[Current] = entries[Current] BY <2>1
  <2>5. Shown' = Shown BY <2>1, <2>4 DEF Shown, ShownOf, Current
  <2>6. QED BY <2>1, <2>3, <2>5 DEF PageInv, PageTypes, WalkInv, FreshFirst, LooksCurrent, RestAhead,
                                    Descending, Ahead
<1>3. CASE UNCHANGED pagingVars
  BY <1>3 DEF pagingVars, PageInv, PageTypes, WalkInv, FreshFirst, LooksCurrent, RestAhead,
              Shown, Descending, Ahead
<1>4. QED BY <1>1, <1>2, <1>3

(* Every step keeps the walk whole.                                        *)
LEMMA StepsKeep == Parameters /\ PageInv /\ [PagingNext]_pagingVars => PageInv'
BY StartsKeep, NextKeeps, PrevKeeps, QueriesKeep, UnseenKeep DEF PagingNext

(* On the last page nothing is ahead.                                      *)
LEMMA LastPage == Parameters /\ PageInv => NoRowSkipped
<1> SUFFICES ASSUME Parameters, PageInv, walk.state = "on", Shown # None,
                    NextCursor(Shown, Cursor(stack)) = None, NEW r \in walk.owed
             PROVE  r \in walk.seen
  BY DEF NoRowSkipped
<1> DEFINE c == Cursor(stack)
<1>1. stack \in Seq(Row) BY DEF PageInv, PageTypes
<1>2. /\ c \in Row \union {None}
      /\ stack = <<>> <=> c = None
      /\ stack # <<>> => c = stack[Len(stack)]
  BY <1>1, CursorTyped
<1>3. Shown \in SUBSET Row
  <2>1. <<filter, c>> \in Key BY <1>1, CursorTyped DEF Key, PageInv, PageTypes
  <2>2. entries[<<filter, c>>] \in Entry BY <2>1 DEF PageInv, PageTypes
  <2>3. QED BY <2>2 DEF Shown, ShownOf, Entry, Page
<1>4. Items(Shown, c) = Below(Shown, c)
  <2>1. None \notin Row BY DEF Parameters, Row
  <2>2. QED BY <1>2, <1>3, <2>1, PagesAreWhole
<1>5. r \in Shown /\ Items(Shown, c) \subseteq walk.seen
  BY DEF PageInv, WalkInv, LooksCurrent
<1>6. r \in walk.seen \/ r \in Below(Shown, c)
  BY <1>2, <1>5 DEF PageInv, WalkInv, RestAhead, Ahead, Below
<1>7. QED BY <1>4, <1>5, <1>6

(* Paging to the end misses nothing, see NoRowSkipped: for every number of *)
(* rows, page size and set of filters, and any order of what happens.      *)
THEOREM NothingSkipped == PagingSpec => []NoRowSkipped
<1>1. PagingInit => PageInv BY PagingParameters, InitPages
<1>2. PageInv /\ [PagingNext]_pagingVars => PageInv' BY PagingParameters, StepsKeep
<1>3. PageInv => NoRowSkipped BY PagingParameters, LastPage
<1>4. QED BY <1>1, <1>2, <1>3, PTL DEF PagingSpec
=============================================================================
