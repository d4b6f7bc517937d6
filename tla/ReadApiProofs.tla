---------------------------- MODULE ReadApiProofs ----------------------------
(* Proofs about ReadApi, for any events, tokens and encoding of values, and  *)
(* any number of rows, restarts and faults.                                  *)
EXTENDS ReadApi, FiniteSetTheorems, FunctionTheorems, WellFoundedInduction, TLAPS

Chars == STRING \union {"0"}   \* the second is in the first, which no backend knows
Texts == {t \in Seq(Chars) : \A i \in 1 .. Len(t) : t[i] # "no_cookie" /\ t[i] # "no_token"}

\* The cookie is that of a session that was granted: with a token of the
\* environment it is the one the process gives out, and otherwise that of a
\* start.  No cookie, no session.
SessionInv ==
  /\ env \in Envs /\ boots \in Nat \ {0} /\ granted \in BOOLEAN
  /\ cookie = NoCookie => ~ granted
  /\ cookie # NoCookie /\ Trim(env) # <<>> => granted /\ cookie = Session_cookie
  /\ cookie # NoCookie /\ Trim(env) = <<>> =>
       \E b \in 1 .. boots : cookie = Generated(b) /\ (granted <=> b = boots)

-----------------------------------------------------------------------------
(* Texts *)

LEMMA Ends ==
  ASSUME NEW n \in Nat, NEW T, T \subseteq 1 .. n, T # {}
  PROVE  /\ \E m \in T : \A t \in T : m <= t
         /\ \E m \in T : \A t \in T : t <= m
<1>0. T \subseteq Nat
  OBVIOUS
<1>1. PICK x \in T : \A y \in T : ~ (<<y, x>> \in OpToRel(<, Nat))
  BY <1>0, NatLessThanWellFounded, WFMin
<1>2. ASSUME NEW y \in T PROVE x <= y
  <2>1. x \in Nat /\ y \in Nat
    BY <1>0
  <2>2. ~ (y < x)
    BY <1>1, <2>1 DEF OpToRel
  <2>. QED
    BY <2>1, <2>2
<1>. DEFINE U == {n - t : t \in T}
<1>3. \A t \in T : t \in 1 .. n /\ n - t \in Nat
  OBVIOUS
<1>4. U \subseteq Nat /\ U # {}
  BY <1>3
<1>5. PICK z \in U : \A y \in U : ~ (<<y, z>> \in OpToRel(<, Nat))
  BY <1>4, NatLessThanWellFounded, WFMin
<1>6. PICK m \in T : z = n - m
  OBVIOUS
<1>7. ASSUME NEW t \in T PROVE t <= m
  <2>1. n - t \in U /\ n - t \in Nat /\ n - m \in Nat
    BY <1>3
  <2>2. ~ (n - t < n - m)
    BY <1>5, <1>6, <2>1 DEF OpToRel
  <2>. QED
    BY <1>3, <2>2
<1>. QED
  BY <1>2, <1>7

\* What is left of a text begins and ends with a character that is not blank.
LEMMA TrimIs ==
  ASSUME NEW s \in Texts
  PROVE  /\ Trim(s) \in Texts /\ Len(Trim(s)) <= Len(s)
         /\ Trim(s) # <<>> => Trim(s)[1] # "blank" /\ Trim(s)[Len(Trim(s))] # "blank"
<1>. DEFINE solid == {i \in DOMAIN s : ~ Blank(i, s)}
            a == CHOOSE i \in solid : \A j \in solid : i <= j
            b == CHOOSE i \in solid : \A j \in solid : j <= i
<1>0. s \in Seq(Chars) /\ DOMAIN s = 1 .. Len(s) /\ Len(s) \in Nat
  BY DEF Texts
<1>1. CASE solid = {}
  <2>1. Trim(s) = <<>>
    BY <1>1 DEF Trim
  <2>. QED
    BY <1>0, <2>1 DEF Texts
<1>2. CASE solid # {}
  <2>1. a \in solid /\ b \in solid /\ a <= b
    <3>1. solid \subseteq 1 .. Len(s)
      BY <1>0
    <3>. QED
      BY <1>0, <1>2, <3>1, Ends
  <2>. DEFINE t == SubSeq(s, a, b)
  <2>2. Trim(s) = t
    BY <1>2 DEF Trim
  <2>. HIDE DEF a, b
  <2>3. a \in 1 .. Len(s) /\ b \in 1 .. Len(s) /\ s[a] # "blank" /\ s[b] # "blank"
    BY <1>0, <2>1 DEF Blank
  <2>4. t \in Seq(Chars) /\ Len(t) = b - a + 1 /\ \A i \in 1 .. b - a + 1 : t[i] = s[a + i - 1]
    BY <1>0, <2>1, <2>3
  <2>. HIDE DEF t
  <2>5. 1 \in 1 .. b - a + 1 /\ b - a + 1 \in 1 .. b - a + 1 /\ a + 1 - 1 = a
        /\ a + (b - a + 1) - 1 = b /\ b - a + 1 <= Len(s)
    BY <1>0, <2>1, <2>3
  <2>6. t[1] = s[a] /\ t[Len(t)] = s[b]
    BY <2>4, <2>5
  <2>7. t \in Texts
    <3>1. \A i \in 1 .. b - a + 1 : a + i - 1 \in 1 .. Len(s)
      BY <1>0, <2>1, <2>3
    <3>. QED
      BY <2>4, <3>1 DEF Texts
  <2>. QED
    BY <2>2, <2>3, <2>4, <2>5, <2>6, <2>7
<1>. QED
  BY <1>1, <1>2

LEMMA TrimSolid ==
  ASSUME NEW s \in Texts, s # <<>> => s[1] # "blank" /\ s[Len(s)] # "blank"
  PROVE  Trim(s) = s
<1>. DEFINE solid == {i \in DOMAIN s : ~ Blank(i, s)}
            n == Len(s)
<1>0. s \in Seq(Chars) /\ DOMAIN s = 1 .. n /\ n \in Nat
  BY DEF Texts
<1>1. CASE s = <<>>
  <2>1. solid = {}
    BY <1>1
  <2>. QED
    BY <1>1, <2>1 DEF Trim
<1>2. CASE s # <<>>
  <2>1. 1 \in solid /\ n \in solid /\ \A i \in solid : 1 <= i /\ i <= n /\ i \in Int
    BY <1>0, <1>2 DEF Blank
  <2>2. (CHOOSE i \in solid : \A j \in solid : i <= j) = 1
    BY <2>1
  <2>3. (CHOOSE i \in solid : \A j \in solid : j <= i) = n
    <3>1. \A i \in solid : (\A j \in solid : j <= i) <=> i = n
      BY <1>0, <2>1
    <3>. QED
      BY <2>1, <3>1
  <2>4. Trim(s) = SubSeq(s, 1, n)
    BY <2>1, <2>2, <2>3 DEF Trim
  <2>. QED
    BY <1>0, <2>4
<1>. QED
  BY <1>1, <1>2

LEMMA UpToIs ==
  ASSUME NEW s \in Texts, NEW char
  PROVE  /\ UpTo(s, char) \in Texts
         /\ char \notin Range(s) => UpTo(s, char) = s
         /\ char \in Range(s) => Len(UpTo(s, char)) < Len(s)
<1>. DEFINE at == {i \in DOMAIN s : s[i] = char}
            m == CHOOSE i \in at : \A j \in at : i <= j
<1>0. s \in Seq(Chars) /\ DOMAIN s = 1 .. Len(s) /\ Len(s) \in Nat
  BY DEF Texts
<1>1. CASE at = {}
  <2>1. UpTo(s, char) = s /\ char \notin Range(s)
    BY <1>1 DEF UpTo, Range
  <2>. QED
    BY <2>1
<1>2. CASE at # {}
  <2>1. m \in 1 .. Len(s)
    <3>1. at \subseteq 1 .. Len(s)
      BY <1>0
    <3>. QED
      BY <1>0, <1>2, <3>1, Ends
  <2>2. UpTo(s, char) = SubSeq(s, 1, m - 1) /\ char \in Range(s)
    BY <1>2 DEF UpTo, Range
  <2>. HIDE DEF m
  <2>3. /\ SubSeq(s, 1, m - 1) \in Seq(Chars) /\ Len(SubSeq(s, 1, m - 1)) = m - 1
        /\ \A i \in 1 .. m - 1 : SubSeq(s, 1, m - 1)[i] = s[i] /\ i \in 1 .. Len(s)
    BY <1>0, <2>1
  <2>. HIDE DEF at
  <2>4. \A i \in 1 .. m - 1 : s[i] # "no_cookie" /\ s[i] # "no_token"
    BY <2>3 DEF Texts
  <2>5. SubSeq(s, 1, m - 1) \in Texts
    BY <2>3, <2>4 DEF Texts
  <2>6. m - 1 < Len(s)
    BY <1>0, <2>1
  <2>. QED
    BY <2>2, <2>3, <2>5, <2>6
<1>. QED
  BY <1>1, <1>2

LEMMA GeneratedIs ==
  ASSUME NEW b \in Nat \ {0}
  PROVE  /\ Generated(b) \in Texts /\ Len(Generated(b)) = b /\ Generated(b) # <<>>
         /\ Trim(Generated(b)) = Generated(b) /\ "semicolon" \notin Range(Generated(b))
<1>1. /\ Generated(b) \in Seq(Chars) /\ Len(Generated(b)) = b
      /\ DOMAIN Generated(b) = 1 .. b /\ \A i \in 1 .. b : Generated(b)[i] = "0"
  <2>1. "0" \in Chars
    BY DEF Chars
  <2>2. ASSUME NEW S, NEW x \in S
        PROVE  /\ [i \in 1 .. b |-> x] \in Seq(S) /\ Len([i \in 1 .. b |-> x]) = b
               /\ DOMAIN [i \in 1 .. b |-> x] = 1 .. b
               /\ \A i \in 1 .. b : [j \in 1 .. b |-> x][i] = x
    OBVIOUS
  <2>. QED
    BY <2>1, <2>2, Zenon DEF Generated
<1>2. Generated(b) \in Texts /\ Generated(b) # <<>>
  BY <1>1 DEF Texts
<1>3. Generated(b)[1] # "blank" /\ Generated(b)[b] # "blank"
  BY <1>1
<1>4. "semicolon" \notin Range(Generated(b))
  BY <1>1 DEF Range
<1>. QED
  BY <1>1, <1>2, <1>3, <1>4, TrimSolid

LEMMA NotTexts == NoCookie \notin Texts /\ NoToken \notin Texts
<1>1. Len(NoCookie) = 1 /\ NoCookie[1] = "no_cookie"
  BY DEF NoCookie
<1>2. Len(NoToken) = 1 /\ NoToken[1] = "no_token"
  BY DEF NoToken
<1>. QED
  BY <1>1, <1>2 DEF Texts

-----------------------------------------------------------------------------
(* The session *)

LEMMA TokenIs ==
  ASSUME env \in Envs, boots \in Nat \ {0}
  PROVE  /\ env \in Texts
         /\ From_env \in Texts /\ From_env # <<>> /\ Trim(From_env) = From_env
         /\ Trim(env) # <<>> => From_env = Trim(env)
         /\ Trim(env) = <<>> => From_env = Generated(boots) /\ Session_cookie = Generated(boots)
         /\ Session_cookie \in Texts
         /\ "semicolon" \in Range(From_env) => Session_cookie # From_env
         /\ "semicolon" \notin Range(From_env) => Session_cookie = From_env
<1>1. env \in Texts
  <2>1. env \in Seq(Chars) /\ DOMAIN env = 1 .. Len(env)
    BY ReadApiParameters DEF Chars
  <2>2. \A i \in DOMAIN env : env[i] # "no_cookie" /\ env[i] # "no_token"
    BY ReadApiParameters DEF NoCookie, NoToken
  <2>. QED
    BY <2>1, <2>2 DEF Texts
<1>2. /\ From_env \in Texts /\ From_env # <<>> /\ Trim(From_env) = From_env
      /\ Trim(env) # <<>> => From_env = Trim(env)
      /\ Trim(env) = <<>> => From_env = Generated(boots) /\ "semicolon" \notin Range(From_env)
  <2>1. CASE Trim(env) # <<>>
    BY <1>1, <2>1, TrimIs, TrimSolid DEF From_env
  <2>2. CASE Trim(env) = <<>>
    BY <2>2, GeneratedIs DEF From_env
  <2>. QED
    BY <2>1, <2>2
<1>3. Session_cookie \in Texts
  BY <1>2, UpToIs, TrimIs DEF Session_cookie
<1>4. "semicolon" \notin Range(From_env) => Session_cookie = From_env
  BY <1>2, UpToIs DEF Session_cookie
<1>5. ASSUME "semicolon" \in Range(From_env) PROVE Session_cookie # From_env
  <2>1. UpTo(From_env, "semicolon") \in Texts /\ Len(UpTo(From_env, "semicolon")) < Len(From_env)
    BY <1>2, <1>5, UpToIs
  <2>2. Len(Session_cookie) <= Len(UpTo(From_env, "semicolon"))
    BY <2>1, TrimIs DEF Session_cookie
  <2>3. Len(Session_cookie) \in Nat /\ Len(From_env) \in Nat /\ Len(UpTo(From_env, "semicolon")) \in Nat
    BY <1>2, <1>3, <2>1 DEF Texts
  <2>. QED
    BY <2>1, <2>2, <2>3
<1>. QED
  BY <1>1, <1>2, <1>3, <1>4, <1>5

LEMMA SessionKeeps == SessionInv /\ [ApiNext]_apiVars => SessionInv'
<1>. SUFFICES ASSUME SessionInv, [ApiNext]_apiVars PROVE SessionInv'
  OBVIOUS
<1>1. ASSUME UNCHANGED session PROVE SessionInv'
  BY <1>1 DEF SessionInv, session, Session_cookie, From_env
<1>2. ASSUME NEW typed, Session_create(typed) PROVE SessionInv'
  <2>1. cookie' = Session_cookie /\ granted' = TRUE /\ env' = env /\ boots' = boots
    BY <1>2 DEF Session_create
  <2>2. Session_cookie' = Session_cookie
    BY <2>1 DEF Session_cookie, From_env
  <2>3. Session_cookie # NoCookie /\ (Trim(env) = <<>> => Session_cookie = Generated(boots))
    BY TokenIs, NotTexts DEF SessionInv
  <2>4. boots \in 1 .. boots
    BY DEF SessionInv
  <2>. QED
    BY <2>1, <2>2, <2>3, <2>4 DEF SessionInv
<1>3. ASSUME cookie' = NoCookie, granted' = FALSE, UNCHANGED <<env, boots>> PROVE SessionInv'
  BY <1>3 DEF SessionInv
<1>4. ASSUME Restart PROVE SessionInv'
  <2>1. boots' = boots + 1 /\ granted' = (granted /\ Trim(env) # <<>>) /\ env' = env /\ cookie' = cookie
    BY <1>4 DEF Restart
  <2>2. boots' \in Nat \ {0} /\ granted' \in BOOLEAN
    BY <2>1 DEF SessionInv
  <2>3. CASE Trim(env) # <<>>
    <3>1. Session_cookie' = Session_cookie
      BY <2>1, <2>3 DEF Session_cookie, From_env
    <3>. QED
      BY <2>1, <2>2, <2>3, <3>1 DEF SessionInv
  <2>4. CASE Trim(env) = <<>>
    <3>1. ASSUME cookie # NoCookie
          PROVE  \E b \in 1 .. boots' : cookie' = Generated(b) /\ (granted' <=> b = boots')
      <4>1. PICK b \in 1 .. boots : cookie = Generated(b)
        BY <2>4, <3>1 DEF SessionInv
      <4>2. b \in 1 .. boots' /\ b # boots' /\ ~ granted'
        <5>1. boots \in Nat
          BY DEF SessionInv
        <5>2. ~ granted'
          BY <2>1, <2>4, Zenon
        <5>. QED
          BY <2>1, <5>1, <5>2
      <4>. QED
        BY <2>1, <4>1, <4>2
    <3>. QED
      BY <2>1, <2>2, <2>4, <3>1 DEF SessionInv
  <2>. QED
    BY <2>3, <2>4
<1>5. CASE UNCHANGED apiVars
  BY <1>1, <1>5 DEF apiVars
<1>6. CASE ApiNext
  <2>1. ASSUME NEW c, NEW e, Insert(c, e) \/ InsertOffPlace(c, e) \/ InsertOfLaterBuild(c, e)
        PROVE  UNCHANGED session
    BY <2>1 DEF Insert, InsertOffPlace, InsertOfLaterBuild
  <2>2. ASSUME Session_delete \/ Session_expires PROVE SessionInv'
    BY <1>3, <2>2 DEF Session_delete, Session_expires
  <2>3. ASSUME NEW c, NEW bearer, Chain_summary(c, bearer) PROVE UNCHANGED session
    BY <2>3 DEF Chain_summary
  <2>4. ASSUME Counted \/ SummaryAnswered PROVE UNCHANGED session
    BY <2>4 DEF Counted, SummaryAnswered
  <2>. QED
    BY <1>1, <1>2, <1>4, <1>6, <2>1, <2>2, <2>3, <2>4 DEF ApiNext
<1>. QED
  BY <1>5, <1>6

LEMMA SessionIsGranted == SessionInv => SessionLasts
<1>. SUFFICES ASSUME SessionInv
              PROVE  /\ Authenticated(NoToken, cookie) => granted
                     /\ granted => (Authenticated(NoToken, cookie) <=> "semicolon" \notin Range(From_env))
  BY DEF SessionLasts
<1>1. env \in Envs /\ boots \in Nat \ {0} /\ granted \in BOOLEAN
  BY DEF SessionInv
<1>2. From_env # NoToken /\ From_env # <<>>
  BY <1>1, TokenIs, NotTexts
<1>3. Authenticated(NoToken, cookie) <=> cookie # NoCookie /\ cookie = From_env
  BY <1>2 DEF Authenticated, Presented_token, Admits_token
<1>4. CASE cookie = NoCookie
  BY <1>3, <1>4 DEF SessionInv
<1>5. CASE cookie # NoCookie /\ Trim(env) # <<>>
  BY <1>1, <1>3, <1>5, TokenIs DEF SessionInv
<1>6. CASE cookie # NoCookie /\ Trim(env) = <<>>
  <2>1. PICK b \in 1 .. boots : cookie = Generated(b) /\ (granted <=> b = boots)
    BY <1>6 DEF SessionInv
  <2>2. From_env = Generated(boots) /\ "semicolon" \notin Range(From_env)
    BY <1>1, <1>6, TokenIs, GeneratedIs
  <2>3. b \in Nat \ {0} /\ (Generated(b) = Generated(boots) => b = boots)
    BY <1>1, GeneratedIs
  <2>. QED
    BY <1>3, <1>6, <2>1, <2>2, <2>3
<1>. QED
  BY <1>4, <1>5, <1>6

(* SessionLasts: a cookie lets in exactly the browser whose session was      *)
(* granted and has not ended (Admin, presented_token), if no semicolon ends  *)
(* the value of the cookie before the token does.                            *)
THEOREM SessionsLast == ApiSpec => []SessionLasts
<1>1. ASSUME ApiInit PROVE SessionInv
  <2>1. env \in Envs /\ boots = 1 /\ cookie = NoCookie /\ granted = FALSE
    BY <1>1 DEF ApiInit
  <2>2. ~ granted /\ granted \in BOOLEAN
    BY <2>1, Zenon
  <2>3. boots \in Nat \ {0}
    BY <2>1
  <2>. QED
    BY <2>1, <2>2, <2>3, Zenon DEF SessionInv
<1>. QED
  BY <1>1, SessionKeeps, SessionIsGranted, PTL DEF ApiSpec

-----------------------------------------------------------------------------
(* Sorting *)

\* A key of each number: where it goes is how many have a lesser key, or the
\* same and come before it.
LEMMA Arranged ==
  ASSUME NEW n \in Nat, NEW key \in [1 .. n -> Nat]
  PROVE  \E p \in Bijection(1 .. n, 1 .. n) : \A i, j \in 1 .. n : i < j => key[p[i]] <= key[p[j]]
<1>. DEFINE D == 1 .. n
            before(j, i) == key[j] < key[i] \/ (key[j] = key[i] /\ j <= i)
            upto(i) == {j \in D : before(j, i)}
            f == [i \in D |-> Cardinality(upto(i))]
<1>0. \A i \in D : i \in Nat /\ key[i] \in Nat
  OBVIOUS
<1>1. IsFiniteSet(D) /\ Cardinality(D) = n
  BY FS_Interval
<1>2. ASSUME NEW i \in D
      PROVE  /\ IsFiniteSet(upto(i)) /\ i \in upto(i) /\ f[i] = Cardinality(upto(i))
             /\ f[i] \in 1 .. n
  <2>1. i \in upto(i) /\ upto(i) \in SUBSET D
    BY <1>0
  <2>2. IsFiniteSet(upto(i)) /\ Cardinality(upto(i)) <= n
    BY <1>1, <2>1, FS_Subset
  <2>3. Cardinality(upto(i)) \in Nat /\ Cardinality(upto(i)) # 0
    BY <2>1, <2>2, FS_CardinalityType, FS_EmptySet
  <2>. QED
    BY <2>1, <2>2, <2>3
<1>11. \A i \in D : f[i] \in Nat
  <2>. HIDE DEF f, upto
  <2>. QED
    BY <1>2
<1>3. ASSUME NEW i \in D, NEW j \in D, ~ before(j, i) PROVE f[i] < f[j]
  <2>1. upto(i) \in SUBSET upto(j)
    BY <1>0, <1>3
  <2>2. upto(i) # upto(j)
    BY <1>2, <1>3
  <2>3. Cardinality(upto(i)) <= Cardinality(upto(j)) /\ Cardinality(upto(i)) # Cardinality(upto(j))
    BY <1>2, <2>1, <2>2, FS_Subset
  <2>. HIDE DEF upto
  <2>. QED
    BY <1>2, <2>3
<1>4. \A i, j \in D : before(i, j) \/ before(j, i)
  BY <1>0
<1>5. \A i, j \in D : before(i, j) /\ before(j, i) => i = j
  BY <1>0
<1>6. f \in Injection(D, D)
  <2>1. f \in [D -> D]
    BY <1>2
  <2>. HIDE DEF f, before
  <2>2. ASSUME NEW i \in D, NEW j \in D, i # j PROVE f[i] # f[j]
    <3>1. ~ before(i, j) \/ ~ before(j, i)
      BY <1>5, <2>2
    <3>2. f[i] \in Nat /\ f[j] \in Nat
      BY <1>11
    <3>. QED
      BY <1>3, <3>1, <3>2
  <2>. QED
    BY <2>1, <2>2 DEF Injection, IsInjective
<1>7. f \in Surjection(D, D)
  BY <1>1, <1>6, FS_Injection
<1>. HIDE DEF f, before
<1>. DEFINE p == [k \in D |-> CHOOSE i \in D : f[i] = k]
<1>8. ASSUME NEW k \in D PROVE p[k] \in D /\ f[p[k]] = k
  <2>1. \E i \in D : f[i] = k
    BY <1>7 DEF Surjection
  <2>. QED
    BY <2>1
<1>9. p \in Bijection(D, D)
  <2>1. p \in [D -> D] /\ \A i, j \in D : p[i] = p[j] => i = j
    BY <1>8
  <2>2. p \in Injection(D, D)
    BY <2>1 DEF Injection, IsInjective
  <2>3. p \in Surjection(D, D)
    BY <1>1, <2>2, FS_Injection
  <2>. QED
    BY <2>2, <2>3 DEF Bijection
<1>10. ASSUME NEW i \in D, NEW j \in D, i < j PROVE key[p[i]] <= key[p[j]]
  <2>1. before(p[i], p[j])
    <3>. SUFFICES ASSUME ~ before(p[i], p[j]) PROVE FALSE
      OBVIOUS
    <3>1. p[i] \in D /\ p[j] \in D /\ f[p[i]] = i /\ f[p[j]] = j
      BY <1>8
    <3>2. f[p[j]] < f[p[i]]
      BY <1>3, <3>1
    <3>. HIDE DEF p
    <3>. QED
      BY <1>0, <1>10, <3>1, <3>2
  <2>2. p[i] \in D /\ p[j] \in D
    BY <1>8
  <2>. HIDE DEF p
  <2>. QED
    BY <1>0, <2>1, <2>2 DEF before
<1>. QED
  BY <1>9, <1>10

\* What is sorted is not changed by sorting it.
LEMMA SortedOnce ==
  ASSUME NEW n \in Nat, NEW key \in [1 .. n -> Nat], \A i, j \in 1 .. n : i < j => key[i] <= key[j],
         NEW p \in Bijection(1 .. n, 1 .. n), \A i, j \in 1 .. n : i < j => key[p[i]] <= key[p[j]]
  PROVE  \A i \in 1 .. n : key[p[i]] = key[i]
<1>0. /\ \A i \in 1 .. n : i \in Nat /\ key[i] \in Nat /\ p[i] \in 1 .. n /\ key[p[i]] \in Nat
      /\ \A i, j \in 1 .. n : p[i] = p[j] => i = j
      /\ p \in [1 .. n -> 1 .. n]
  <2>1. p \in [1 .. n -> 1 .. n] /\ \A i, j \in 1 .. n : p[i] = p[j] => i = j
    BY DEF Bijection, Injection, IsInjective
  <2>2. \A i \in 1 .. n : i \in Nat /\ p[i] \in 1 .. n
    BY <2>1
  <2>3. \A i \in 1 .. n : key[i] \in Nat
    OBVIOUS
  <2>. QED
    BY <2>1, <2>2, <2>3
<1>1. ASSUME NEW i \in 1 .. n, key[p[i]] < key[i] PROVE FALSE
  <2>. DEFINE A == 1 .. i
              B == 1 .. i - 1
              g == [l \in A |-> p[l]]
  <2>1. ASSUME NEW l \in A PROVE p[l] \in B /\ l \in 1 .. n
    <3>1. l \in 1 .. n /\ l <= i
      BY <1>0
    <3>2. key[p[l]] <= key[p[i]]
      BY <1>0, <3>1
    <3>3. key[p[l]] < key[i] /\ p[l] \in 1 .. n
      BY <1>0, <1>1, <3>1, <3>2
    <3>4. ~ (i <= p[l])
      <4>1. ~ (i < p[l])
        <5>1. i < p[l] => key[i] <= key[p[l]]
          BY <3>3
        <5>. QED
          BY <1>0, <3>1, <3>3, <5>1
      <4>2. i # p[l]
        BY <1>0, <3>1, <3>3
      <4>. QED
        BY <1>0, <3>3, <4>1, <4>2
    <3>. QED
      BY <1>0, <3>1, <3>3, <3>4
  <2>2. g \in Injection(A, B)
    BY <1>0, <2>1 DEF Injection, IsInjective
  <2>3. IsFiniteSet(B) /\ Cardinality(A) = i /\ Cardinality(B) = i - 1
    BY <1>0, FS_Interval
  <2>. HIDE DEF g, A, B
  <2>4. Cardinality(A) <= Cardinality(B)
    BY <2>2, <2>3, FS_Injection
  <2>. QED
    BY <1>0, <2>3, <2>4
<1>2. ASSUME NEW i \in 1 .. n, key[i] < key[p[i]] PROVE FALSE
  <2>. DEFINE A == i .. n
              B == i + 1 .. n
              g == [l \in A |-> p[l]]
  <2>1. ASSUME NEW l \in A PROVE p[l] \in B /\ l \in 1 .. n
    <3>1. l \in 1 .. n /\ i <= l
      BY <1>0
    <3>2. key[p[i]] <= key[p[l]]
      BY <1>0, <3>1
    <3>3. key[i] < key[p[l]] /\ p[l] \in 1 .. n
      BY <1>0, <1>2, <3>1, <3>2
    <3>4. ~ (p[l] <= i)
      <4>1. ~ (p[l] < i)
        <5>1. p[l] < i => key[p[l]] <= key[i]
          BY <3>3
        <5>. QED
          BY <1>0, <3>1, <3>3, <5>1
      <4>2. i # p[l]
        BY <1>0, <3>1, <3>3
      <4>. QED
        BY <1>0, <3>3, <4>1, <4>2
    <3>. QED
      BY <1>0, <3>1, <3>3, <3>4
  <2>2. g \in Injection(A, B)
    BY <1>0, <2>1 DEF Injection, IsInjective
  <2>3. IsFiniteSet(B) /\ Cardinality(A) = n - i + 1 /\ Cardinality(B) = n - i
    <3>1. i \in 1 .. n /\ i \in Int /\ i + 1 \in Int /\ n \in Int
      BY <1>0
    <3>2. IsFiniteSet(B) /\ Cardinality(A) = (IF i > n THEN 0 ELSE n - i + 1)
          /\ Cardinality(B) = (IF i + 1 > n THEN 0 ELSE n - (i + 1) + 1)
      BY <3>1, FS_Interval
    <3>. HIDE DEF A, B
    <3>. QED
      BY <3>1, <3>2
  <2>. HIDE DEF g, A, B
  <2>4. Cardinality(A) <= Cardinality(B)
    BY <2>2, <2>3, FS_Injection
  <2>. QED
    BY <1>0, <2>3, <2>4
<1>3. ASSUME NEW i \in 1 .. n PROVE key[p[i]] = key[i]
  <2>1. ~ (key[p[i]] < key[i]) /\ ~ (key[i] < key[p[i]])
    BY <1>1, <1>2
  <2>. QED
    BY <1>0, <2>1
<1>. QED
  BY <1>3

-----------------------------------------------------------------------------
(* Counting *)

\* The counts of all names add up to how many there are.
LEMMA TotalIs ==
  ASSUME NEW n \in Nat, NEW names, DOMAIN names = 1 .. n
  PROVE  Total(Counts(names)) = n
<1>. DEFINE D == 1 .. n
            at(v) == {i \in D : names[i] = v}
            upto(i) == {j \in D : j <= i /\ names[j] = names[i]}
            rank == [i \in D |-> Cardinality(upto(i))]
            P == UNION {{v} \X (1 .. Counts(names)[v]) : v \in DOMAIN Counts(names)}
            f == [i \in D |-> <<names[i], rank[i]>>]
<1>1. IsFiniteSet(D) /\ Cardinality(D) = n
  BY FS_Interval
<1>2. /\ DOMAIN Counts(names) = {names[i] : i \in D}
      /\ \A v \in DOMAIN Counts(names) : Counts(names)[v] = Cardinality(at(v))
  BY DEF Counts, Range
<1>3. ASSUME NEW v
      PROVE  IsFiniteSet(at(v)) /\ Cardinality(at(v)) \in Nat
  <2>1. at(v) \in SUBSET D
    OBVIOUS
  <2>. QED
    BY <1>1, <2>1, FS_Subset, FS_CardinalityType
<1>4. ASSUME NEW i \in D
      PROVE  IsFiniteSet(upto(i)) /\ i \in upto(i) /\ rank[i] = Cardinality(upto(i))
             /\ rank[i] \in 1 .. Cardinality(at(names[i]))
  <2>1. i \in upto(i) /\ upto(i) \in SUBSET at(names[i])
    OBVIOUS
  <2>2. IsFiniteSet(upto(i)) /\ Cardinality(upto(i)) <= Cardinality(at(names[i]))
    BY <1>3, <2>1, FS_Subset
  <2>3. Cardinality(upto(i)) \in Nat /\ Cardinality(upto(i)) # 0
    BY <2>1, <2>2, FS_CardinalityType, FS_EmptySet
  <2>4. rank[i] = Cardinality(upto(i))
    OBVIOUS
  <2>5. Cardinality(at(names[i])) \in Nat
    BY <1>3
  <2>. HIDE DEF upto, at, rank
  <2>. QED
    BY <2>1, <2>2, <2>3, <2>4, <2>5
<1>5. ASSUME NEW i \in D, NEW j \in D, i < j, names[i] = names[j] PROVE rank[i] < rank[j]
  <2>1. upto(i) \in SUBSET upto(j) /\ j \in upto(j) /\ j \notin upto(i)
    BY <1>5
  <2>2. Cardinality(upto(i)) <= Cardinality(upto(j)) /\ Cardinality(upto(i)) # Cardinality(upto(j))
    BY <1>4, <2>1, FS_Subset
  <2>3. Cardinality(upto(i)) \in Nat /\ Cardinality(upto(j)) \in Nat
    BY <1>4, FS_CardinalityType
  <2>4. rank[i] = Cardinality(upto(i)) /\ rank[j] = Cardinality(upto(j))
    BY <1>4
  <2>. HIDE DEF upto, rank
  <2>. QED
    BY <2>2, <2>3, <2>4
<1>6. ASSUME NEW i \in D, NEW j \in D, names[i] = names[j], rank[i] = rank[j] PROVE i = j
  <2>1. i \in Nat /\ j \in Nat /\ rank[i] \in Nat /\ rank[j] \in Nat
    <3>1. rank[i] \in 1 .. Cardinality(at(names[i])) /\ rank[j] \in 1 .. Cardinality(at(names[j]))
      BY <1>4
    <3>. HIDE DEF rank, at
    <3>. QED
      BY <3>1
  <2>2. ~ (i < j) /\ ~ (j < i)
    <3>. HIDE DEF rank
    <3>. QED
      BY <1>5, <1>6, <2>1
  <2>. QED
    BY <2>1, <2>2
<1>. HIDE DEF rank, upto
<1>7. ASSUME NEW v \in DOMAIN Counts(names), NEW k \in 1 .. Counts(names)[v]
      PROVE  \E i \in D : f[i] = <<v, k>>
  <2>. DEFINE g == [i \in at(v) |-> rank[i]]
              m == Cardinality(at(v))
  <2>0. \A i \in at(v) : i \in D /\ names[i] = v
    OBVIOUS
  <2>. HIDE DEF at
  <2>1. g \in [at(v) -> 1 .. m] /\ \A i, j \in at(v) : g[i] = g[j] => i = j
    <3>1. \A i \in at(v) : rank[i] \in 1 .. m
      BY <1>4, <2>0
    <3>2. \A i, j \in at(v) : rank[i] = rank[j] => i = j
      BY <1>6, <2>0
    <3>. QED
      BY <3>1, <3>2
  <2>2. g \in Injection(at(v), 1 .. m)
    BY <2>1 DEF Injection, IsInjective
  <2>3. IsFiniteSet(1 .. m) /\ Cardinality(1 .. m) = m
    <3>1. m \in Nat
      BY <1>3
    <3>. HIDE DEF m
    <3>. QED
      BY <3>1, FS_Interval
  <2>4. g \in Surjection(at(v), 1 .. m)
    BY <2>2, <2>3, FS_Injection
  <2>5. k \in 1 .. m
    BY <1>2
  <2>6. PICK i \in at(v) : g[i] = k
    BY <2>4, <2>5 DEF Surjection
  <2>7. i \in D /\ names[i] = v /\ rank[i] = k
    BY <2>0, <2>6
  <2>. QED
    BY <2>7
<1>8. ASSUME NEW i \in D PROVE f[i] \in P
  <2>1. names[i] \in DOMAIN Counts(names) /\ rank[i] \in 1 .. Counts(names)[names[i]]
    <3>1. names[i] \in DOMAIN Counts(names) /\ Counts(names)[names[i]] = Cardinality(at(names[i]))
      BY <1>2
    <3>. HIDE DEF at
    <3>. QED
      BY <1>4, <3>1
  <2>. QED
    BY <2>1
<1>9. f \in Injection(D, P)
  <2>1. f \in [D -> P]
    BY <1>8
  <2>2. \A i, j \in D : f[i] = f[j] => i = j
    BY <1>6
  <2>. QED
    BY <2>1, <2>2 DEF Injection, IsInjective
<1>10. f \in Surjection(D, P)
  <2>1. ASSUME NEW x \in P PROVE \E i \in D : f[i] = x
    <3>1. PICK v \in DOMAIN Counts(names) : x \in {v} \X (1 .. Counts(names)[v])
      OBVIOUS
    <3>2. PICK k \in 1 .. Counts(names)[v] : x = <<v, k>>
      BY <3>1
    <3>. QED
      BY <1>7, <3>2
  <2>2. f \in [D -> P]
    BY <1>8
  <2>. QED
    BY <2>1, <2>2 DEF Surjection
<1>11. Cardinality(P) = n
  BY <1>1, <1>9, <1>10, FS_Surjection
<1>. QED
  BY <1>11 DEF Total

\* A flag is counted at most once in each row, if no row has one twice.
LEMMA FlagsCounted ==
  ASSUME NEW n \in Nat, NEW s, DOMAIN s = 1 .. n,
         \A i \in 1 .. n : \A j, k \in DOMAIN s[i].risk_flags :
            j # k => s[i].risk_flags[j] # s[i].risk_flags[k],
         NEW flag \in DOMAIN Counts(Flags(s))
  PROVE  Counts(Flags(s))[flag] \in 0 .. n
<1>. DEFINE at == {p \in DOMAIN Flags(s) : Flags(s)[p] = flag}
            f == [p \in at |-> p[1]]
<1>1. Counts(Flags(s))[flag] = Cardinality(at)
  BY DEF Counts
<1>2. ASSUME NEW p \in at
      PROVE  \E i \in 1 .. n : \E j \in DOMAIN s[i].risk_flags :
               p = <<i, j>> /\ s[i].risk_flags[j] = flag
  <2>1. p \in UNION {{i} \X DOMAIN s[i].risk_flags : i \in DOMAIN s}
        /\ s[p[1]].risk_flags[p[2]] = flag
    BY DEF Flags
  <2>2. PICK i \in 1 .. n : p \in {i} \X DOMAIN s[i].risk_flags
    BY <2>1
  <2>3. PICK j \in DOMAIN s[i].risk_flags : p = <<i, j>>
    BY <2>2
  <2>. QED
    BY <2>1, <2>3
<1>. HIDE DEF at
<1>3. f \in Injection(at, 1 .. n)
  <2>1. f \in [at -> 1 .. n]
    BY <1>2
  <2>2. ASSUME NEW p \in at, NEW q \in at, f[p] = f[q] PROVE p = q
    <3>1. PICK i \in 1 .. n : \E j \in DOMAIN s[i].risk_flags :
            p = <<i, j>> /\ s[i].risk_flags[j] = flag
      BY <1>2
    <3>2. PICK j \in DOMAIN s[i].risk_flags : p = <<i, j>> /\ s[i].risk_flags[j] = flag
      BY <3>1
    <3>3. PICK h \in 1 .. n : \E k \in DOMAIN s[h].risk_flags :
            q = <<h, k>> /\ s[h].risk_flags[k] = flag
      BY <1>2
    <3>4. PICK k \in DOMAIN s[h].risk_flags : q = <<h, k>> /\ s[h].risk_flags[k] = flag
      BY <3>3
    <3>5. h = i
      BY <2>2, <3>2, <3>4
    <3>6. k = j
      BY <3>2, <3>4, <3>5
    <3>. QED
      BY <3>2, <3>4, <3>5, <3>6
  <2>. QED
    BY <2>1, <2>2 DEF Injection, IsInjective
<1>4. IsFiniteSet(1 .. n) /\ Cardinality(1 .. n) = n
  BY FS_Interval
<1>5. IsFiniteSet(at) /\ Cardinality(at) <= n
  BY <1>3, <1>4, FS_Injection
<1>. QED
  BY <1>1, <1>5, FS_CardinalityType

-----------------------------------------------------------------------------
(* An event and its row *)

FlagNames == {RiskFlag[f] : f \in DOMAIN RiskFlag}

LEMMA FromWire ==
  ASSUME NEW table, NEW v \in DOMAIN table
  PROVE  /\ From_wire(table, table[v]) \in DOMAIN table
         /\ table[From_wire(table, table[v])] = table[v]
<1>1. table[v] \in DOMAIN Inverse_of(table)
  BY DEF Inverse_of
<1>2. From_wire(table, table[v]) = CHOOSE u \in DOMAIN table : table[u] = table[v]
  BY <1>1 DEF From_wire, Inverse_of
<1>. QED
  BY <1>2

LEMMA PlaceIs ==
  /\ \A v \in FlagNames : Place(v) \in Nat
  /\ \A v, w \in FlagNames : Place(v) = Place(w) => v = w
<1>1. FlagNames = {"stale_config", "unpinned_model", "pin_overridden", "no_policy_engine",
                   "telemetry_dropped", "substantial_candidate"}
  BY DEF FlagNames, RiskFlag
<1>2. \A v \in FlagNames : \E i \in DOMAIN FlagOrder : FlagOrder[i] = v
  <2>1. /\ DOMAIN FlagOrder = 1 .. 6
        /\ FlagOrder[1] = "no_policy_engine" /\ FlagOrder[2] = "pin_overridden"
        /\ FlagOrder[3] = "stale_config" /\ FlagOrder[4] = "substantial_candidate"
        /\ FlagOrder[5] = "telemetry_dropped" /\ FlagOrder[6] = "unpinned_model"
    BY DEF FlagOrder
  <2>2. 1 \in 1 .. 6 /\ 2 \in 1 .. 6 /\ 3 \in 1 .. 6 /\ 4 \in 1 .. 6 /\ 5 \in 1 .. 6 /\ 6 \in 1 .. 6
    OBVIOUS
  <2>. QED
    BY <1>1, <2>1, <2>2
<1>3. \A v \in FlagNames : Place(v) \in DOMAIN FlagOrder /\ FlagOrder[Place(v)] = v
  BY <1>2 DEF Place
<1>4. DOMAIN FlagOrder \subseteq Nat
  BY DEF FlagOrder
<1>. QED
  BY <1>3, <1>4

LEMMA SortIs ==
  ASSUME NEW n \in Nat, NEW flags \in [1 .. n -> DOMAIN RiskFlag]
  PROVE  /\ Sort_unstable(flags) \in [1 .. n -> FlagNames]
         /\ \A i, j \in 1 .. n : i < j => Place(Sort_unstable(flags)[i]) <= Place(Sort_unstable(flags)[j])
         /\ \E p \in Bijection(1 .. n, 1 .. n) : \A i \in 1 .. n :
              Sort_unstable(flags)[i] = RiskFlag[flags[p[i]]]
<1>. DEFINE names == [i \in DOMAIN flags |-> RiskFlag[flags[i]]]
            key == [i \in 1 .. n |-> Place(names[i])]
            t == Sort_unstable(flags)
            D == 1 .. n
<1>1. DOMAIN names = D /\ \A i \in D : names[i] = RiskFlag[flags[i]] /\ names[i] \in FlagNames
  BY DEF FlagNames
<1>. HIDE DEF names
<1>2. key \in [D -> Nat]
  BY <1>1, PlaceIs
<1>3. PICK p \in Bijection(D, D) : \A i, j \in D : i < j => key[p[i]] <= key[p[j]]
  BY <1>2, Arranged
<1>. DEFINE s == [i \in D |-> names[p[i]]]
<1>4. s \in Arrangements(names) /\ InFlagOrder(s)
  <2>1. s \in Arrangements(names)
    BY <1>1 DEF Arrangements
  <2>2. \A i \in D : p[i] \in D
    BY DEF Bijection, Injection
  <2>3. \A i \in D : key[p[i]] = Place(s[i])
    BY <2>2
  <2>4. DOMAIN s = D
    OBVIOUS
  <2>. HIDE DEF s, key
  <2>. QED
    BY <1>3, <2>1, <2>3, <2>4 DEF InFlagOrder
<1>5. t \in Arrangements(names) /\ InFlagOrder(t)
  BY <1>4 DEF Sort_unstable, names
<1>6. PICK q \in Bijection(D, D) : t = [i \in D |-> names[q[i]]]
  BY <1>1, <1>5 DEF Arrangements
<1>7. \A i \in D : q[i] \in D
  BY DEF Bijection, Injection
<1>. HIDE DEF t
<1>8. DOMAIN t = D /\ \A i \in D : t[i] = names[q[i]]
  BY <1>6
<1>9. t \in [D -> FlagNames]
  BY <1>1, <1>6, <1>7
<1>10. \A i, j \in D : i < j => Place(t[i]) <= Place(t[j])
  BY <1>5, <1>8 DEF InFlagOrder
<1>11. \A i \in D : t[i] = RiskFlag[flags[q[i]]]
  BY <1>1, <1>7, <1>8
<1>. QED
  BY <1>9, <1>10, <1>11 DEF t

\* The flags that are read back are sorted, and sorting them again changes
\* nothing.
LEMMA SortTwice ==
  ASSUME NEW n \in Nat, NEW flags \in [1 .. n -> DOMAIN RiskFlag], NEW t, t = Sort_unstable(flags),
         NEW back, back = [i \in DOMAIN t |-> From_wire(RiskFlag, t[i])]
  PROVE  Sort_unstable(back) = t
<1>1. t \in [1 .. n -> FlagNames] /\ \A i, j \in 1 .. n : i < j => Place(t[i]) <= Place(t[j])
  BY SortIs
<1>2. ASSUME NEW i \in 1 .. n PROVE back[i] \in DOMAIN RiskFlag /\ RiskFlag[back[i]] = t[i]
  <2>1. PICK f \in DOMAIN RiskFlag : t[i] = RiskFlag[f]
    BY <1>1 DEF FlagNames
  <2>2. back[i] = From_wire(RiskFlag, RiskFlag[f])
    BY <1>1, <2>1
  <2>. QED
    BY <2>1, <2>2, FromWire
<1>3. back \in [1 .. n -> DOMAIN RiskFlag]
  BY <1>1, <1>2
<1>. DEFINE u == Sort_unstable(back)
            key == [i \in 1 .. n |-> Place(t[i])]
<1>4. u \in [1 .. n -> FlagNames] /\ \A i, j \in 1 .. n : i < j => Place(u[i]) <= Place(u[j])
  BY <1>3, SortIs
<1>5. PICK p \in Bijection(1 .. n, 1 .. n) : \A i \in 1 .. n : u[i] = RiskFlag[back[p[i]]]
  BY <1>3, SortIs
<1>. HIDE DEF u
<1>6. \A i \in 1 .. n : p[i] \in 1 .. n
  BY DEF Bijection, Injection
<1>7. \A i \in 1 .. n : u[i] = t[p[i]]
  BY <1>2, <1>5, <1>6
<1>8. key \in [1 .. n -> Nat] /\ \A i \in 1 .. n : key[i] = Place(t[i]) /\ key[p[i]] = Place(u[i])
  BY <1>1, <1>6, <1>7, PlaceIs
<1>. HIDE DEF key
<1>9. \A i \in 1 .. n : key[p[i]] = key[i]
  BY <1>1, <1>4, <1>8, SortedOnce
<1>10. \A i \in 1 .. n : u[i] = t[i]
  <2>. SUFFICES ASSUME NEW i \in 1 .. n PROVE u[i] = t[i]
    OBVIOUS
  <2>1. Place(u[i]) = Place(t[i]) /\ u[i] \in FlagNames /\ t[i] \in FlagNames
    BY <1>1, <1>4, <1>8, <1>9
  <2>. QED
    BY <2>1, PlaceIs
<1>11. u = t
  BY <1>1, <1>4, <1>10
<1>. QED
  BY <1>11 DEF u

LEMMA SameView ==
  ASSUME NEW e, NEW x,
         x.tenant_id = e.tenant_id, x.system_id = e.system_id, x.seq = e.seq,
         x.prev_hash = e.prev_hash, x.canon_version = e.canon_version,
         x.occurred_at = e.occurred_at, EventType[x.event_type] = EventType[e.event_type],
         Outcome[x.outcome] = Outcome[e.outcome],
         x.pins.config_generation = e.pins.config_generation, x.pins.names = e.pins.names,
         RiskClass[x.pins.risk_class] = RiskClass[e.pins.risk_class],
         x.pins.resolved_stale = e.pins.resolved_stale,
         Sort_unstable(x.pins.risk_flags) = Sort_unstable(e.pins.risk_flags),
         x.numbers = e.numbers
  PROVE  Event_hash(x) = Event_hash(e)
<1>1. Hashed_view(x) = Hashed_view(e)
  BY DEF Hashed_view
<1>. QED
  BY <1>1 DEF Event_hash

LEMMA ThereAndBack ==
  ASSUME NEW b \in BOOLEAN
  PROVE  ((IF b THEN 1 ELSE 0) # 0) = b
<1>1. 1 # 0
  OBVIOUS
<1>. QED
  BY <1>1, Zenon

\* The texts of the pins, put into their columns and read back, are what they were.
LEMMA ColumnsRead ==
  ASSUME NEW names, names = [m \in PinNames |-> names[m]]
  PROVE  Names_from(Columns_from(names)) = names
<1>1. DOMAIN Names_from(Columns_from(names)) = PinNames
  BY DEF Names_from, PinNames
<1>2. Names_from(Columns_from(names)) = [m \in PinNames |-> Names_from(Columns_from(names))[m]]
  BY <1>1 DEF Names_from
<1>3. \A m \in PinNames : Names_from(Columns_from(names))[m] = names[m]
  BY DEF PinNames, Names_from, Columns_from
<1>. QED
  BY <1>2, <1>3

\* What an event is stored as, and what is read of the row.
LEMMA RoundTrip ==
  ASSUME NEW e \in NewEvents, NEW c, NEW seq, NEW r, r = Row_from(Placed(c, e, seq))
  PROVE  /\ Try_from(r).event_hash = Event_hash(Try_from(r))
         /\ r.seq = seq /\ r.event_type \in Range(EventType)
         /\ \A i, j \in DOMAIN r.risk_flags : i # j => r.risk_flags[i] # r.risk_flags[j]
<1>. DEFINE p == [e EXCEPT !.tenant_id = c, !.seq = seq,
                           !.prev_hash = IF seq = 1 THEN Genesis ELSE <<c, seq - 1>>]
            x == Try_from(r)
            flags == e.pins.risk_flags
            n == Len(flags)
<1>1. /\ DOMAIN e = {"tenant_id", "system_id", "seq", "prev_hash", "event_hash", "canon_version",
                     "occurred_at", "ingested_at", "event_type", "outcome", "pins", "numbers"}
      /\ e.event_type \in DOMAIN EventType /\ e.outcome \in DOMAIN Outcome
      /\ e.pins.names = [m \in PinNames |-> e.pins.names[m]]
      /\ e.pins.risk_class \in DOMAIN RiskClass /\ e.pins.resolved_stale \in BOOLEAN
      /\ flags \in Seq(DOMAIN RiskFlag)
      /\ \A i, j \in DOMAIN flags : i # j => flags[i] # flags[j]
  BY WhatIsWritten
<1>2. Placed(c, e, seq) = [p EXCEPT !.event_hash = Event_hash(p)]
  BY DEF Placed, Seal_event
<1>3. /\ DOMAIN p = DOMAIN e /\ p.tenant_id = c /\ p.seq = seq
      /\ p.system_id = e.system_id /\ p.canon_version = e.canon_version
      /\ p.occurred_at = e.occurred_at /\ p.event_type = e.event_type /\ p.outcome = e.outcome
      /\ p.pins = e.pins /\ p.numbers = e.numbers
  BY <1>1
<1>. HIDE DEF p
<1>. DEFINE q == Placed(c, e, seq)
<1>4. /\ q.event_hash = Event_hash(p)
      /\ q.tenant_id = p.tenant_id /\ q.system_id = p.system_id /\ q.seq = p.seq
      /\ q.prev_hash = p.prev_hash /\ q.canon_version = p.canon_version
      /\ q.occurred_at = p.occurred_at /\ q.event_type = p.event_type /\ q.outcome = p.outcome
      /\ q.pins = p.pins /\ q.numbers = p.numbers
  BY <1>1, <1>2, <1>3
<1>. HIDE DEF q
<1>5. /\ r.event_hash = q.event_hash /\ r.tenant_id = q.tenant_id /\ r.system_id = q.system_id
      /\ r.seq = q.seq /\ r.prev_hash = q.prev_hash /\ r.canon_version = q.canon_version
      /\ r.occurred_at = q.occurred_at /\ r.event_type = EventType[q.event_type]
      /\ r.outcome = Outcome[q.outcome] /\ r.config_generation = q.pins.config_generation
      /\ r.names = Columns_from(q.pins.names) /\ r.risk_class = Discriminant[q.pins.risk_class]
      /\ r.resolved_stale = (IF q.pins.resolved_stale THEN 1 ELSE 0)
      /\ r.risk_flags = Sort_unstable(q.pins.risk_flags) /\ r.numbers = q.numbers
  BY DEF Row_from, q
<1>6. /\ x.event_hash = r.event_hash /\ x.tenant_id = r.tenant_id /\ x.system_id = r.system_id
      /\ x.seq = r.seq /\ x.prev_hash = r.prev_hash /\ x.canon_version = r.canon_version
      /\ x.occurred_at = r.occurred_at /\ x.event_type = From_wire(EventType, r.event_type)
      /\ x.outcome = From_wire(Outcome, r.outcome)
      /\ x.pins.config_generation = r.config_generation /\ x.pins.names = Names_from(r.names)
      /\ x.pins.risk_class = (CHOOSE d \in DOMAIN Discriminant : Discriminant[d] = r.risk_class)
      /\ x.pins.resolved_stale = (r.resolved_stale # 0)
      /\ x.pins.risk_flags = [i \in DOMAIN r.risk_flags |-> From_wire(RiskFlag, r.risk_flags[i])]
      /\ x.numbers = r.numbers
  BY DEF Try_from
<1>. HIDE DEF x
<1>7. EventType[x.event_type] = EventType[p.event_type] /\ r.event_type \in Range(EventType)
  <2>1. p.event_type \in DOMAIN EventType /\ r.event_type = EventType[p.event_type]
    BY <1>1, <1>3, <1>4, <1>5
  <2>. QED
    BY <1>6, <2>1, FromWire DEF Range
<1>8. Outcome[x.outcome] = Outcome[p.outcome]
  <2>1. p.outcome \in DOMAIN Outcome /\ r.outcome = Outcome[p.outcome]
    BY <1>1, <1>3, <1>4, <1>5
  <2>. QED
    BY <1>6, <2>1, FromWire
<1>9. RiskClass[x.pins.risk_class] = RiskClass[p.pins.risk_class]
  <2>1. p.pins.risk_class \in DOMAIN Discriminant
    BY <1>1, <1>3 DEF RiskClass, Discriminant
  <2>2. \A d, b \in DOMAIN Discriminant : Discriminant[d] = Discriminant[b] => d = b
    BY DEF Discriminant
  <2>3. x.pins.risk_class = CHOOSE d \in DOMAIN Discriminant : Discriminant[d] = Discriminant[p.pins.risk_class]
    BY <1>4, <1>5, <1>6
  <2>4. x.pins.risk_class = p.pins.risk_class
    BY <2>1, <2>2, <2>3
  <2>. QED
    BY <2>4
<1>10. x.pins.resolved_stale = p.pins.resolved_stale
  <2>1. p.pins.resolved_stale \in BOOLEAN
    BY <1>1, <1>3
  <2>2. x.pins.resolved_stale = ((IF p.pins.resolved_stale THEN 1 ELSE 0) # 0)
    BY <1>4, <1>5, <1>6
  <2>. QED
    BY <2>1, <2>2, ThereAndBack
<1>11. n \in Nat /\ flags \in [1 .. n -> DOMAIN RiskFlag] /\ r.risk_flags = Sort_unstable(flags)
       /\ p.pins.risk_flags = flags
  BY <1>1, <1>3, <1>4, <1>5
<1>. HIDE DEF n, flags
<1>12. Sort_unstable(x.pins.risk_flags) = Sort_unstable(p.pins.risk_flags)
  BY <1>6, <1>11, SortTwice
<1>13. Event_hash(x) = Event_hash(p)
  <2>1. /\ x.tenant_id = p.tenant_id /\ x.system_id = p.system_id /\ x.seq = p.seq
        /\ x.prev_hash = p.prev_hash /\ x.canon_version = p.canon_version
        /\ x.occurred_at = p.occurred_at /\ x.numbers = p.numbers
        /\ x.pins.config_generation = p.pins.config_generation
    BY <1>4, <1>5, <1>6
  <2>2. x.pins.names = p.pins.names
    <3>1. x.pins.names = Names_from(Columns_from(e.pins.names))
      BY <1>3, <1>4, <1>5, <1>6
    <3>. QED
      BY <1>1, <1>3, <3>1, ColumnsRead
  <2>. QED
    BY <2>1, <2>2, <1>7, <1>8, <1>9, <1>10, <1>12, SameView, Zenon
<1>14. \A i, j \in DOMAIN r.risk_flags : i # j => r.risk_flags[i] # r.risk_flags[j]
  <2>1. PICK a \in Bijection(1 .. n, 1 .. n) : \A i \in 1 .. n : r.risk_flags[i] = RiskFlag[flags[a[i]]]
    BY <1>11, SortIs
  <2>2. DOMAIN r.risk_flags = 1 .. n
    BY <1>11, SortIs
  <2>3. \A i, j \in 1 .. n : a[i] \in 1 .. n /\ (i # j => a[i] # a[j])
    BY DEF Bijection, Injection, IsInjective
  <2>4. \A i, j \in 1 .. n : i # j => flags[i] # flags[j]
    BY <1>1, <1>11 DEF flags
  <2>5. \A f, g \in DOMAIN RiskFlag : RiskFlag[f] = RiskFlag[g] => f = g
    BY DEF RiskFlag
  <2>6. ASSUME NEW i \in 1 .. n, NEW j \in 1 .. n, i # j PROVE r.risk_flags[i] # r.risk_flags[j]
    <3>1. flags[a[i]] # flags[a[j]] /\ flags[a[i]] \in DOMAIN RiskFlag /\ flags[a[j]] \in DOMAIN RiskFlag
      BY <1>11, <2>3, <2>4, <2>6
    <3>. QED
      BY <2>1, <2>5, <3>1
  <2>. QED
    BY <2>2, <2>6
<1>15. x.event_hash = Event_hash(x)
  BY <1>4, <1>5, <1>6, <1>13
<1>16. r.seq = seq
  BY <1>3, <1>4, <1>5
<1>. QED
  BY <1>7, <1>14, <1>15, <1>16 DEF x

-----------------------------------------------------------------------------
(* The rows *)

IsSequence(s) == \E S : s \in Seq(S)
RowOK(r) ==
  /\ \A i, j \in DOMAIN r.risk_flags : i # j => r.risk_flags[i] # r.risk_flags[j]
  /\ Readable(r) => Try_from(r).event_hash = Event_hash(Try_from(r))

\* A row was made of an event, or cannot be read, and has no flag twice.
RowsInv ==
  /\ DOMAIN rows = Chains
  /\ \A c \in Chains : IsSequence(rows[c]) /\ \A i \in 1 .. Len(rows[c]) : RowOK(rows[c][i])

LEMMA Appended ==
  ASSUME NEW s, IsSequence(s), NEW x
  PROVE  /\ IsSequence(Append(s, x)) /\ Len(s) \in Nat /\ Len(Append(s, x)) = Len(s) + 1
         /\ DOMAIN s = 1 .. Len(s)
         /\ \A i \in 1 .. Len(s) : Append(s, x)[i] = s[i]
         /\ Append(s, x)[Len(s) + 1] = x
         /\ \A k \in 0 .. Len(s) : SubSeq(Append(s, x), 1, k) = SubSeq(s, 1, k)
<1>1. PICK S : s \in Seq(S)
  BY DEF IsSequence
<1>. DEFINE T == S \union {x}
            a == Append(s, x)
<1>2. s \in Seq(T) /\ x \in T
  BY <1>1
<1>. HIDE DEF T
<1>3. /\ a \in Seq(T) /\ Len(s) \in Nat /\ Len(a) = Len(s) + 1 /\ DOMAIN s = 1 .. Len(s)
      /\ \A i \in 1 .. Len(s) : a[i] = s[i]
      /\ a[Len(s) + 1] = x
  BY <1>2
<1>. HIDE DEF a
<1>4. ASSUME NEW k \in 0 .. Len(s) PROVE SubSeq(a, 1, k) = SubSeq(s, 1, k)
  <2>1. \A i \in 1 .. k : i \in 1 .. Len(s) /\ i \in 1 .. Len(a)
    BY <1>3
  <2>2. SubSeq(a, 1, k) = [i \in 1 .. k |-> a[i]]
    BY <1>3
  <2>3. SubSeq(s, 1, k) = [i \in 1 .. k |-> s[i]]
    BY <1>2, <1>3
  <2>. QED
    BY <1>3, <2>1, <2>2, <2>3
<1>5. IsSequence(a)
  BY <1>3 DEF IsSequence
<1>. QED
  BY <1>3, <1>4, <1>5 DEF a

LEMMA NewerIsUnread ==
  ASSUME NEW newer \in NewerRows, NEW e \in NewEvents, NEW c, NEW seq
  PROVE  RowOK(Changed(Row_from(Placed(c, e, seq)), newer))
<1>. DEFINE r == Row_from(Placed(c, e, seq))
            x == Changed(r, newer)
<1>1. /\ "event_type" \in DOMAIN newer /\ newer.event_type \notin Range(EventType)
      /\ "risk_flags" \notin DOMAIN newer
  BY WhatIsWritten
<1>2. {"risk_flags", "event_type"} \subseteq DOMAIN r
  BY DEF Row_from
<1>3. \A i, j \in DOMAIN r.risk_flags : i # j => r.risk_flags[i] # r.risk_flags[j]
  BY RoundTrip
<1>. HIDE DEF r
<1>4. x["event_type"] = newer["event_type"] /\ x["risk_flags"] = r["risk_flags"]
  BY <1>1, <1>2 DEF Changed
<1>5. x.event_type = newer.event_type /\ x.risk_flags = r.risk_flags
  BY <1>4
<1>. HIDE DEF x
<1>6. ~ Readable(x)
  <2>1. From_wire(EventType, x.event_type) = Unread
    BY <1>1, <1>5 DEF From_wire, Inverse_of, Range
  <2>. QED
    BY <2>1 DEF Readable
<1>. QED
  BY <1>3, <1>5, <1>6 DEF RowOK, x, r

\* A chain stays as it is, or a row is put at its end.
LEMMA RowsGrow ==
  ASSUME RowsInv, [ApiNext]_apiVars
  PROVE  /\ RowsInv'
         /\ \A c \in Chains : rows'[c] = rows[c] \/ \E x : RowOK(x) /\ rows'[c] = Append(rows[c], x)
         /\ UNCHANGED rows \/ UNCHANGED <<session, summary>>
<1>1. ASSUME UNCHANGED rows
      PROVE  RowsInv' /\ \A c \in Chains : rows'[c] = rows[c]
  BY <1>1 DEF RowsInv
<1>2. ASSUME NEW c \in Chains, NEW x, RowOK(x), rows' = [rows EXCEPT ![c] = Append(@, x)]
      PROVE  /\ RowsInv'
             /\ \A d \in Chains : rows'[d] = rows[d]
                                  \/ \E y : RowOK(y) /\ rows'[d] = Append(rows[d], y)
  <2>1. /\ DOMAIN rows' = Chains /\ rows'[c] = Append(rows[c], x)
        /\ \A d \in Chains : d # c => rows'[d] = rows[d]
    BY <1>2 DEF RowsInv
  <2>2. IsSequence(rows[c]) /\ \A i \in 1 .. Len(rows[c]) : RowOK(rows[c][i])
    BY DEF RowsInv
  <2>3. /\ IsSequence(rows'[c]) /\ Len(rows[c]) \in Nat /\ Len(rows'[c]) = Len(rows[c]) + 1
        /\ \A i \in 1 .. Len(rows[c]) : rows'[c][i] = rows[c][i]
        /\ rows'[c][Len(rows[c]) + 1] = x
    BY <2>1, <2>2, Appended
  <2>4. ASSUME NEW i \in 1 .. Len(rows'[c]) PROVE RowOK(rows'[c][i])
    <3>1. i \in 1 .. Len(rows[c]) \/ i = Len(rows[c]) + 1
      BY <2>3
    <3>. QED
      BY <1>2, <2>2, <2>3, <3>1
  <2>5. ASSUME NEW d \in Chains
        PROVE  IsSequence(rows'[d]) /\ \A i \in 1 .. Len(rows'[d]) : RowOK(rows'[d][i])
    BY <2>1, <2>3, <2>4 DEF RowsInv
  <2>6. RowsInv'
    BY <2>1, <2>5 DEF RowsInv, RowOK, Readable, Try_from, Event_hash, Hashed_view
  <2>. QED
    BY <1>2, <2>1, <2>6
<1>3. ASSUME NEW c \in Chains, NEW e \in NewEvents, NEW seq
      PROVE  RowOK(Row_from(Placed(c, e, seq)))
  BY RoundTrip DEF RowOK
<1>4. ASSUME NEW c \in Chains, NEW e \in NewEvents, Insert(c, e)
      PROVE  /\ \E x : RowOK(x) /\ rows' = [rows EXCEPT ![c] = Append(@, x)]
             /\ UNCHANGED <<session, summary>>
  <2>. DEFINE x == Row_from(Placed(c, e, Head_of(c) + 1))
  <2>1. RowOK(x)
    BY <1>3
  <2>2. rows' = [rows EXCEPT ![c] = Append(@, x)] /\ UNCHANGED <<session, summary>>
    BY <1>4 DEF Insert
  <2>. HIDE DEF x
  <2>. QED
    BY <2>1, <2>2
<1>5. ASSUME NEW c \in Chains, NEW e \in NewEvents, InsertOffPlace(c, e)
      PROVE  /\ \E x : RowOK(x) /\ rows' = [rows EXCEPT ![c] = Append(@, x)]
             /\ UNCHANGED <<session, summary>>
  <2>1. PICK seq : rows' = [rows EXCEPT ![c] = Append(@, Row_from(Placed(c, e, seq)))]
    BY <1>5 DEF InsertOffPlace
  <2>. DEFINE x == Row_from(Placed(c, e, seq))
  <2>2. RowOK(x)
    BY <1>3
  <2>3. rows' = [rows EXCEPT ![c] = Append(@, x)]
    BY <2>1
  <2>4. UNCHANGED <<session, summary>>
    BY <1>5 DEF InsertOffPlace
  <2>. HIDE DEF x
  <2>. QED
    BY <2>2, <2>3, <2>4
<1>6. ASSUME NEW c \in Chains, NEW e \in NewEvents, InsertOfLaterBuild(c, e)
      PROVE  /\ \E x : RowOK(x) /\ rows' = [rows EXCEPT ![c] = Append(@, x)]
             /\ UNCHANGED <<session, summary>>
  <2>1. PICK newer \in NewerRows :
          rows' = [rows EXCEPT ![c] = Append(@,
            Changed(Row_from(Placed(c, e, Head_of(c) + 1)), newer))]
    BY <1>6 DEF InsertOfLaterBuild
  <2>. DEFINE x == Changed(Row_from(Placed(c, e, Head_of(c) + 1)), newer)
  <2>2. RowOK(x)
    BY NewerIsUnread
  <2>3. rows' = [rows EXCEPT ![c] = Append(@, x)]
    BY <2>1
  <2>4. UNCHANGED <<session, summary>>
    BY <1>6 DEF InsertOfLaterBuild
  <2>. HIDE DEF x
  <2>. QED
    BY <2>2, <2>3, <2>4
<1>7. CASE UNCHANGED apiVars
  BY <1>1, <1>7 DEF apiVars, store
<1>8. CASE ApiNext
  <2>1. ASSUME NEW typed, Session_create(typed) PROVE UNCHANGED rows
    BY <2>1 DEF Session_create, store
  <2>2. ASSUME Session_delete \/ Session_expires \/ Restart \/ Counted \/ SummaryAnswered
        PROVE  UNCHANGED rows
    BY <2>2 DEF Session_delete, Session_expires, Restart, Counted, SummaryAnswered, store
  <2>3. ASSUME NEW c, NEW bearer, Chain_summary(c, bearer) PROVE UNCHANGED rows
    BY <2>3 DEF Chain_summary, store
  <2>4. ASSUME NEW c \in Chains, NEW e \in NewEvents,
               Insert(c, e) \/ InsertOffPlace(c, e) \/ InsertOfLaterBuild(c, e)
        PROVE  /\ \E x : RowOK(x) /\ rows' = [rows EXCEPT ![c] = Append(@, x)]
               /\ UNCHANGED <<session, summary>>
    BY <1>4, <1>5, <1>6, <2>4
  <2>5. CASE UNCHANGED rows
    BY <1>1, <2>5
  <2>6. CASE \E c \in Chains, e \in NewEvents :
               Insert(c, e) \/ InsertOffPlace(c, e) \/ InsertOfLaterBuild(c, e)
    <3>1. PICK c \in Chains, e \in NewEvents :
            Insert(c, e) \/ InsertOffPlace(c, e) \/ InsertOfLaterBuild(c, e)
      BY <2>6
    <3>2. PICK x : RowOK(x) /\ rows' = [rows EXCEPT ![c] = Append(@, x)]
      BY <2>4, <3>1
    <3>. QED
      BY <1>2, <2>4, <3>1, <3>2
  <2>. QED
    BY <1>8, <2>1, <2>2, <2>3, <2>5, <2>6 DEF ApiNext
<1>. QED
  BY <1>7, <1>8

LEMMA RowsAtFirst == ApiInit => RowsInv
<1>. SUFFICES ASSUME ApiInit PROVE RowsInv
  OBVIOUS
<1>1. rows = [c \in Chains |-> <<>>]
  BY DEF ApiInit
<1>2. <<>> \in Seq({}) /\ Len(<<>>) = 0
  OBVIOUS
<1>3. IsSequence(<<>>)
  BY <1>2 DEF IsSequence
<1>. QED
  BY <1>1, <1>2, <1>3 DEF RowsInv

-----------------------------------------------------------------------------
(* What is exported *)

LEMMA PagesKeep == RowsInv => ExportKeepsHashes
<1>. SUFFICES ASSUME RowsInv, NEW c \in Chains, NEW from \in 1 .. MaxRows, NEW to \in from .. MaxRows,
                     NEW page \in Events_of(c, from, to)
              PROVE  /\ Len(page) = Cardinality(InRange(c, from, to))
                     /\ \A i \in DOMAIN page : page[i].event_hash = Event_hash(page[i])
                     /\ \A i \in 2 .. Len(page) : page[i - 1].seq <= page[i].seq
  BY DEF ExportKeepsHashes, InRange
<1>. DEFINE there == InRange(c, from, to)
            n == Cardinality(there)
<1>1. /\ Len(rows[c]) \in Nat /\ DOMAIN rows[c] = 1 .. Len(rows[c])
      /\ \A i \in DOMAIN rows[c] : RowOK(rows[c][i])
  <2>1. IsSequence(rows[c]) /\ \A i \in 1 .. Len(rows[c]) : RowOK(rows[c][i])
    BY DEF RowsInv
  <2>. QED
    BY <2>1, Appended
<1>2. there \subseteq DOMAIN rows[c]
  BY DEF InRange
<1>3. n \in Nat
  <2>1. IsFiniteSet(1 .. Len(rows[c]))
    BY <1>1, FS_Interval
  <2>. QED
    BY <1>1, <1>2, <2>1, FS_Subset, FS_CardinalityType
<1>4. \A i \in there : Readable(rows[c][i])
  BY DEF Events_of
<1>5. PICK p \in BySeq(c, there) : page = Page(c, p)
  BY <1>4 DEF Events_of
<1>6. /\ p \in [1 .. n -> there]
      /\ \A i, j \in 1 .. n : i < j => rows[c][p[i]].seq <= rows[c][p[j]].seq
  BY DEF BySeq, SetToSeqs
<1>7. page = [i \in 1 .. n |-> Try_from(rows[c][p[i]])]
  BY <1>5, <1>6 DEF Page
<1>. HIDE DEF n, there
<1>8. DOMAIN page = 1 .. n /\ \A i \in 1 .. n : page[i] = Try_from(rows[c][p[i]])
  BY <1>7
<1>9. Len(page) = n
  <2>. DEFINE S == {page[i] : i \in 1 .. n}
  <2>1. page \in [1 .. n -> S]
    BY <1>7
  <2>. HIDE DEF S
  <2>2. page \in Seq(S)
    BY <1>3, <2>1
  <2>. QED
    BY <1>3, <1>8, <2>2
<1>10. ASSUME NEW i \in 1 .. n PROVE page[i].event_hash = Event_hash(page[i])
  <2>1. Readable(rows[c][p[i]]) /\ RowOK(rows[c][p[i]])
    BY <1>1, <1>2, <1>4, <1>6
  <2>2. Try_from(rows[c][p[i]]).event_hash = Event_hash(Try_from(rows[c][p[i]]))
    BY <2>1 DEF RowOK
  <2>. QED
    BY <1>8, <2>2
<1>11. ASSUME NEW i \in 2 .. n PROVE page[i - 1].seq <= page[i].seq
  <2>1. i - 1 \in 1 .. n /\ i \in 1 .. n /\ i - 1 < i
    BY <1>3
  <2>2. rows[c][p[i - 1]].seq <= rows[c][p[i]].seq
    BY <1>6, <2>1
  <2>3. \A r : Try_from(r).seq = r.seq
    BY DEF Try_from
  <2>. QED
    BY <1>8, <2>1, <2>2, <2>3
<1>. QED
  BY <1>8, <1>9, <1>10, <1>11 DEF n, there

\* What is handed over hashes as what was sealed, and a range whole and in order,
\* or not at all: whatever ingesters of this build and of later ones have stored.
THEOREM ExportsKeepHashes == ApiSpec => []ExportKeepsHashes
<1>1. RowsInv /\ [ApiNext]_apiVars => RowsInv'
  BY RowsGrow
<1>. QED
  BY <1>1, RowsAtFirst, PagesKeep, PTL DEF ApiSpec

-----------------------------------------------------------------------------
(* What is counted for a summary *)

Then(m, s) == SubSeq(s, 1, m.rows)
GapsIn(s) == {i \in DOMAIN s : GAP(s[i])}

\* What has been put together of the summary m, when the chain has the rows s.
Told(m, s) ==
  /\ m.stage \in {"risk_flags", "event_types", "outcomes", "model_versions", "done"}
  /\ DOMAIN m = {"stage", "chain", "rows", "head_seq", "event_count", "first_event_at",
                 "last_event_at", "generations", "events_with_gaps", "risk_flags", "event_types",
                 "outcomes", "model_versions"}
  /\ m.rows \in 0 .. Len(s) /\ m.event_count = m.rows
  /\ m.events_with_gaps = Cardinality(GapsIn(Then(m, s)))
  /\ m.stage = "event_types" => \A f \in DOMAIN m.risk_flags : m.risk_flags[f] \in 0 .. Len(s)
  /\ m.stage \in {"outcomes", "model_versions", "done"} =>
       /\ Total(m.event_types) \in m.rows .. Len(s)
       /\ \A f \in DOMAIN m.risk_flags : m.risk_flags[f] \in 0 .. Total(m.event_types)
  /\ m.stage \in {"model_versions", "done"} =>
       Total(m.outcomes) \in Total(m.event_types) .. Len(s)
  /\ m.stage = "done" => Total(m.model_versions) \in Total(m.outcomes) .. Len(s)

SummaryInv ==
  /\ RowsInv
  /\ summary.stage # "none" => summary.chain \in Chains /\ Told(summary, rows[summary.chain])

LEMMA ToldStays ==
  ASSUME NEW m, NEW s, NEW x, IsSequence(s), Told(m, s)
  PROVE  Told(m, Append(s, x))
<1>1. Len(s) \in Nat /\ Len(Append(s, x)) = Len(s) + 1
  BY Appended
<1>2. m.rows \in 0 .. Len(s)
  BY DEF Told
<1>3. Then(m, Append(s, x)) = Then(m, s)
  <2>1. \A k \in 0 .. Len(s) : SubSeq(Append(s, x), 1, k) = SubSeq(s, 1, k)
    BY Appended
  <2>. QED
    BY <1>2, <2>1 DEF Then
<1>4. \A k : k \in 0 .. Len(s) => k \in 0 .. Len(Append(s, x))
  BY <1>1
<1>5. \A j, k : j \in Nat /\ k \in j .. Len(s) => k \in j .. Len(Append(s, x)) /\ k \in Nat
  BY <1>1
<1>. QED
  BY <1>2, <1>3, <1>4, <1>5 DEF Told

LEMMA ToldAtFirst ==
  ASSUME NEW c, NEW s, IsSequence(s), NEW h, NEW a, NEW z, NEW g
  PROVE  Told([stage |-> "risk_flags", chain |-> c, rows |-> Len(s), head_seq |-> h,
               event_count |-> Len(s), first_event_at |-> a, last_event_at |-> z,
               generations |-> g,
               events_with_gaps |-> Cardinality({i \in DOMAIN s : GAP(s[i])}),
               risk_flags |-> <<>>, event_types |-> <<>>, outcomes |-> <<>>,
               model_versions |-> <<>>], s)
<1>1. Len(s) \in Nat
  BY Appended
<1>2. SubSeq(s, 1, Len(s)) = s
  <2>1. PICK S : s \in Seq(S)
    BY DEF IsSequence
  <2>. QED
    BY <2>1
<1>. DEFINE m == [stage |-> "risk_flags", chain |-> c, rows |-> Len(s), head_seq |-> h,
                  event_count |-> Len(s), first_event_at |-> a, last_event_at |-> z,
                  generations |-> g,
                  events_with_gaps |-> Cardinality({i \in DOMAIN s : GAP(s[i])}),
                  risk_flags |-> <<>>, event_types |-> <<>>, outcomes |-> <<>>,
                  model_versions |-> <<>>]
<1>3. /\ DOMAIN m = {"stage", "chain", "rows", "head_seq", "event_count", "first_event_at",
                     "last_event_at", "generations", "events_with_gaps", "risk_flags",
                     "event_types", "outcomes", "model_versions"}
      /\ m.stage = "risk_flags" /\ m.rows = Len(s) /\ m.event_count = Len(s)
      /\ m.events_with_gaps = Cardinality(GapsIn(s))
  BY DEF GapsIn
<1>. HIDE DEF m
<1>4. Then(m, s) = s
  BY <1>2, <1>3 DEF Then
<1>5. Told(m, s)
  BY <1>1, <1>3, <1>4 DEF Told
<1>. QED
  BY <1>5 DEF m

LEMMA CountsRows ==
  ASSUME NEW s, IsSequence(s), \A i \in 1 .. Len(s) : RowOK(s[i])
  PROVE  /\ Len(s) \in Nat
         /\ \A d \in {"event_types", "outcomes", "model_versions"} :
              Total(Counts(CountedNames(s, d))) = Len(s)
         /\ \A f \in DOMAIN Counts(CountedNames(s, "risk_flags")) :
              Counts(CountedNames(s, "risk_flags"))[f] \in 0 .. Len(s)
<1>1. Len(s) \in Nat /\ DOMAIN s = 1 .. Len(s)
  BY Appended
<1>2. ASSUME NEW d \in {"event_types", "outcomes", "model_versions"}
      PROVE  DOMAIN CountedNames(s, d) = 1 .. Len(s)
  BY <1>1 DEF CountedNames
<1>3. CountedNames(s, "risk_flags") = Flags(s)
  BY DEF CountedNames
<1>4. \A i \in 1 .. Len(s) : \A j, k \in DOMAIN s[i].risk_flags :
        j # k => s[i].risk_flags[j] # s[i].risk_flags[k]
  BY DEF RowOK
<1>. QED
  BY <1>1, <1>2, <1>3, <1>4, TotalIs, FlagsCounted

LEMMA ToldOn ==
  ASSUME NEW m, NEW s, IsSequence(s), \A i \in 1 .. Len(s) : RowOK(s[i]), Told(m, s),
         m.stage \in DOMAIN NextDimension
  PROVE  Told([m EXCEPT ![m.stage] = Counts(CountedNames(s, m.stage)),
                        !.stage = NextDimension[m.stage]], s)
<1>. DEFINE x == [m EXCEPT ![m.stage] = Counts(CountedNames(s, m.stage)),
                           !.stage = NextDimension[m.stage]]
<1>1. /\ DOMAIN m = {"stage", "chain", "rows", "head_seq", "event_count", "first_event_at",
                     "last_event_at", "generations", "events_with_gaps", "risk_flags",
                     "event_types", "outcomes", "model_versions"}
      /\ m.rows \in 0 .. Len(s) /\ m.event_count = m.rows
      /\ m.events_with_gaps = Cardinality(GapsIn(Then(m, s)))
  BY DEF Told
<1>2. m.stage \in {"risk_flags", "event_types", "outcomes", "model_versions"}
  BY DEF NextDimension
<1>3. /\ DOMAIN x = DOMAIN m /\ x.stage = NextDimension[m.stage]
      /\ x[m.stage] = Counts(CountedNames(s, m.stage))
      /\ \A f \in DOMAIN m \ {m.stage, "stage"} : x[f] = m[f]
  BY <1>1, <1>2
<1>. HIDE DEF x
<1>4. /\ Len(s) \in Nat
      /\ \A d \in {"event_types", "outcomes", "model_versions"} :
           Total(Counts(CountedNames(s, d))) = Len(s)
      /\ \A f \in DOMAIN Counts(CountedNames(s, "risk_flags")) :
           Counts(CountedNames(s, "risk_flags"))[f] \in 0 .. Len(s)
  BY CountsRows
<1>5. x.rows = m.rows /\ x.event_count = m.rows /\ x.events_with_gaps = m.events_with_gaps
  BY <1>1, <1>2, <1>3
<1>6. x.events_with_gaps = Cardinality(GapsIn(Then(x, s)))
  BY <1>1, <1>5 DEF Then
<1>7. CASE m.stage = "risk_flags"
  <2>1. /\ x.stage = "event_types"
        /\ \A f \in DOMAIN x.risk_flags : x.risk_flags[f] \in 0 .. Len(s)
    BY <1>3, <1>4, <1>7 DEF NextDimension
  <2>. QED
    BY <1>1, <1>3, <1>5, <1>6, <2>1 DEF Told, x
<1>8. CASE m.stage = "event_types"
  <2>1. /\ x.stage = "outcomes" /\ Total(x.event_types) = Len(s)
        /\ x.risk_flags = m.risk_flags
    BY <1>1, <1>3, <1>4, <1>8 DEF NextDimension
  <2>2. \A f \in DOMAIN m.risk_flags : m.risk_flags[f] \in 0 .. Len(s)
    BY <1>8 DEF Told
  <2>3. Len(s) \in m.rows .. Len(s)
    BY <1>1, <1>4
  <2>. QED
    BY <1>1, <1>3, <1>5, <1>6, <2>1, <2>2, <2>3 DEF Told, x
<1>9. CASE m.stage = "outcomes"
  <2>1. /\ x.stage = "model_versions" /\ Total(x.outcomes) = Len(s)
        /\ x.risk_flags = m.risk_flags /\ x.event_types = m.event_types
    BY <1>1, <1>3, <1>4, <1>9 DEF NextDimension
  <2>2. /\ Total(m.event_types) \in m.rows .. Len(s)
        /\ \A f \in DOMAIN m.risk_flags : m.risk_flags[f] \in 0 .. Total(m.event_types)
    BY <1>9 DEF Told
  <2>3. Len(s) \in Total(m.event_types) .. Len(s)
    BY <1>1, <1>4, <2>2
  <2>. QED
    BY <1>1, <1>3, <1>5, <1>6, <2>1, <2>2, <2>3 DEF Told, x
<1>10. CASE m.stage = "model_versions"
  <2>1. /\ x.stage = "done" /\ Total(x.model_versions) = Len(s) /\ x.outcomes = m.outcomes
        /\ x.risk_flags = m.risk_flags /\ x.event_types = m.event_types
    BY <1>1, <1>3, <1>4, <1>10 DEF NextDimension
  <2>2. /\ Total(m.event_types) \in m.rows .. Len(s)
        /\ \A f \in DOMAIN m.risk_flags : m.risk_flags[f] \in 0 .. Total(m.event_types)
        /\ Total(m.outcomes) \in Total(m.event_types) .. Len(s)
    BY <1>10 DEF Told
  <2>3. Len(s) \in Total(m.outcomes) .. Len(s)
    BY <1>1, <1>4, <2>2
  <2>. QED
    BY <1>1, <1>3, <1>5, <1>6, <2>1, <2>2, <2>3 DEF Told, x
<1>. QED
  BY <1>2, <1>7, <1>8, <1>9, <1>10

LEMMA SummaryKeeps == SummaryInv /\ [ApiNext]_apiVars => SummaryInv'
<1>. SUFFICES ASSUME SummaryInv, [ApiNext]_apiVars PROVE SummaryInv'
  OBVIOUS
<1>1. /\ RowsInv' /\ RowsInv
      /\ \A c \in Chains : rows'[c] = rows[c] \/ \E x : RowOK(x) /\ rows'[c] = Append(rows[c], x)
      /\ UNCHANGED rows \/ UNCHANGED <<session, summary>>
  BY RowsGrow DEF SummaryInv
<1>2. \A c \in Chains : IsSequence(rows[c]) /\ \A i \in 1 .. Len(rows[c]) : RowOK(rows[c][i])
  BY <1>1 DEF RowsInv
<1>3. CASE UNCHANGED summary
  <2>1. CASE summary.stage = "none"
    BY <1>1, <1>3, <2>1 DEF SummaryInv
  <2>2. CASE summary.stage # "none"
    <3>1. summary.chain \in Chains /\ Told(summary, rows[summary.chain])
      BY <2>2 DEF SummaryInv
    <3>2. Told(summary, rows'[summary.chain])
      <4>1. CASE rows'[summary.chain] = rows[summary.chain]
        BY <3>1, <4>1
      <4>2. ASSUME NEW x, rows'[summary.chain] = Append(rows[summary.chain], x)
            PROVE  Told(summary, rows'[summary.chain])
        <5>1. IsSequence(rows[summary.chain])
          BY <1>2, <3>1
        <5>2. Told(summary, Append(rows[summary.chain], x))
          BY <3>1, <5>1, ToldStays
        <5>. QED
          BY <4>2, <5>2
      <4>. QED
        BY <1>1, <3>1, <4>1, <4>2
    <3>3. summary'.chain \in Chains /\ Told(summary', rows'[summary'.chain])
      BY <1>3, <3>1, <3>2
    <3>. QED
      BY <1>1, <3>3 DEF SummaryInv
  <2>. QED
    BY <2>1, <2>2
<1>4. CASE summary' = NoSummary
  <2>1. summary'.stage = "none"
    BY <1>4 DEF NoSummary
  <2>. QED
    BY <1>1, <2>1 DEF SummaryInv
<1>5. ASSUME NEW c \in Chains, NEW bearer, Chain_summary(c, bearer) PROVE SummaryInv'
  <2>1. UNCHANGED rows /\ summary'.chain = c
    BY <1>5 DEF Chain_summary, store
  <2>2. Told(summary', rows[c])
    BY <1>2, <1>5, ToldAtFirst DEF Chain_summary
  <2>3. summary'.chain \in Chains /\ Told(summary', rows'[summary'.chain])
    BY <2>1, <2>2
  <2>. QED
    BY <1>1, <2>3 DEF SummaryInv
<1>6. CASE Counted
  <2>1. UNCHANGED rows /\ summary.stage \in DOMAIN NextDimension /\ summary.stage # "none"
    BY <1>6 DEF Counted, store, NextDimension
  <2>2. summary.chain \in Chains /\ Told(summary, rows[summary.chain])
    BY <2>1 DEF SummaryInv
  <2>3. Told(summary', rows[summary.chain])
    <3>1. Told([summary EXCEPT
                 ![summary.stage] = Counts(CountedNames(rows[summary.chain], summary.stage)),
                 !.stage = NextDimension[summary.stage]], rows[summary.chain])
      BY <1>2, <2>1, <2>2, ToldOn
    <3>. QED
      BY <1>6, <3>1 DEF Counted
  <2>4. summary'.chain = summary.chain
    BY <1>6, <2>1, <2>2 DEF Counted, NextDimension, Told
  <2>5. summary'.chain \in Chains /\ Told(summary', rows'[summary'.chain])
    BY <2>1, <2>2, <2>3, <2>4
  <2>. QED
    BY <1>1, <2>5 DEF SummaryInv
<1>7. CASE UNCHANGED apiVars
  BY <1>3, <1>7 DEF apiVars
<1>8. CASE ApiNext
  <2>1. ASSUME NEW c, NEW e, Insert(c, e) \/ InsertOffPlace(c, e) \/ InsertOfLaterBuild(c, e)
        PROVE  UNCHANGED summary
    BY <2>1 DEF Insert, InsertOffPlace, InsertOfLaterBuild
  <2>2. ASSUME NEW typed, Session_create(typed) PROVE UNCHANGED summary
    BY <2>2 DEF Session_create
  <2>3. ASSUME Session_delete \/ Session_expires PROVE UNCHANGED summary
    BY <2>3 DEF Session_delete, Session_expires
  <2>4. ASSUME Restart \/ SummaryAnswered PROVE summary' = NoSummary
    BY <2>4 DEF Restart, SummaryAnswered
  <2>. QED
    BY <1>3, <1>4, <1>5, <1>6, <1>8, <2>1, <2>2, <2>3, <2>4 DEF ApiNext
<1>. QED
  BY <1>7, <1>8

\* The condition of the query and has_gap, on the rows that were counted.
LEMMA GapsSeen ==
  ASSUME NEW n \in Nat, NEW s, DOMAIN s = 1 .. n
  PROVE  LET gap(r) == Has_gap([names |-> r.names])
             elsewhere(r) == \E k \in NamesOfGaps : r.names[k][1] = "unresolved:"
         IN /\ Cardinality(GapsIn(s)) <= Cardinality({i \in DOMAIN s : gap(s[i])})
            /\ Cardinality(GapsIn(s)) >= Cardinality({i \in DOMAIN s : gap(s[i]) /\ ~elsewhere(s[i])})
            /\ Cardinality(GapsIn(s)) \in Nat
<1>. DEFINE gap(r) == Has_gap([names |-> r.names])
            elsewhere(r) == \E k \in NamesOfGaps : r.names[k][1] = "unresolved:"
            A == {i \in DOMAIN s : gap(s[i])}
            B == {i \in DOMAIN s : gap(s[i]) /\ ~elsewhere(s[i])}
            G == GapsIn(s)
<1>1. PinNames = NamesOfGaps \union {"model_version"}
  BY DEF PinNames, NamesOfGaps
<1>2. \A r : GAP(r) => gap(r)
  BY <1>1 DEF GAP, Has_gap
<1>3. \A r : gap(r) /\ ~elsewhere(r) => GAP(r)
  BY <1>1 DEF GAP, Has_gap
<1>4. G \subseteq A /\ B \subseteq G /\ A \subseteq 1 .. n /\ G \subseteq 1 .. n
  BY <1>2, <1>3 DEF GapsIn
<1>. HIDE DEF A, B, G
<1>5. IsFiniteSet(1 .. n)
  BY FS_Interval
<1>6. IsFiniteSet(A) /\ IsFiniteSet(G)
  BY <1>4, <1>5, FS_Subset
<1>7. Cardinality(G) <= Cardinality(A) /\ Cardinality(B) <= Cardinality(G) /\ Cardinality(G) \in Nat
      /\ Cardinality(B) \in Nat
  BY <1>4, <1>6, FS_Subset, FS_CardinalityType
<1>. QED
  BY <1>7 DEF A, B, G

LEMMA SummaryTells == SummaryInv => SummaryIsOfTheChain
<1>. SUFFICES ASSUME SummaryInv, summary.stage # "none" PROVE SummaryIsOfTheChain
  BY DEF SummaryIsOfTheChain
<1>. DEFINE s == rows[summary.chain]
            then == SubSeq(s, 1, summary.rows)
            totals == <<summary.event_count, Total(summary.event_types), Total(summary.outcomes),
                        Total(summary.model_versions), Len(s)>>
<1>1. summary.chain \in Chains /\ Told(summary, s)
  BY DEF SummaryInv
<1>2. IsSequence(s) /\ Len(s) \in Nat
  BY <1>1, Appended DEF SummaryInv, RowsInv
<1>3. summary.rows \in 0 .. Len(s) /\ summary.events_with_gaps = Cardinality(GapsIn(then))
  BY <1>1 DEF Told, Then
<1>4. DOMAIN then = 1 .. summary.rows
  <2>1. PICK S : s \in Seq(S)
    BY <1>2 DEF IsSequence
  <2>. HIDE DEF s
  <2>. QED
    BY <1>3, <2>1
<1>5. summary.stage = "done" =>
        /\ \A i \in 1 .. 4 : totals[i] <= totals[i + 1]
        /\ \A f \in DOMAIN summary.risk_flags : summary.risk_flags[f] <= totals[2]
  <2>. SUFFICES ASSUME summary.stage = "done"
                PROVE  /\ \A i \in 1 .. 4 : totals[i] <= totals[i + 1]
                       /\ \A f \in DOMAIN summary.risk_flags : summary.risk_flags[f] <= totals[2]
    OBVIOUS
  <2>1. /\ Total(summary.event_types) \in summary.rows .. Len(s)
        /\ \A f \in DOMAIN summary.risk_flags : summary.risk_flags[f] \in 0 .. Total(summary.event_types)
        /\ Total(summary.outcomes) \in Total(summary.event_types) .. Len(s)
        /\ Total(summary.model_versions) \in Total(summary.outcomes) .. Len(s)
        /\ summary.event_count = summary.rows
    BY <1>1 DEF Told
  <2>. HIDE DEF s
  <2>2. totals[1] <= totals[2] /\ totals[2] <= totals[3] /\ totals[3] <= totals[4]
        /\ totals[4] <= totals[5]
    BY <1>2, <1>3, <2>1
  <2>3. \A i \in 1 .. 4 : totals[i] <= totals[i + 1]
    <3>. HIDE DEF totals
    <3>. QED
      BY <2>2
  <2>. QED
    BY <1>3, <2>1, <2>3
<1>. HIDE DEF then, totals, s
<1>6. LET gap(r) == Has_gap([names |-> r.names])
          elsewhere(r) == \E k \in NamesOfGaps : r.names[k][1] = "unresolved:"
      IN /\ summary.events_with_gaps <= Cardinality({i \in DOMAIN then : gap(then[i])})
         /\ summary.events_with_gaps >= Cardinality({i \in DOMAIN then : gap(then[i]) /\ ~elsewhere(then[i])})
  <2>1. summary.rows \in Nat
    BY <1>2, <1>3
  <2>2. LET gap(r) == Has_gap([names |-> r.names])
            elsewhere(r) == \E k \in NamesOfGaps : r.names[k][1] = "unresolved:"
        IN /\ Cardinality(GapsIn(then)) <= Cardinality({i \in DOMAIN then : gap(then[i])})
           /\ Cardinality(GapsIn(then)) >= Cardinality({i \in DOMAIN then : gap(then[i]) /\ ~elsewhere(then[i])})
    BY <1>4, <2>1, GapsSeen
  <2>. QED
    BY <1>3, <2>2
<1>. QED
  BY <1>5, <1>6 DEF SummaryIsOfTheChain, then, totals, s

\* A summary counts the gaps that has_gap sees, but for an alias elsewhere than in
\* the version of the model, and no row is missing in a later count: however the
\* ingesters write between its queries, and however often the process restarts.
THEOREM SummariesAreOfTheChain == ApiSpec => []SummaryIsOfTheChain
<1>1. ApiInit => SummaryInv
  <2>1. ApiInit => summary.stage = "none"
    BY DEF ApiInit, NoSummary
  <2>. QED
    BY <2>1, RowsAtFirst DEF SummaryInv
<1>. QED
  BY <1>1, SummaryKeeps, SummaryTells, PTL DEF ApiSpec

=============================================================================
