-------------------------- MODULE HostNamesProofs --------------------------
(***************************************************************************)
(* What the operators of HostNames give, for names of any length: which    *)
(* names are local, which gateways coincide, which files coincide, and     *)
(* that blanks around a name do not matter.                                *)
(***************************************************************************)
EXTENDS HostNames, SequenceTheorems, WellFoundedInduction, TLAPS

-----------------------------------------------------------------------------
(* Least and greatest places.                                                *)

\* A set of natural numbers that is not empty has a least member, and Min is it.
LEMMA MinIsLeast ==
    ASSUME NEW I, I \subseteq Nat, I # {}
    PROVE  Min(I) \in I /\ \A i \in I : Min(I) <= i
<1> DEFINE R == OpToRel(<, Nat)
<1>1. IsWellFoundedOn(R, Nat)
      BY NatLessThanWellFounded
<1>2. \A i, m \in Nat : i < m => <<i, m>> \in R
      BY DEF OpToRel
<1> HIDE DEF R
<1>3. PICK m \in I : \A i \in I : <<i, m>> \notin R
      BY <1>1, WFMin
<1>4. \A i \in I : m <= i
  <2>1. SUFFICES ASSUME NEW i \in I PROVE m <= i
        OBVIOUS
  <2>2. i \in Nat /\ m \in Nat
        OBVIOUS
  <2>3. ~(i < m)
        BY <1>2, <1>3, <2>2
  <2> QED BY <2>2, <2>3
<1> QED BY <1>4 DEF Min

\* So has a bounded one a greatest.
LEMMA MaxIsGreatest ==
    ASSUME NEW n \in Nat, NEW I, I \subseteq 1..n, I # {}
    PROVE  Max(I) \in I /\ \A i \in I : i <= Max(I)
<1> DEFINE J == {n - i : i \in I}
<1>1. J \subseteq Nat /\ J # {}
  <2>1. \A i \in I : n - i \in Nat
        OBVIOUS
  <2> QED BY <2>1
<1>2. Min(J) \in J /\ \A j \in J : Min(J) <= j
  <2> HIDE DEF J
  <2> QED BY <1>1, MinIsLeast
<1>3. PICK m \in I : n - m = Min(J)
      BY <1>2
<1>4. \A i \in I : n - m <= n - i
      BY <1>2, <1>3
<1>5. \E k \in I : \A i \in I : k >= i
      BY <1>4
<1> QED BY <1>5 DEF Max

\* TrimSpace of a name that has a word: from its first word to its last.
LEMMA Trimmed ==
    ASSUME NEW S, NEW name \in Seq(S), NEW w \in 1..Len(name), name[w] # Space
    PROVE  \E first, last \in 1..Len(name) :
             /\ first <= last /\ name[first] # Space /\ name[last] # Space
             /\ TrimSpace(name) = SubSeq(name, first, last)
             /\ \A i \in 1..Len(name) : name[i] # Space => first <= i /\ i <= last
<1> DEFINE I == {i \in 1..Len(name) : name[i] # Space}
<1>1. /\ Len(name) \in Nat
      /\ w \in I /\ I # {}
      /\ I \subseteq 1..Len(name) /\ I \subseteq Nat
  <2>1. Len(name) \in Nat
        BY LenProperties
  <2>2. w \in I
        OBVIOUS
  <2>3. I \subseteq 1..Len(name)
        OBVIOUS
  <2>4. 1..Len(name) \subseteq Nat
        BY <2>1
  <2> QED BY <2>1, <2>2, <2>3, <2>4
<1>2. /\ Min(I) \in I /\ Max(I) \in I
      /\ \A i \in I : Min(I) <= i /\ i <= Max(I)
  <2> HIDE DEF I
  <2> QED BY <1>1, MinIsLeast, MaxIsGreatest
<1>3. TrimSpace(name) = SubSeq(name, Min(I), Max(I))
  <2>1. /\ SelectInSeq(name, LAMBDA token : token # Space) = Min(I)
        /\ SelectLastInSeq(name, LAMBDA token : token # Space) = Max(I)
        BY <1>1 DEF SelectInSeq, SelectLastInSeq
  <2>2. Min(I) # 0
    <3>1. Min(I) \in 1..Len(name)
          BY <1>1, <1>2
    <3>2. 0 \notin 1..Len(name)
          BY <1>1
    <3> QED BY <3>1, <3>2
  <2> HIDE DEF I
  <2> QED BY <2>1, <2>2 DEF TrimSpace
<1>4. /\ Min(I) \in 1..Len(name) /\ name[Min(I)] # Space
      /\ Max(I) \in 1..Len(name) /\ name[Max(I)] # Space
      BY <1>2
<1>5. \A i \in 1..Len(name) : name[i] # Space => Min(I) <= i /\ i <= Max(I)
      BY <1>2
<1>6. Min(I) <= Max(I)
      BY <1>2
<1> HIDE DEF I
<1> QED BY <1>3, <1>4, <1>5, <1>6

\* TrimSpace of a name of blanks only.
LEMMA TrimmedAway ==
    ASSUME NEW S, NEW name \in Seq(S), \A i \in 1..Len(name) : name[i] = Space
    PROVE  TrimSpace(name) = <<>>
<1>1. {i \in 1..Len(name) : name[i] # Space} = {}
      OBVIOUS
<1>2. SelectInSeq(name, LAMBDA token : token # Space) = 0
      BY <1>1 DEF SelectInSeq
<1> QED BY <1>2 DEF TrimSpace

LEMMA TrimSpaceType ==
    ASSUME NEW S, NEW name \in Seq(S) PROVE TrimSpace(name) \in Seq(S)
<1>1. CASE \A i \in 1..Len(name) : name[i] = Space
      BY <1>1, TrimmedAway, EmptySeq
<1>2. CASE \E i \in 1..Len(name) : name[i] # Space
  <2>1. PICK first, last \in 1..Len(name) : TrimSpace(name) = SubSeq(name, first, last)
        BY <1>2, Trimmed
  <2>2. \A i \in first..last : name[i] \in S
        BY ElementOfSeq, LenProperties
  <2> QED BY <2>1, <2>2, SubSeqProperties, LenProperties
<1> QED BY <1>1, <1>2

\* strings.TrimSpace has nothing left to do on its own result.
LEMMA TrimSpaceTwice ==
    ASSUME NEW S, NEW name \in Seq(S)
    PROVE  TrimSpace(TrimSpace(name)) = TrimSpace(name)
<1>1. CASE \A i \in 1..Len(name) : name[i] = Space
  <2>1. <<>> \in Seq(S) /\ \A i \in 1..Len(<<>>) : <<>>[i] = Space
        OBVIOUS
  <2>2. TrimSpace(<<>>) = <<>>
        BY <2>1, TrimmedAway
  <2> QED BY <1>1, <2>2, TrimmedAway
<1>2. CASE \E i \in 1..Len(name) : name[i] # Space
  <2>1. PICK first, last \in 1..Len(name) :
             /\ first <= last /\ name[first] # Space /\ name[last] # Space
             /\ TrimSpace(name) = SubSeq(name, first, last)
        BY <1>2, Trimmed
  <2> DEFINE s == SubSeq(name, first, last)
  <2>2. Len(name) \in Nat /\ \A i \in first..last : name[i] \in S
        BY ElementOfSeq, LenProperties
  <2>3. first \in Int /\ last \in Int
        BY <2>2
  <2>4. /\ s \in Seq(S) /\ Len(s) = last - first + 1
        /\ \A i \in 1..(last - first + 1) : s[i] = name[first + i - 1]
        BY <2>1, <2>2, <2>3, SubSeqProperties
  <2>5. /\ 1 \in 1..Len(s) /\ s[1] # Space
        /\ Len(s) \in 1..Len(s) /\ s[Len(s)] # Space
    <3> HIDE DEF s
    <3>1. last - first + 1 \in Nat /\ 1 <= last - first + 1
          BY <2>1, <2>3
    <3>2. s[1] = name[first] /\ s[last - first + 1] = name[last]
          BY <2>3, <2>4, <3>1
    <3> QED BY <2>1, <2>4, <3>1, <3>2
  <2> HIDE DEF s
  <2>6. PICK f, l \in 1..Len(s) :
             /\ TrimSpace(s) = SubSeq(s, f, l)
             /\ \A i \in 1..Len(s) : s[i] # Space => f <= i /\ i <= l
        BY <2>4, <2>5, Trimmed
  <2>7. f = 1 /\ l = Len(s)
        BY <2>5, <2>6, <2>4, LenProperties
  <2> QED BY <2>1, <2>4, <2>6, <2>7, SubSeqFull DEF s
<1> QED BY <1>1, <1>2

-----------------------------------------------------------------------------
(* Normal forms.                                                             *)

LEMMA NormalizeType ==
    ASSUME NEW S, NEW name \in Seq(S) PROVE NormalizeHostname(name) \in Seq(S)
<1> DEFINE trimmed == TrimSpace(name)
<1>1. trimmed \in Seq(S)
      BY TrimSpaceType
<1> HIDE DEF trimmed
<1>2. \A i \in 3..Len(trimmed) : trimmed[i] \in S
      BY <1>1, ElementOfSeq, LenProperties
<1>3. SubSeq(trimmed, 3, Len(trimmed)) \in Seq(S)
      BY <1>1, <1>2, SubSeqProperties, LenProperties
<1> QED BY <1>1, <1>3 DEF NormalizeHostname, trimmed

\* The normal form of what is blank is the empty name.
LEMMA NormalizeBlank == NormalizeHostname(<<>>) = <<>> /\ NormalizeHostname(Blank) = <<>>
<1>1. <<>> \in Seq({Space}) /\ Blank \in Seq({Space})
      BY DEF Blank
<1>2. TrimSpace(<<>>) = <<>> /\ TrimSpace(Blank) = <<>>
  <2>1. /\ \A i \in 1..Len(<<>>) : <<>>[i] = Space
        /\ \A i \in 1..Len(Blank) : Blank[i] = Space
        BY DEF Blank
  <2> QED BY <1>1, <2>1, TrimmedAway
<1>3. ~IsPrefix(<<"https", "://">>, <<>>)
      BY DEF IsPrefix
<1> QED BY <1>2, <1>3 DEF NormalizeHostname

\* Trimming first changes no normal form.
LEMMA NormalizeTrimmed ==
    ASSUME NEW S, NEW name \in Seq(S)
    PROVE  NormalizeHostname(TrimSpace(name)) = NormalizeHostname(name)
BY TrimSpaceTwice DEF NormalizeHostname

\* The default host is in normal form.
LEMMA NormalizeDefault == NormalizeHostname(DefaultHost) = DefaultHost
<1>1. DefaultHost \in Seq({"console", ".", "tokener", "dev"})
      BY DEF DefaultHost
<1>0. Len(DefaultHost) = 5 /\ DefaultHost[1] = "console" /\ DefaultHost[5] = "dev"
      BY DEF DefaultHost
<1>2. "console" # Space /\ "dev" # Space
      BY Zenon DEF Space
<1>3. TrimSpace(DefaultHost) = DefaultHost
  <2>1. PICK first, last \in 1..Len(DefaultHost) :
             /\ TrimSpace(DefaultHost) = SubSeq(DefaultHost, first, last)
             /\ \A i \in 1..Len(DefaultHost) : DefaultHost[i] # Space => first <= i /\ i <= last
    <3>1. 1 \in 1..Len(DefaultHost) /\ DefaultHost[1] # Space
          BY <1>0, <1>2
    <3> QED BY <1>1, <3>1, Trimmed
  <2>2. first = 1 /\ last = 5
        BY <1>0, <1>2, <2>1
  <2> QED BY <1>0, <1>1, <2>1, <2>2, SubSeqFull
<1>4. ~IsPrefix(<<"https", "://">>, DefaultHost)
  <2>1. SubSeq(<<"https", "://">>, 1, 2)[1] = "https" /\ SubSeq(DefaultHost, 1, 2)[1] = "console"
        BY DEF DefaultHost
  <2> QED BY <2>1 DEF IsPrefix
<1> QED BY <1>3, <1>4 DEF NormalizeHostname

-----------------------------------------------------------------------------
(* Gateways and files.                                                       *)

\* What three names joined begin with.
LEMMA Joined ==
    ASSUME NEW T, NEW scheme \in Seq(T), NEW address \in Seq(T), NEW port \in Seq(T),
           Len(scheme) \in {0, 2}, Len(address) = 1
    PROVE  LET name == scheme \o address \o port
           IN  /\ Len(name) \in Nat /\ Len(name) > Len(scheme)
               /\ \A i \in 1..Len(scheme) : name[i] = scheme[i]
               /\ name[Len(scheme) + 1] = address[1]
<1> DEFINE front == scheme \o address
<1>0. /\ front \in Seq(T) /\ Len(front) = Len(scheme) + Len(address)
      /\ \A i \in 1..Len(scheme) + Len(address) :
           front[i] = IF i <= Len(scheme) THEN scheme[i] ELSE address[i - Len(scheme)]
      BY ConcatProperties
<1> HIDE DEF front
<1>1. /\ front \in Seq(T) /\ Len(front) = Len(scheme) + 1
      /\ \A i \in 1..(Len(scheme) + 1) :
           front[i] = IF i <= Len(scheme) THEN scheme[i] ELSE address[i - Len(scheme)]
      BY <1>0
<1>2. Len(port) \in Nat /\ Len(scheme) \in Nat
      BY LenProperties
<1>3. /\ Len(front \o port) = Len(front) + Len(port)
      /\ \A i \in 1..(Len(front) + Len(port)) :
           (front \o port)[i] = IF i <= Len(front) THEN front[i] ELSE port[i - Len(front)]
  <2>1. front \in Seq(T)
        BY <1>1
  <2> QED BY <2>1, ConcatProperties
<1> DEFINE name == front \o port
<1>4. /\ Len(name) = Len(front) + Len(port)
      /\ \A i \in 1..(Len(front) + Len(port)) :
           name[i] = IF i <= Len(front) THEN front[i] ELSE port[i - Len(front)]
      BY <1>3
<1> HIDE DEF name
<1>5. Len(name) \in Nat /\ Len(name) > Len(scheme)
      BY <1>1, <1>2, <1>4
<1>6. \A i \in 1..(Len(scheme) + 1) : name[i] = front[i]
      BY <1>1, <1>2, <1>4
<1>7. \A i \in 1..Len(scheme) : name[i] = scheme[i]
      BY <1>1, <1>2, <1>6
<1>8. name[Len(scheme) + 1] = address[1]
      BY <1>1, <1>2, <1>6
<1> QED BY <1>5, <1>7, <1>8 DEF name, front

\* Local consoles begin with their scheme or with their address.
LEMMA LocalShape ==
    ASSUME NEW name \in LocalConsoles
    PROVE  /\ Len(name) \in Nat /\ Len(name) >= 1
           /\ name[1] \in {"http", "localhost", "127.0.0.1"}
           /\ name[1] = "http" => name[2] = "://"
<1> DEFINE T == {"http", "://", "localhost", "127.0.0.1", ":", "3000"}
<1>1. \E scheme, address, port :
        /\ scheme = <<>> \/ scheme = <<"http", "://">>
        /\ address = <<"localhost">> \/ address = <<"127.0.0.1">>
        /\ port = <<>> \/ port = <<":", "3000">>
        /\ name = scheme \o address \o port
  <2>0. PICK s \in {<<>>, <<"http", "://">>}, a \in {<<"localhost">>, <<"127.0.0.1">>},
             p \in {<<>>, <<":", "3000">>} : name = s \o a \o p
        BY DEF LocalConsoles
  <2>1. s = <<>> \/ s = <<"http", "://">>
        OBVIOUS
  <2>2. a = <<"localhost">> \/ a = <<"127.0.0.1">>
        OBVIOUS
  <2>3. p = <<>> \/ p = <<":", "3000">>
        OBVIOUS
  <2> QED BY <2>0, <2>1, <2>2, <2>3, Zenon
<1>2. PICK scheme, address, port :
        /\ scheme = <<>> \/ scheme = <<"http", "://">>
        /\ address = <<"localhost">> \/ address = <<"127.0.0.1">>
        /\ port = <<>> \/ port = <<":", "3000">>
        /\ name = scheme \o address \o port
      BY <1>1
<1>3. scheme \in Seq(T) /\ address \in Seq(T) /\ port \in Seq(T)
  <2>1. scheme \in Seq(T)
    <3>1. <<>> \in Seq(T)
          BY EmptySeq
    <3>2. <<"http", "://">> \in Seq(T)
          OBVIOUS
    <3> QED BY <1>2, <3>1, <3>2, Zenon
  <2>2. address \in Seq(T)
        BY <1>2
  <2>3. port \in Seq(T)
    <3>1. <<>> \in Seq(T)
          BY EmptySeq
    <3>2. <<":", "3000">> \in Seq(T)
          OBVIOUS
    <3> QED BY <1>2, <3>1, <3>2, Zenon
  <2> QED BY <2>1, <2>2, <2>3
<1>4. Len(address) = 1 /\ address[1] \in {"localhost", "127.0.0.1"}
      BY <1>2
<1> HIDE DEF T
<1>5. CASE scheme = <<>>
  <2>1. Len(scheme) = 0
        BY <1>5
  <2>2. Len(name) \in Nat /\ Len(name) > 0 /\ name[1] = address[1]
        BY <1>2, <1>3, <1>4, <2>1, Joined
  <2> QED BY <1>4, <2>2
<1>6. CASE scheme = <<"http", "://">>
  <2>1. Len(scheme) = 2 /\ scheme[1] = "http" /\ scheme[2] = "://"
        BY <1>6
  <2>2. Len(scheme) \in {0, 2}
        BY <2>1
  <2>3. /\ Len(name) \in Nat /\ Len(name) > Len(scheme)
        /\ \A i \in 1..Len(scheme) : name[i] = scheme[i]
    <3>1. name = scheme \o address \o port
          BY <1>2
    <3> QED BY <1>3, <1>4, <2>2, <3>1, Joined
  <2>4. name[1] = scheme[1] /\ name[2] = scheme[2]
        BY <2>1, <2>3
  <2> QED BY <2>1, <2>3, <2>4
<1> QED BY <1>2, <1>5, <1>6

\* A name without a local console's normal form that has a gateway begins with
\* "console", and its gateway is the rest of it behind "api".
LEMMA RemoteGateway ==
    ASSUME NEW S, NEW name \in Seq(S), NormalizeHostname(name) = name,
           name \notin LocalConsoles, GatewayEndpoint(name) # Refused
    PROVE  /\ Len(name) >= 2 /\ name[1] = "console"
           /\ GatewayEndpoint(name) =
                <<"https", "://", "api">> \o SubSeq(name, 2, Len(name)) \o <<"/v1">>
<1> DEFINE dot == SelectInSeq(name, LAMBDA token : token = ".")
           label == SubSeq(name, 1, dot - 1)
<1>1. /\ dot \in 1..(Len(name) - 1)
      /\ label = <<"console">> \/ IsPrefix(<<"console", "-">>, label)
      /\ GatewayEndpoint(name) =
           <<"https", "://", "api">> \o SubSeq(name, 2, Len(name)) \o <<"/v1">>
      BY DEF GatewayEndpoint
<1>2. Len(name) \in Nat /\ Len(name) >= 2 /\ dot \in Int
      BY <1>1, LenProperties
<1> HIDE DEF dot
<1>3. \A i \in 1..(dot - 1) : name[i] \in S
      BY <1>1, <1>2, LenProperties
<1>4. /\ label \in Seq(S) /\ Len(label) = IF 1 <= dot - 1 THEN dot - 1 ELSE 0
      /\ \A i \in 1..(dot - 1) : label[i] = name[i]
      BY <1>2, <1>3, SubSeqProperties
<1> HIDE DEF label
<1>5. Len(label) >= 1 /\ label[1] = "console"
  <2>1. CASE label = <<"console">>
        BY <2>1
  <2>2. CASE IsPrefix(<<"console", "-">>, label)
    <3>1. 2 <= Len(label) /\ SubSeq(<<"console", "-">>, 1, 2) = SubSeq(label, 1, 2)
          BY <2>2 DEF IsPrefix
    <3>2. SubSeq(label, 1, 2)[1] = label[1]
          BY <1>4, <3>1
    <3>3. SubSeq(<<"console", "-">>, 1, 2)[1] = "console"
          OBVIOUS
    <3> QED BY <3>1, <3>2, <3>3
  <2> QED BY <1>1, <2>1, <2>2
<1>6. name[1] = "console"
      BY <1>2, <1>4, <1>5
<1> QED BY <1>1, <1>2, <1>6

\* A remote gateway is https, and the local one is not.
LEMMA RemoteIsNotLocal ==
    ASSUME NEW S, NEW rest \in Seq(S)
    PROVE  <<"https", "://", "api">> \o rest \o <<"/v1">> # LocalGateway
<1> DEFINE T == S \cup {"https", "://", "api", "/v1"}
           front == <<"https", "://", "api">>
<1>1. front \in Seq(T) /\ rest \in Seq(T) /\ <<"/v1">> \in Seq(T)
      BY SeqMonotonic
<1>2. Len(front) = 3 /\ front[1] = "https"
      OBVIOUS
<1> HIDE DEF T, front
<1>3. front \o rest \in Seq(T) /\ Len(front \o rest) >= 3 /\ (front \o rest)[1] = "https"
  <2>1. Len(rest) \in Nat
        BY <1>1, LenProperties
  <2>2. /\ front \o rest \in Seq(T)
        /\ Len(front \o rest) = Len(front) + Len(rest)
        /\ \A i \in 1..Len(front) + Len(rest) :
             (front \o rest)[i] = IF i <= Len(front) THEN front[i] ELSE rest[i - Len(front)]
        BY <1>1, ConcatProperties
  <2> QED BY <1>2, <2>1, <2>2
<1>4. (front \o rest \o <<"/v1">>)[1] = "https"
  <2> DEFINE u == front \o rest
  <2>1. u \in Seq(T) /\ Len(u) >= 3 /\ Len(u) \in Nat /\ u[1] = "https" /\ Len(<<"/v1">>) = 1
        BY <1>3, LenProperties
  <2> HIDE DEF u
  <2>2. (u \o <<"/v1">>)[1] = "https"
        BY <1>1, <2>1, ConcatProperties
  <2> QED BY <2>2 DEF u
<1>5. LocalGateway[1] = "http"
      BY DEF LocalGateway
<1> QED BY <1>4, <1>5 DEF front

\* The gateway keeps everything of the name behind its first word.
LEMMA RestsDiffer ==
    ASSUME NEW S, NEW a \in Seq(S), NEW b \in Seq(S), Len(a) >= 2, Len(b) >= 2, a[1] = b[1],
           <<"https", "://", "api">> \o SubSeq(a, 2, Len(a)) \o <<"/v1">>
             = <<"https", "://", "api">> \o SubSeq(b, 2, Len(b)) \o <<"/v1">>
    PROVE  a = b
<1> DEFINE T == S \cup {"https", "://", "api", "/v1"}
           front == <<"https", "://", "api">>
           end == <<"/v1">>
           x == SubSeq(a, 2, Len(a))
           y == SubSeq(b, 2, Len(b))
<1>1. Len(a) \in Nat /\ Len(b) \in Nat
      BY LenProperties
<1>2. /\ x \in Seq(S) /\ Len(x) = Len(a) - 1
      /\ \A i \in 1..(Len(a) - 2 + 1) : x[i] = a[2 + i - 1]
  <2>1. \A i \in 2..Len(a) : a[i] \in S
        BY ElementOfSeq, <1>1
  <2> QED BY <1>1, <2>1, SubSeqProperties
<1>3. /\ y \in Seq(S) /\ Len(y) = Len(b) - 1
      /\ \A i \in 1..(Len(b) - 2 + 1) : y[i] = b[2 + i - 1]
  <2>1. \A i \in 2..Len(b) : b[i] \in S
        BY ElementOfSeq, <1>1
  <2> QED BY <1>1, <2>1, SubSeqProperties
<1>4. front \in Seq(T) /\ end \in Seq(T)
      OBVIOUS
<1>5. (front \o x) \o end = (front \o y) \o end
      OBVIOUS
<1> HIDE DEF front, end, x, y
<1>6. x \in Seq(T) /\ y \in Seq(T)
      BY <1>2, <1>3, SeqMonotonic
<1> HIDE DEF T
<1>7. front \o x \in Seq(T) /\ front \o y \in Seq(T)
      BY <1>4, <1>6, ConcatProperties
<1>8. front \o x = front \o y
      BY <1>4, <1>5, <1>7, ConcatSimplifications
<1>9. x = y
      BY <1>4, <1>6, <1>8, ConcatSimplifications
<1>10. Len(a) = Len(b)
      BY <1>1, <1>2, <1>3, <1>9
<1>11. ASSUME NEW i \in 1..Len(a) PROVE a[i] = b[i]
  <2>1. CASE i = 1
        BY <2>1
  <2>2. CASE i # 1
    <3>1. i - 1 \in 1..(Len(a) - 2 + 1) /\ 2 + (i - 1) - 1 = i
          BY <1>1, <2>2
    <3>2. x[i - 1] = a[i]
          BY <1>2, <3>1
    <3>3. y[i - 1] = b[i]
          BY <1>3, <1>10, <3>1
    <3> QED BY <1>9, <3>2, <3>3
  <2> QED BY <2>1, <2>2
<1> QED BY <1>10, <1>11, SeqEqual

\* Two names in normal form that share a gateway are the same name, or both local.
THEOREM GatewayTellsApart ==
    ASSUME NEW S, NEW a \in Seq(S), NEW b \in Seq(S),
           NormalizeHostname(a) = a, NormalizeHostname(b) = b,
           GatewayEndpoint(a) # Refused, GatewayEndpoint(a) = GatewayEndpoint(b)
    PROVE  a = b \/ {a, b} \subseteq LocalConsoles
<1>1. ASSUME NEW c \in Seq(S), NormalizeHostname(c) = c, GatewayEndpoint(c) # Refused,
             c \notin LocalConsoles
      PROVE  GatewayEndpoint(c) # LocalGateway
  <2>1. /\ Len(c) >= 2
        /\ GatewayEndpoint(c) = <<"https", "://", "api">> \o SubSeq(c, 2, Len(c)) \o <<"/v1">>
        BY <1>1, RemoteGateway
  <2>2. \A i \in 2..Len(c) : c[i] \in S
        BY ElementOfSeq, LenProperties
  <2>3. SubSeq(c, 2, Len(c)) \in Seq(S)
        BY <2>2, SubSeqProperties, LenProperties
  <2> QED BY <2>1, <2>3, RemoteIsNotLocal
<1>2. \A c : NormalizeHostname(c) = c /\ c \in LocalConsoles => GatewayEndpoint(c) = LocalGateway
      BY DEF GatewayEndpoint
<1>3. CASE a \in LocalConsoles \/ b \in LocalConsoles
      BY <1>1, <1>2, <1>3
<1>4. CASE a \notin LocalConsoles /\ b \notin LocalConsoles
  <2>1. /\ Len(a) >= 2 /\ a[1] = "console"
        /\ GatewayEndpoint(a) = <<"https", "://", "api">> \o SubSeq(a, 2, Len(a)) \o <<"/v1">>
        BY <1>4, RemoteGateway
  <2>2. /\ Len(b) >= 2 /\ b[1] = "console"
        /\ GatewayEndpoint(b) = <<"https", "://", "api">> \o SubSeq(b, 2, Len(b)) \o <<"/v1">>
        BY <1>4, RemoteGateway
  <2> QED BY <2>1, <2>2, RestsDiffer
<1> QED BY <1>3, <1>4

LEMMA SameLength == ASSUME NEW m \in Nat, NEW n \in Nat, 1..m = 1..n PROVE m = n
<1>1. m <= n
  <2>1. SUFFICES ASSUME n < m PROVE FALSE
        OBVIOUS
  <2>2. m \in 1..m /\ m \notin 1..n
        BY <2>1
  <2> QED BY <2>2
<1>2. n <= m
  <2>1. SUFFICES ASSUME m < n PROVE FALSE
        OBVIOUS
  <2>2. n \in 1..n /\ n \notin 1..m
        BY <2>1
  <2> QED BY <2>2
<1> QED BY <1>1, <1>2

\* Two plain names with a gateway that share a file are the same name.
THEOREM FileTellsApart ==
    ASSUME NEW S, NEW a \in Seq(S), NEW b \in Seq(S), Plain(a), Plain(b),
           GatewayEndpoint(a) # Refused, GatewayEndpoint(b) # Refused,
           BindingFileName(a) = BindingFileName(b)
    PROVE  a = b
<1> DEFINE Written(token) == IF token \in {"://", "/", ":"} THEN "_" ELSE token
<1>1. [i \in DOMAIN a |-> Written(a[i])] = [i \in DOMAIN b |-> Written(b[i])]
      BY DEF BindingFileName, Plain
<1>2. DOMAIN a = DOMAIN b /\ \A i \in DOMAIN a : Written(a[i]) = Written(b[i])
  <2> DEFINE f == [i \in DOMAIN a |-> Written(a[i])]
             g == [i \in DOMAIN b |-> Written(b[i])]
  <2>1. DOMAIN f = DOMAIN a /\ DOMAIN g = DOMAIN b
        OBVIOUS
  <2>2. \A i \in DOMAIN a : f[i] = Written(a[i])
        OBVIOUS
  <2>3. \A i \in DOMAIN b : g[i] = Written(b[i])
        OBVIOUS
  <2> HIDE DEF f, g, Written
  <2>4. f = g
        BY <1>1 DEF f, g
  <2> QED BY <2>1, <2>2, <2>3, <2>4
<1>3. DOMAIN a = 1..Len(a) /\ DOMAIN b = 1..Len(b) /\ Len(a) = Len(b) /\ Len(a) \in Nat
  <2>1. DOMAIN a = 1..Len(a) /\ DOMAIN b = 1..Len(b) /\ Len(a) \in Nat /\ Len(b) \in Nat
        BY LenProperties
  <2>2. 1..Len(a) = 1..Len(b)
        BY <1>2, <2>1
  <2>3. Len(a) = Len(b)
        BY <2>1, <2>2, SameLength
  <2> QED BY <2>1, <2>3
<1>4. ASSUME NEW c \in Seq(S), Plain(c), GatewayEndpoint(c) # Refused, c[1] = "http"
      PROVE  c[2] = "://"
  <2>1. c \in LocalConsoles
        BY <1>4, RemoteGateway DEF Plain
  <2> QED BY <1>4, <2>1, LocalShape
<1>5. ASSUME NEW c \in Seq(S), NEW d \in Seq(S), Plain(c), Plain(d),
             GatewayEndpoint(c) # Refused, GatewayEndpoint(d) # Refused,
             DOMAIN c = DOMAIN d, \A j \in DOMAIN c : Written(c[j]) = Written(d[j]),
             NEW i \in DOMAIN c, c[i] = "://"
      PROVE  d[i] = "://"
  <2>1. i = 2 /\ c[1] = "http"
        BY <1>5 DEF Plain
  <2>2. 1 \in DOMAIN c
    <3>1. DOMAIN c = 1..Len(c) /\ Len(c) \in Nat
          BY LenProperties
    <3>2. 2 \in 1..Len(c)
          BY <2>1, <3>1
    <3> QED BY <3>1, <3>2
  <2>3. d[1] = "http"
        BY <1>5, <2>1, <2>2 DEF Plain
  <2> QED BY <1>4, <1>5, <2>1, <2>3
<1>6. ASSUME NEW i \in DOMAIN a PROVE a[i] = b[i]
  <2>1. a[i] \notin {"_", "/"} /\ b[i] \notin {"_", "/"} /\ Written(a[i]) = Written(b[i])
        BY <1>2 DEF Plain
  <2>2. CASE a[i] = "://"
        BY <1>2, <1>5, <2>2
  <2>3. CASE b[i] = "://"
        BY <1>2, <1>5, <2>3
  <2>4. CASE a[i] # "://" /\ b[i] # "://"
        BY <2>1, <2>4
  <2> QED BY <2>2, <2>3, <2>4
<1> QED BY <1>3, <1>6, SeqEqual

-----------------------------------------------------------------------------
(* Which host a command means.                                               *)

\* FirstNonempty is the entry that is not empty while those before it are.
LEMMA FirstIs ==
    ASSUME NEW S, NEW names \in Seq(S), NEW m \in 1..Len(names), names[m] # <<>>,
           \A i \in 1..(m - 1) : names[i] = <<>>
    PROVE  FirstNonempty(names) = names[m]
<1> DEFINE I == {i \in 1..Len(names) : names[i] # <<>>}
<1>1. Len(names) \in Nat
      BY LenProperties
<1>2. m \in I
      OBVIOUS
<1>3. I \subseteq Nat
      BY <1>1
<1>4. \A i \in I : ~(i < m)
      BY <1>1
<1>5. SelectInSeq(names, LAMBDA name : name # <<>>) = IF I # {} THEN Min(I) ELSE 0
      BY DEF SelectInSeq
<1> HIDE DEF I
<1>6. Min(I) \in I /\ Min(I) <= m
      BY <1>2, <1>3, MinIsLeast
<1>7. Min(I) = m
  <2>1. Min(I) \in Nat /\ ~(Min(I) < m)
        BY <1>3, <1>4, <1>6
  <2>2. m \in Nat
        BY <1>1
  <2> QED BY <1>6, <2>1, <2>2
<1>8. SelectInSeq(names, LAMBDA name : name # <<>>) = m /\ m # 0
      BY <1>1, <1>2, <1>5, <1>7
<1> QED BY <1>8 DEF FirstNonempty

LEMMA DefaultNotEmpty == DefaultHost # <<>>
<1>1. Len(DefaultHost) = 5
      BY DEF DefaultHost
<1>2. Len(<<>>) = 0
      OBVIOUS
<1>3. 5 # 0
      OBVIOUS
<1> QED BY <1>1, <1>2, <1>3, Zenon

\* If one of the names is not empty, FirstNonempty is one of them.
LEMMA FirstAmong ==
    ASSUME NEW S, NEW names \in Seq(S), NEW m \in 1..Len(names), names[m] # <<>>
    PROVE  \E i \in 1..Len(names) : FirstNonempty(names) = names[i] /\ names[i] # <<>>
<1> DEFINE I == {i \in 1..Len(names) : names[i] # <<>>}
<1>1. Len(names) \in Nat
      BY LenProperties
<1>2. m \in I
      OBVIOUS
<1>3. I \subseteq Nat
      BY <1>1
<1>4. SelectInSeq(names, LAMBDA name : name # <<>>) = IF I # {} THEN Min(I) ELSE 0
      BY DEF SelectInSeq
<1>5. Min(I) \in I
  <2> HIDE DEF I
  <2> QED BY <1>2, <1>3, MinIsLeast
<1>6. 0 \notin 1..Len(names)
      BY <1>1
<1>7. SelectInSeq(names, LAMBDA name : name # <<>>) = Min(I) /\ Min(I) # 0
      BY <1>2, <1>4, <1>5, <1>6
<1> QED BY <1>5, <1>7 DEF FirstNonempty

\* The empty name has no gateway.
LEMMA EmptyHasNoGateway == GatewayEndpoint(<<>>) = Refused
<1>1. <<>> \notin LocalConsoles
      BY LocalShape
<1>2. ASSUME NEW dot PROVE dot \notin 1..(Len(<<>>) - 1)
      OBVIOUS
<1> QED BY <1>1, <1>2, NormalizeBlank DEF GatewayEndpoint

\* With --hostname or TOKENER_HOST set, the key commands mean the host that `auth
\* login` means with the same two, if they mean any.
THEOREM LoginMeansTheSameHost ==
    ASSUME NEW S, NEW flag \in Seq(S), NEW env \in Seq(S), NEW selected \in Seq(S),
           DefaultHost \in Seq(S), flag # <<>> \/ env # <<>>,
           ResolveManagementHostname(flag, env, selected) # <<>>
    PROVE  ResolveManagementHostname(flag, env, selected)
             = NormalizeHostname(LoginHostname(flag, env))
<1> DEFINE asked == <<flag, env, selected, DefaultHost>>
           login == <<flag, TrimSpace(env), DefaultHost>>
<1>1. asked \in Seq(Seq(S)) /\ Len(asked) = 4 /\ asked[1] = flag /\ asked[2] = env
      OBVIOUS
<1>2. TrimSpace(env) \in Seq(S)
      BY TrimSpaceType
<1>3. login \in Seq(Seq(S)) /\ Len(login) = 3 /\ login[1] = flag /\ login[2] = TrimSpace(env)
      BY <1>2
<1>4. /\ ResolveManagementHostname(flag, env, selected) = NormalizeHostname(FirstNonempty(asked))
      /\ LoginHostname(flag, env) = FirstNonempty(login)
      BY DEF ResolveManagementHostname, LoginHostname
<1> HIDE DEF asked, login
<1>5. CASE flag # <<>>
  <2>1. FirstNonempty(asked) = flag
    <3>1. asked[1] # <<>> /\ 1 \in 1..Len(asked) /\ \A i \in 1..(1 - 1) : asked[i] = <<>>
          BY <1>1, <1>5
    <3> QED BY <1>1, <3>1, FirstIs
  <2>2. FirstNonempty(login) = flag
    <3>1. login[1] # <<>> /\ 1 \in 1..Len(login) /\ \A i \in 1..(1 - 1) : login[i] = <<>>
          BY <1>3, <1>5
    <3> QED BY <1>3, <3>1, FirstIs
  <2> QED BY <1>4, <2>1, <2>2
<1>6. CASE flag = <<>>
  <2>1. env # <<>>
        BY <1>6
  <2>2. FirstNonempty(asked) = env
    <3>1. asked[2] # <<>> /\ 2 \in 1..Len(asked) /\ \A i \in 1..(2 - 1) : asked[i] = <<>>
          BY <1>1, <1>6, <2>1
    <3> QED BY <1>1, <3>1, FirstIs
  <2>3. TrimSpace(env) # <<>>
    <3>1. SUFFICES ASSUME TrimSpace(env) = <<>> PROVE FALSE
          OBVIOUS
    <3>2. NormalizeHostname(env) = NormalizeHostname(<<>>)
          BY <3>1, NormalizeTrimmed
    <3> QED BY <1>4, <2>2, <3>2, NormalizeBlank
  <2>4. FirstNonempty(login) = TrimSpace(env)
    <3>1. login[2] # <<>> /\ 2 \in 1..Len(login) /\ \A i \in 1..(2 - 1) : login[i] = <<>>
          BY <1>3, <1>6, <2>3
    <3> QED BY <1>3, <3>1, FirstIs
  <2> QED BY <1>4, <2>2, <2>4, NormalizeTrimmed
<1> QED BY <1>5, <1>6
=============================================================================
