--------------------------- MODULE FileControlProofs ---------------------------
(* Facts about File Control's operators: file ids as bytes, the order of      *)
(* byte strings, storage keys and browses.                                    *)
EXTENDS FileControl, SequenceTheorems, FiniteSetTheorems, TLAPS

-------------------------------------------------------------------------------
(* Natural numbers.                                                           *)

(* The least number principle, for sets.                                      *)
LEMMA LeastNumber ==
    ASSUME NEW T \in SUBSET Nat, T # {}
    PROVE  \E x \in T : \A y \in T : x <= y
<1>1. IsWellFoundedOn(OpToRel(<, Nat), Nat)
  BY NatLessThanWellFounded
<1>2. PICK R : R = OpToRel(<, Nat)
  OBVIOUS
<1>3. PICK x \in T : \A y \in T : ~(<<y, x>> \in R)
  BY <1>1, <1>2, WFMin
<1>4. \A y \in Nat : y < x => <<y, x>> \in R
  BY <1>2 DEF OpToRel
<1>5. ASSUME NEW y \in T PROVE x <= y
  <2>1. x \in Nat /\ y \in Nat
    OBVIOUS
  <2>2. ~(y < x)
    BY <1>3, <1>4, <2>1, Zenon
  <2> QED
    BY <2>1, <2>2
<1> QED
  BY <1>5

(* Induction, for sets: a set with 0 that is closed under successors.         *)
LEMMA SetInduction ==
    ASSUME NEW T, 0 \in T, \A n \in Nat : n \in T => n + 1 \in T
    PROVE  Nat \subseteq T
<1> SUFFICES ASSUME Nat \ T # {} PROVE FALSE
  OBVIOUS
<1>1. PICK x \in Nat \ T : \A y \in Nat \ T : x <= y
  BY LeastNumber, Nat \ T \in SUBSET Nat
<1>2. x # 0 /\ x - 1 \in Nat
  BY <1>1
<1>3. x - 1 \in T
  BY <1>1, <1>2
<1> QED
  BY <1>1, <1>2, <1>3

-------------------------------------------------------------------------------
(* Bytes of a file id.                                                        *)

(* The values of the first n places.                                          *)
Places(n) ==
    {g \in [0 .. n -> Nat] : \A i \in 0 .. n : g[i] = IF i = 0 THEN 1 ELSE BYTE * g[i - 1]}

(* They are unique.                                                           *)
LEMMA PlacesUnique ==
    ASSUME NEW m \in Nat, NEW n \in Nat, NEW g \in Places(m), NEW h \in Places(n)
    PROVE  \A i \in Nat : i <= m /\ i <= n => g[i] = h[i]
<1> DEFINE T == {i \in Nat : i <= m /\ i <= n => g[i] = h[i]}
<1>1. 0 \in T
  BY DEF Places
<1>2. ASSUME NEW i \in Nat, i \in T PROVE i + 1 \in T
  <2> SUFFICES ASSUME i + 1 <= m /\ i + 1 <= n PROVE g[i + 1] = h[i + 1]
    OBVIOUS
  <2>1. g[i] = h[i]
    BY <1>2
  <2>2. i + 1 \in 0 .. m /\ i + 1 \in 0 .. n /\ i + 1 # 0 /\ (i + 1) - 1 = i
    OBVIOUS
  <2>3. g[i + 1] = BYTE * g[i] /\ h[i + 1] = BYTE * h[i]
    BY <2>2 DEF Places
  <2> QED
    BY <2>1, <2>3
<1> HIDE DEF T
<1>3. Nat \subseteq T
  BY <1>1, <1>2, SetInduction
<1> QED
  BY <1>3 DEF T

(* The values of the places exist.                                            *)
LEMMA PlacesExist ==
    ASSUME NEW n \in Nat
    PROVE  Places(n) # {}
<1> DEFINE T == {i \in Nat : Places(i) # {}}
<1>b. BYTE \in Nat
  BY FileControlAssumption
<1>1. 0 \in T
  <2>1. [i \in 0 .. 0 |-> 1] \in Places(0)
    BY DEF Places
  <2> QED
    BY <2>1
<1>2. ASSUME NEW i \in Nat, i \in T PROVE i + 1 \in T
  <2>1. PICK g : g \in Places(i)
    BY <1>2
  <2>2. PICK v : v = BYTE * g[i] /\ v \in Nat
    BY <2>1, <1>b DEF Places
  <2>3. PICK h : h = [j \in 0 .. i + 1 |-> IF j = i + 1 THEN v ELSE g[j]]
    OBVIOUS
  <2>4. h \in [0 .. i + 1 -> Nat]
    BY <2>1, <2>2, <2>3 DEF Places
  <2>5. ASSUME NEW j \in 0 .. i + 1 PROVE h[j] = IF j = 0 THEN 1 ELSE BYTE * h[j - 1]
    <3>1. CASE j = i + 1
      BY <2>2, <2>3, <3>1
    <3>2. CASE j # i + 1
      BY <2>1, <2>3, <3>2 DEF Places
    <3> QED
      BY <3>1, <3>2
  <2>6. h \in Places(i + 1)
    BY <2>4, <2>5 DEF Places
  <2> QED
    BY <2>6
<1> HIDE DEF T
<1>3. Nat \subseteq T
  BY <1>1, <1>2, SetInduction
<1> QED
  BY <1>3 DEF T

(* Place satisfies its own equation.                                          *)
LEMMA PlaceEquation ==
    Place = [i \in Nat |-> IF i = 0 THEN 1 ELSE BYTE * Place[i - 1]]
<1>1. PICK f : f = [n \in Nat |-> (CHOOSE g \in Places(n) : TRUE)[n]]
  OBVIOUS
<1>2. ASSUME NEW n \in Nat, NEW g \in Places(n) PROVE f[n] = g[n]
  <2>1. PICK h \in Places(n) : f[n] = h[n]
    BY <1>1, PlacesExist
  <2> QED
    BY <2>1, PlacesUnique
<1>3. ASSUME NEW n \in Nat PROVE f[n] = IF n = 0 THEN 1 ELSE BYTE * f[n - 1]
  <2>1. PICK g : g \in Places(n)
    BY PlacesExist
  <2>2. f[n] = g[n]
    BY <1>2, <2>1
  <2>3. CASE n = 0
    BY <2>1, <2>2, <2>3 DEF Places
  <2>4. CASE n # 0
    <3>1. n - 1 \in Nat
      BY <2>4
    <3>2. PICK h : h \in Places(n - 1)
      BY <3>1, PlacesExist
    <3>3. f[n - 1] = h[n - 1] /\ h[n - 1] = g[n - 1]
      BY <1>2, <2>1, <3>1, <3>2, PlacesUnique
    <3>4. g[n] = BYTE * g[n - 1]
      BY <2>1, <2>4 DEF Places
    <3> QED
      BY <2>2, <2>4, <3>3, <3>4
  <2> QED
    BY <2>3, <2>4
<1>4. f = [n \in Nat |-> IF n = 0 THEN 1 ELSE BYTE * f[n - 1]]
  BY <1>1, <1>3
<1> QED
  BY <1>4 DEF Place

(* Places are positive.                                                       *)
LEMMA PlacePositive ==
    /\ \A i \in Nat : Place[i] \in Nat \ {0}
    /\ Place[0] = 1
    /\ \A i \in Nat : Place[i + 1] = BYTE * Place[i]
<1>1. Place[0] = 1
  BY PlaceEquation
<1>2. ASSUME NEW i \in Nat PROVE Place[i + 1] = BYTE * Place[i]
  <2>1. i + 1 \in Nat /\ i + 1 # 0 /\ (i + 1) - 1 = i
    OBVIOUS
  <2> QED
    BY <2>1, PlaceEquation
<1> DEFINE T == {i \in Nat : Place[i] \in Nat \ {0}}
<1>3. 0 \in T
  BY <1>1
<1>4. ASSUME NEW i \in Nat, i \in T PROVE i + 1 \in T
  <2>1. PICK p, q : p = Place[i] /\ q = Place[i + 1]
    OBVIOUS
  <2>2. p \in Nat \ {0} /\ BYTE \in Nat \ {0} /\ q = BYTE * p
    BY <1>2, <1>4, <2>1, FileControlAssumption
  <2>3. q \in Nat \ {0}
    BY <2>2
  <2> QED
    BY <2>1, <2>3
<1> HIDE DEF T
<1>5. Nat \subseteq T
  BY <1>3, <1>4, SetInduction
<1> QED
  BY <1>1, <1>2, <1>5 DEF T

(* Quotient and remainder.                                                    *)
LEMMA Division ==
    ASSUME NEW a \in Nat, NEW p \in Nat \ {0}
    PROVE  /\ a \div p \in Nat /\ a % p \in 0 .. p - 1
           /\ a = p * (a \div p) + (a % p)
OBVIOUS

(* The remainder of a number less than the divisor.                           *)
LEMMA SmallRemainder ==
    ASSUME NEW a \in Nat, NEW p \in Nat \ {0}, a < p
    PROVE  a % p = a
OBVIOUS

(* A quotient is known by its bounds.                                         *)
LEMMA QuotientUnique ==
    ASSUME NEW a \in Nat, NEW p \in Nat \ {0}, NEW q \in Nat,
           p * q <= a, a < p * q + p
    PROVE  a \div p = q
<1>1. PICK d, r : d \in Nat /\ r \in 0 .. p - 1 /\ d = a \div p /\ a = p * d + r
  <2>1. PICK d, r : d = a \div p /\ r = a % p
    OBVIOUS
  <2>2. d \in Nat /\ r \in 0 .. p - 1 /\ a = p * d + r
    BY <2>1, Division
  <2> QED
    BY <2>1, <2>2
<1>2. ASSUME d < q PROVE FALSE
  <2>1. PICK k \in Nat : q = d + 1 + k
    <3>1. q - d - 1 \in Nat /\ q = d + 1 + (q - d - 1)
      BY <1>1, <1>2
    <3> QED
      BY <3>1
  <2>2. p * q = p * d + p + p * k /\ p * k \in Nat
    BY <1>1, <2>1
  <2> QED
    BY <1>1, <2>2
<1>3. ASSUME q < d PROVE FALSE
  <2>1. PICK k \in Nat : d = q + 1 + k
    <3>1. d - q - 1 \in Nat /\ d = q + 1 + (d - q - 1)
      BY <1>1, <1>3
    <3> QED
      BY <3>1
  <2>2. p * d = p * q + p + p * k /\ p * k \in Nat
    BY <1>1, <2>1
  <2> QED
    BY <1>1, <2>2
<1> QED
  BY <1>1, <1>2, <1>3

(* Dividing by a product.                                                     *)
LEMMA DivideTwice ==
    ASSUME NEW a \in Nat, NEW p \in Nat \ {0}, NEW b \in Nat \ {0}
    PROVE  a \div (b * p) = (a \div p) \div b
<1>1. PICK q, r : q \in Nat /\ r \in 0 .. p - 1 /\ q = a \div p /\ a = p * q + r
  <2>1. PICK q, r : q = a \div p /\ r = a % p
    OBVIOUS
  <2>2. q \in Nat /\ r \in 0 .. p - 1 /\ a = p * q + r
    BY <2>1, Division
  <2> QED
    BY <2>1, <2>2
<1>2. PICK s, t : s \in Nat /\ t \in 0 .. b - 1 /\ s = q \div b /\ q = b * s + t
  <2>1. PICK s, t : s = q \div b /\ t = q % b
    OBVIOUS
  <2>2. s \in Nat /\ t \in 0 .. b - 1 /\ q = b * s + t
    BY <1>1, <2>1, Division
  <2> QED
    BY <2>1, <2>2
<1>3. a = (b * p) * s + (p * t + r)
  BY <1>1, <1>2
<1>4. 0 <= p * t + r /\ p * t + r < b * p
  <2>1. PICK k \in Nat : b = t + 1 + k
    <3>1. b - t - 1 \in Nat /\ b = t + 1 + (b - t - 1)
      BY <1>2
    <3> QED
      BY <3>1
  <2>2. b * p = p * t + p + p * k /\ p * k \in Nat /\ p * t \in Nat
    BY <1>2, <2>1
  <2> QED
    BY <1>1, <2>2
<1>5. PICK m \in Nat \ {0} : m = b * p
  OBVIOUS
<1>6. m * s <= a /\ a < m * s + m
  <2>1. m * s \in Nat /\ a = m * s + (p * t + r)
    BY <1>2, <1>3, <1>5
  <2> QED
    BY <1>1, <1>2, <1>4, <1>5, <2>1
<1>7. a \div m = s
  BY <1>2, <1>5, <1>6, QuotientUnique
<1> QED
  BY <1>1, <1>2, <1>5, <1>7

(* What is left of a file id when the last ID_BYTES - i bytes are shifted out.*)
Leading(id, i) == id \div Place[ID_BYTES - i]

(* A longer leading part is the shorter one and one more byte.                *)
LEMMA LeadingParts ==
    ASSUME NEW id \in 0 .. FILE_IDS - 1
    PROVE  /\ \A i \in 0 .. ID_BYTES : Leading(id, i) \in Nat
           /\ Leading(id, 0) = 0 /\ Leading(id, ID_BYTES) = id
           /\ \A i \in 1 .. ID_BYTES :
                  /\ Leading(id, i - 1) = Leading(id, i) \div BYTE
                  /\ to_be_bytes(id)[i] = Leading(id, i) % BYTE
<1>a. ID_BYTES \in Nat \ {0} /\ BYTE \in Nat \ {0}
  BY FileControlAssumption
<1>b. FILE_IDS \in Nat \ {0} /\ id \in Nat /\ id < FILE_IDS
  BY <1>a, PlacePositive DEF FILE_IDS
<1>1. ASSUME NEW i \in 0 .. ID_BYTES PROVE Leading(id, i) \in Nat
  <2>1. PICK p \in Nat \ {0} : p = Place[ID_BYTES - i]
    BY <1>a, PlacePositive, ID_BYTES - i \in Nat
  <2> QED
    BY <1>b, <2>1, Division DEF Leading
<1>2. Leading(id, 0) = 0
  <2>1. PICK p \in Nat \ {0} : p = Place[ID_BYTES] /\ id < p
    BY <1>a, <1>b, PlacePositive DEF FILE_IDS
  <2>2. id \div p = 0
    BY <1>b, <2>1, QuotientUnique
  <2>3. ID_BYTES - 0 = ID_BYTES
    BY <1>a
  <2> QED
    BY <2>1, <2>2, <2>3 DEF Leading
<1>3. Leading(id, ID_BYTES) = id
  <2>1. ID_BYTES - ID_BYTES = 0 /\ Place[0] = 1
    BY <1>a, PlacePositive
  <2>2. id \div 1 = id
    BY <1>b, QuotientUnique
  <2> QED
    BY <2>1, <2>2 DEF Leading
<1>4. ASSUME NEW i \in 1 .. ID_BYTES PROVE Leading(id, i - 1) = Leading(id, i) \div BYTE
  <2>1. PICK n \in Nat : n = ID_BYTES - i /\ n + 1 = ID_BYTES - (i - 1)
    BY <1>a
  <2>2. PICK p \in Nat \ {0} : p = Place[n] /\ Place[n + 1] = BYTE * p
    BY <2>1, PlacePositive
  <2>3. id \div (BYTE * p) = (id \div p) \div BYTE
    BY <1>a, <1>b, <2>2, DivideTwice
  <2>4. Leading(id, i - 1) = id \div (BYTE * p) /\ Leading(id, i) = id \div p
    BY <2>1, <2>2 DEF Leading
  <2> QED
    BY <2>3, <2>4
<1>5. ASSUME NEW i \in 1 .. ID_BYTES PROVE to_be_bytes(id)[i] = Leading(id, i) % BYTE
  BY DEF to_be_bytes, Leading
<1> QED
  BY <1>1, <1>2, <1>3, <1>4, <1>5

(* The bytes of a file id are bytes, ID_BYTES of them.                        *)
LEMMA BytesType ==
    ASSUME NEW id \in 0 .. FILE_IDS - 1
    PROVE  /\ to_be_bytes(id) \in Seq(0 .. BYTE - 1)
           /\ Len(to_be_bytes(id)) = ID_BYTES
           /\ DOMAIN to_be_bytes(id) = 1 .. ID_BYTES
<1>a. ID_BYTES \in Nat /\ BYTE \in Nat \ {0}
  BY FileControlAssumption
<1>1. ASSUME NEW i \in 1 .. ID_BYTES PROVE to_be_bytes(id)[i] \in 0 .. BYTE - 1
  <2>1. PICK q \in Nat : q = Leading(id, i)
    BY <1>a, LeadingParts
  <2>2. to_be_bytes(id)[i] = q % BYTE
    BY <2>1, LeadingParts
  <2> QED
    BY <1>a, <2>1, <2>2, Division
<1>2. PICK b : b = to_be_bytes(id)
  OBVIOUS
<1>3. b = [i \in 1 .. ID_BYTES |-> b[i]] /\ DOMAIN b = 1 .. ID_BYTES
  BY <1>2 DEF to_be_bytes
<1>4. b \in [1 .. ID_BYTES -> 0 .. BYTE - 1]
  BY <1>1, <1>2, <1>3
<1> QED
  BY <1>a, <1>2, <1>3, <1>4, SeqDef

(* The quotient grows with the dividend.                                      *)
LEMMA QuotientMonotonic ==
    ASSUME NEW a \in Nat, NEW b \in Nat, a <= b, NEW p \in Nat \ {0}
    PROVE  a \div p <= b \div p
<1>1. PICK c, r : c \in Nat /\ r \in 0 .. p - 1 /\ c = a \div p /\ a = p * c + r
  <2>1. PICK c, r : c = a \div p /\ r = a % p
    OBVIOUS
  <2>2. c \in Nat /\ r \in 0 .. p - 1 /\ a = p * c + r
    BY <2>1, Division
  <2> QED
    BY <2>1, <2>2
<1>2. PICK d, t : d \in Nat /\ t \in 0 .. p - 1 /\ d = b \div p /\ b = p * d + t
  <2>1. PICK d, t : d = b \div p /\ t = b % p
    OBVIOUS
  <2>2. d \in Nat /\ t \in 0 .. p - 1 /\ b = p * d + t
    BY <2>1, Division
  <2> QED
    BY <2>1, <2>2
<1>3. ASSUME d < c PROVE FALSE
  <2>1. PICK k \in Nat : c = d + 1 + k
    <3>1. c - d - 1 \in Nat /\ c = d + 1 + (c - d - 1)
      BY <1>1, <1>2, <1>3
    <3> QED
      BY <3>1
  <2>2. p * c = p * d + p + p * k /\ p * k \in Nat
    BY <1>2, <2>1
  <2> QED
    BY <1>1, <1>2, <2>2
<1> QED
  BY <1>1, <1>2, <1>3

(* With one quotient, the remainders are in the order of the dividends.       *)
LEMMA RemaindersIncrease ==
    ASSUME NEW x \in Nat, NEW y \in Nat, NEW p \in Nat \ {0}, x <= y, x # y,
           x \div p = y \div p
    PROVE  x % p < y % p
<1>1. PICK d, r, t : d = x \div p /\ r = x % p /\ t = y % p
  OBVIOUS
<1>2. d \in Nat /\ r \in 0 .. p - 1 /\ x = p * d + r
  BY <1>1, Division
<1>3. d = y \div p
  BY <1>1
<1>4. t \in 0 .. p - 1 /\ y = p * d + t
  BY <1>1, <1>3, Division
<1>5. PICK q \in Nat : q = p * d
  BY <1>2
<1>6. r < t
  BY <1>2, <1>4, <1>5
<1> QED
  BY <1>1, <1>6

(* Big-endian bytes keep the order of file ids.                               *)
LEMMA BytesIncrease ==
    ASSUME NEW a \in 0 .. FILE_IDS - 1, NEW b \in 0 .. FILE_IDS - 1, a < b
    PROVE  Less(to_be_bytes(a), to_be_bytes(b))
<1>a. ID_BYTES \in Nat /\ BYTE \in Nat \ {0} /\ a \in Nat /\ b \in Nat
  <2>1. FILE_IDS \in Nat
    BY FileControlAssumption, PlacePositive DEF FILE_IDS
  <2> QED
    BY <2>1, FileControlAssumption
<1>1. PICK D : D = {i \in 0 .. ID_BYTES : Leading(a, i) # Leading(b, i)}
  OBVIOUS
<1>2. D \in SUBSET Nat /\ ID_BYTES \in D
  BY <1>a, <1>1, LeadingParts
<1>3. PICK i \in D : \A j \in D : i <= j
  BY <1>2, LeastNumber
<1>4. i \in 1 .. ID_BYTES
  <2>1. i # 0
    BY <1>1, LeadingParts
  <2> QED
    BY <1>a, <1>1, <1>3, <2>1
<1>5. ASSUME NEW j \in 1 .. i - 1 PROVE to_be_bytes(a)[j] = to_be_bytes(b)[j]
  <2>1. j \in 1 .. ID_BYTES /\ j \notin D
    BY <1>a, <1>3, <1>4
  <2>2. Leading(a, j) = Leading(b, j)
    BY <1>1, <2>1
  <2> QED
    BY <2>1, <2>2, LeadingParts
<1>6. to_be_bytes(a)[i] < to_be_bytes(b)[i]
  <2>1. PICK x, y : /\ x = Leading(a, i) /\ y = Leading(b, i)
                    /\ x \in Nat /\ y \in Nat /\ x # y
    BY <1>a, <1>1, <1>4, LeadingParts
  <2>2. x <= y
    <3>1. PICK p \in Nat \ {0} : p = Place[ID_BYTES - i]
      BY <1>a, <1>4, PlacePositive, ID_BYTES - i \in Nat
    <3> QED
      BY <1>a, <2>1, <3>1, QuotientMonotonic DEF Leading
  <2>3. x \div BYTE = y \div BYTE
    <3>1. i - 1 \notin D /\ i - 1 \in 0 .. ID_BYTES
      BY <1>a, <1>3, <1>4
    <3>2. Leading(a, i - 1) = Leading(b, i - 1)
      BY <1>1, <3>1
    <3> QED
      BY <1>4, <2>1, <3>2, LeadingParts
  <2>4. x % BYTE < y % BYTE
    BY <1>a, <2>1, <2>2, <2>3, RemaindersIncrease
  <2> QED
    BY <1>4, <2>1, <2>4, LeadingParts
<1>7. PICK s, t : /\ s = to_be_bytes(a) /\ t = to_be_bytes(b)
                  /\ Len(s) = ID_BYTES /\ Len(t) = ID_BYTES
  BY BytesType
<1>8. /\ \A j \in 1 .. i - 1 : s[j] = t[j]
      /\ s[i] < t[i]
  BY <1>5, <1>6, <1>7
<1> QED
  BY <1>a, <1>4, <1>7, <1>8 DEF Less

-------------------------------------------------------------------------------
(* The order of byte strings.                                                 *)

(* No string is before itself.                                                *)
LEMMA LessIrreflexive ==
    ASSUME NEW a \in Seq(Nat)
    PROVE  ~Less(a, a)
BY DEF Less

(* Of two strings one is before the other.                                    *)
LEMMA LessTotal ==
    ASSUME NEW a \in Seq(Nat), NEW b \in Seq(Nat), a # b
    PROVE  Less(a, b) \/ Less(b, a)
<1>m. PICK m, n : m = Len(a) /\ n = Len(b)
  OBVIOUS
<1>a. m = Len(a) /\ n = Len(b) /\ m \in Nat /\ n \in Nat
  BY <1>m, LenProperties
<1>1. PICK D : D = {i \in Nat : i >= 1 /\ i <= m /\ i <= n /\ a[i] # b[i]}
  OBVIOUS
<1>2. CASE D = {}
  <2>1. \A i \in Nat : i >= 1 /\ i <= m /\ i <= n => a[i] = b[i]
    BY <1>1, <1>2
  <2>2. CASE m < n
    <3>1. m + 1 \in 1 .. n /\ \A j \in 1 .. (m + 1) - 1 : a[j] = b[j]
      BY <1>a, <2>1, <2>2
    <3> QED
      BY <1>a, <3>1 DEF Less
  <2>3. CASE n < m
    <3>1. n + 1 \in 1 .. m /\ \A j \in 1 .. (n + 1) - 1 : b[j] = a[j]
      BY <1>a, <2>1, <2>3
    <3> QED
      BY <1>a, <3>1 DEF Less
  <2>4. CASE m = n
    <3>1. \A j \in 1 .. m : a[j] = b[j]
      BY <1>a, <2>1, <2>4
    <3>2. a = b
      BY <1>a, <2>4, <3>1, SeqEqual
    <3> QED
      BY <3>2
  <2> QED
    BY <1>a, <2>2, <2>3, <2>4
<1>3. CASE D # {}
  <2>1. PICK i \in D : \A j \in D : i <= j
    BY <1>1, <1>3, LeastNumber
  <2>2. i \in 1 .. m /\ i \in 1 .. n /\ a[i] # b[i]
    BY <1>a, <1>1
  <2>3. ASSUME NEW j \in 1 .. i - 1 PROVE a[j] = b[j]
    <3>1. j \in Nat /\ j >= 1 /\ j <= m /\ j <= n /\ ~(i <= j)
      BY <1>a, <2>2
    <3>2. j \notin D
      BY <2>1, <3>1
    <3> QED
      BY <1>1, <3>1, <3>2
  <2>4. a[i] \in Nat /\ b[i] \in Nat
    BY <1>a, <2>2
  <2>5. /\ i \in 1 .. Len(a) /\ i \in 1 .. Len(b)
        /\ Len(a) >= i - 1 /\ Len(b) >= i - 1
    BY <1>a, <2>2
  <2>6. CASE a[i] < b[i]
    BY <2>3, <2>5, <2>6 DEF Less
  <2>7. CASE b[i] < a[i]
    <3>1. \A j \in 1 .. i - 1 : b[j] = a[j]
      BY <2>3
    <3> QED
      BY <2>5, <2>7, <3>1 DEF Less
  <2> QED
    BY <2>2, <2>4, <2>6, <2>7
<1> QED
  BY <1>2, <1>3

(* The order is transitive.                                                   *)
LEMMA LessTransitive ==
    ASSUME NEW a \in Seq(Nat), NEW b \in Seq(Nat), NEW c \in Seq(Nat),
           Less(a, b), Less(b, c)
    PROVE  Less(a, c)
<1>1. PICK i \in 1 .. Len(b) : /\ Len(a) >= i - 1 /\ \A j \in 1 .. i - 1 : a[j] = b[j]
                               /\ Len(a) = i - 1 \/ a[i] < b[i]
  BY DEF Less
<1>2. PICK h \in 1 .. Len(c) : /\ Len(b) >= h - 1 /\ \A j \in 1 .. h - 1 : b[j] = c[j]
                               /\ Len(b) = h - 1 \/ b[h] < c[h]
  BY DEF Less
<1>a. Len(a) \in Nat /\ Len(b) \in Nat /\ Len(c) \in Nat /\ i \in Nat /\ h \in Nat
  OBVIOUS
<1>3. CASE i < h
  <2>1. i \in 1 .. Len(c) /\ \A j \in 1 .. i - 1 : a[j] = c[j]
    BY <1>a, <1>1, <1>2, <1>3
  <2>2. Len(a) = i - 1 \/ a[i] < c[i]
    BY <1>a, <1>1, <1>2, <1>3
  <2> QED
    BY <1>1, <2>1, <2>2 DEF Less
<1>4. CASE i = h
  <2>1. b[i] < c[i]
    BY <1>a, <1>1, <1>2, <1>4
  <2>2. \A j \in 1 .. i - 1 : a[j] = c[j]
    BY <1>a, <1>1, <1>2, <1>4
  <2>3. ASSUME Len(a) # i - 1 PROVE a[i] < c[i]
    <3>1. i \in 1 .. Len(a) /\ i \in 1 .. Len(b) /\ i \in 1 .. Len(c)
      BY <1>a, <1>1, <1>2, <1>4, <2>3
    <3>2. a[i] \in Nat /\ b[i] \in Nat /\ c[i] \in Nat
      BY <3>1, ElementOfSeq
    <3>3. a[i] < b[i]
      BY <1>1, <2>3
    <3> QED
      BY <2>1, <3>2, <3>3
  <2> QED
    BY <1>1, <1>2, <1>4, <2>2, <2>3 DEF Less
<1>5. CASE h < i
  <2>1. h \in 1 .. i - 1 /\ Len(b) # h - 1 /\ Len(a) >= h - 1
    BY <1>a, <1>1, <1>2, <1>5
  <2>2. a[h] < c[h]
    BY <1>1, <1>2, <2>1
  <2>3. \A j \in 1 .. h - 1 : a[j] = c[j]
    BY <1>a, <1>1, <1>2, <1>5
  <2> QED
    BY <2>1, <2>2, <2>3 DEF Less
<1> QED
  BY <1>a, <1>3, <1>4, <1>5

(* The order is asymmetric.                                                   *)
LEMMA LessAsymmetric ==
    ASSUME NEW a \in Seq(Nat), NEW b \in Seq(Nat), Less(a, b)
    PROVE  ~Less(b, a) /\ a # b
BY LessTransitive, LessIrreflexive

(* The elements of a concatenation.                                           *)
LEMMA Concatenation ==
    ASSUME NEW p \in Seq(Nat), NEW a \in Seq(Nat)
    PROVE  /\ p \o a \in Seq(Nat) /\ Len(p \o a) = Len(p) + Len(a)
           /\ \A i \in 1 .. Len(p) : (p \o a)[i] = p[i]
           /\ \A i \in 1 .. Len(a) : (p \o a)[Len(p) + i] = a[i]
OBVIOUS

(* A number up to m + 1 that is not m + 1 is at most m.                       *)
LEMMA UpTo ==
    ASSUME NEW m \in Nat, NEW n \in Nat, NEW i \in 1 .. n, m >= i - 1, m # i - 1
    PROVE  i \in 1 .. m
OBVIOUS

(* A common prefix does not matter.                                           *)
LEMMA LessAfterPrefix ==
    ASSUME NEW p \in Seq(Nat), NEW a \in Seq(Nat), NEW b \in Seq(Nat)
    PROVE  Less(p \o a, p \o b) <=> Less(a, b)
<1>m. PICK n, k, l : /\ n = Len(p) /\ k = p \o a /\ l = p \o b
  OBVIOUS
<1>a. n = Len(p) /\ n \in Nat /\ k = p \o a /\ l = p \o b
  BY <1>m, LenProperties
<1>b. /\ Len(k) = n + Len(a) /\ Len(l) = n + Len(b)
      /\ \A i \in 1 .. n : k[i] = p[i] /\ l[i] = p[i]
      /\ \A i \in 1 .. Len(a) : k[n + i] = a[i]
      /\ \A i \in 1 .. Len(b) : l[n + i] = b[i]
  BY <1>a
<1>c. Len(a) \in Nat /\ Len(b) \in Nat
  OBVIOUS
<1>1. ASSUME Less(a, b) PROVE Less(k, l)
  <2>1. PICK i \in 1 .. Len(b) : /\ Len(a) >= i - 1 /\ \A j \in 1 .. i - 1 : a[j] = b[j]
                                 /\ Len(a) = i - 1 \/ a[i] < b[i]
    BY <1>1 DEF Less
  <2>2. n + i \in 1 .. Len(l) /\ Len(k) >= (n + i) - 1
    BY <1>a, <1>b, <1>c, <2>1
  <2>3. ASSUME NEW j \in 1 .. (n + i) - 1 PROVE k[j] = l[j]
    <3>1. CASE j <= n
      BY <1>a, <1>b, <3>1
    <3>2. CASE j > n
      <4>1. PICK h \in 1 .. i - 1 : j = n + h
        <5>1. j - n \in 1 .. i - 1 /\ j = n + (j - n)
          BY <1>a, <3>2
        <5> QED
          BY <5>1
      <4>2. h \in 1 .. Len(a) /\ h \in 1 .. Len(b)
        BY <1>c, <2>1
      <4> QED
        BY <1>b, <2>1, <4>1, <4>2
    <3>3. j <= n \/ j > n
      BY <1>a
    <3> QED
      BY <3>1, <3>2, <3>3, Zenon
  <2>4. Len(k) = (n + i) - 1 \/ k[n + i] < l[n + i]
    <3>1. CASE Len(a) = i - 1
      BY <1>a, <1>b, <1>c, <3>1
    <3>2. CASE Len(a) # i - 1
      <4>1. a[i] < b[i] /\ Len(a) >= i - 1
        BY <2>1, <3>2, Zenon
      <4>2. i \in 1 .. Len(a)
        BY <1>c, <3>2, <4>1, UpTo
      <4> QED
        BY <1>b, <4>1, <4>2
    <3> QED
      BY <3>1, <3>2
  <2>5. PICK t : t = n + i
    OBVIOUS
  <2>6. /\ t \in 1 .. Len(l)
        /\ Len(k) >= t - 1
        /\ \A j \in 1 .. t - 1 : k[j] = l[j]
        /\ Len(k) = t - 1 \/ k[t] < l[t]
    <3>1. \A j \in 1 .. t - 1 : k[j] = l[j]
      BY <2>3, <2>5
    <3> QED
      BY <2>2, <2>4, <2>5, <3>1
  <2> QED
    BY <2>6 DEF Less
<1>2. ASSUME Less(k, l) PROVE Less(a, b)
  <2>1. PICK i \in 1 .. Len(l) : /\ Len(k) >= i - 1 /\ \A j \in 1 .. i - 1 : k[j] = l[j]
                                 /\ Len(k) = i - 1 \/ k[i] < l[i]
    BY <1>2 DEF Less
  <2>2. i > n
    <3> SUFFICES ASSUME i <= n PROVE FALSE
      BY <1>a, <1>b, <1>c
    <3>1. i \in 1 .. n /\ k[i] = p[i] /\ l[i] = p[i] /\ p[i] \in Nat
      BY <1>a, <1>b, <1>c
    <3>2. Len(k) # i - 1
      BY <1>a, <1>b, <1>c
    <3> QED
      BY <2>1, <3>1, <3>2
  <2>3. PICK h \in 1 .. Len(b) : i = n + h
    <3>1. i - n \in 1 .. Len(b) /\ i = n + (i - n)
      BY <1>a, <1>b, <1>c, <2>2
    <3> QED
      BY <3>1
  <2>4. Len(a) >= h - 1
    BY <1>a, <1>b, <1>c, <2>1, <2>3
  <2>5. ASSUME NEW j \in 1 .. h - 1 PROVE a[j] = b[j]
    <3>1. n + j \in 1 .. i - 1 /\ j \in 1 .. Len(a) /\ j \in 1 .. Len(b)
      BY <1>a, <1>c, <2>3, <2>4
    <3> QED
      BY <1>b, <2>1, <3>1
  <2>6. Len(a) = h - 1 \/ a[h] < b[h]
    <3>1. CASE Len(k) = i - 1
      BY <1>a, <1>b, <1>c, <2>3, <3>1
    <3>2. CASE Len(k) # i - 1
      <4>1. h \in 1 .. Len(a)
        <5>1. ASSUME Len(a) = h - 1 PROVE FALSE
          <6>1. h \in Nat /\ n + (h - 1) = (n + h) - 1
            BY <1>a, <1>c
          <6>2. Len(k) = i - 1
            BY <1>b, <2>3, <5>1, <6>1, Zenon
          <6> QED
            BY <3>2, <6>2
        <5> QED
          BY <1>c, <2>4, <5>1, UpTo
      <4>2. k[n + h] < l[n + h]
        BY <2>1, <2>3, <3>2
      <4> QED
        BY <1>b, <4>1, <4>2
    <3> QED
      BY <3>1, <3>2
  <2> QED
    BY <2>4, <2>5, <2>6 DEF Less
<1> QED
  BY <1>a, <1>1, <1>2

(* Prefixes of one length decide when they differ.                            *)
LEMMA LessByPrefix ==
    ASSUME NEW p \in Seq(Nat), NEW q \in Seq(Nat), Len(p) = Len(q), Less(p, q),
           NEW a \in Seq(Nat), NEW b \in Seq(Nat)
    PROVE  Less(p \o a, q \o b)
<1>m. PICK n, k, l : /\ n = Len(p) /\ k = p \o a /\ l = q \o b
  OBVIOUS
<1>a. n = Len(p) /\ n = Len(q) /\ n \in Nat /\ k = p \o a /\ l = q \o b
  BY <1>m, LenProperties
<1>b. /\ Len(k) = n + Len(a) /\ Len(l) = n + Len(b)
      /\ \A i \in 1 .. n : k[i] = p[i] /\ l[i] = q[i]
  <2>1. /\ Len(p \o a) = Len(p) + Len(a) /\ Len(q \o b) = Len(q) + Len(b)
        /\ \A i \in 1 .. Len(p) : (p \o a)[i] = p[i]
        /\ \A i \in 1 .. Len(q) : (q \o b)[i] = q[i]
    BY Concatenation
  <2> QED
    BY <1>a, <2>1, Zenon
<1>c. Len(a) \in Nat /\ Len(b) \in Nat
  OBVIOUS
<1>1. PICK i \in 1 .. n : /\ n >= i - 1 /\ \A j \in 1 .. i - 1 : p[j] = q[j]
                          /\ n = i - 1 \/ p[i] < q[i]
  BY <1>a DEF Less
<1>2. p[i] < q[i]
  BY <1>a, <1>1
<1>3. /\ i \in 1 .. Len(l) /\ Len(k) >= i - 1 /\ \A j \in 1 .. i - 1 : k[j] = l[j]
      /\ k[i] < l[i]
  BY <1>a, <1>b, <1>c, <1>1, <1>2
<1>4. Less(k, l)
  BY <1>3 DEF Less
<1> QED
  BY <1>a, <1>4

-------------------------------------------------------------------------------
(* Storage keys.                                                              *)

(* A concatenation splits into its two parts again.                           *)
LEMMA ConcatenationParts ==
    ASSUME NEW p \in Seq(Nat), NEW a \in Seq(Nat)
    PROVE  /\ SubSeq(p \o a, 1, Len(p)) = p
           /\ SubSeq(p \o a, Len(p) + 1, Len(p \o a)) = a
<1>m. PICK n, m, k : n = Len(p) /\ m = Len(a) /\ k = p \o a
  OBVIOUS
<1>a. /\ n \in Nat /\ m \in Nat /\ k \in Seq(Nat) /\ Len(k) = n + m
      /\ \A i \in 1 .. n : k[i] = p[i]
      /\ \A i \in 1 .. m : k[n + i] = a[i]
  BY <1>m, Concatenation, LenProperties
<1>b. \A i \in 1 .. n + m : k[i] \in Nat
  BY <1>a, ElementOfSeq
<1>1. SubSeq(k, 1, n) = p
  <2>1. PICK q : q = SubSeq(k, 1, n)
    OBVIOUS
  <2>2. \A i \in 1 .. n : k[i] \in Nat
    BY <1>a, <1>b
  <2>3. /\ q \in Seq(Nat) /\ Len(q) = (IF 1 <= n THEN (n - 1) + 1 ELSE 0)
        /\ \A i \in 1 .. (n - 1) + 1 : q[i] = k[1 + (i - 1)]
    BY <1>a, <2>1, <2>2, SubSeqProperties
  <2>4. Len(q) = n
    BY <1>a, <2>3
  <2>5. \A i \in 1 .. n : q[i] = p[i]
    BY <1>a, <2>3
  <2> QED
    BY <1>m, <2>1, <2>3, <2>4, <2>5, SeqEqual
<1>2. SubSeq(k, n + 1, n + m) = a
  <2>1. PICK q, h, e : q = SubSeq(k, h, e) /\ h = n + 1 /\ e = n + m
    OBVIOUS
  <2>2. h \in Int /\ e \in Int /\ \A i \in h .. e : k[i] \in Nat
    BY <1>a, <1>b, <2>1
  <2>3. /\ q \in Seq(Nat) /\ Len(q) = (IF h <= e THEN (e - h) + 1 ELSE 0)
        /\ \A i \in 1 .. (e - h) + 1 : q[i] = k[h + (i - 1)]
    BY <2>1, <2>2, SubSeqProperties
  <2>4. Len(q) = m /\ (e - h) + 1 = m
    <3>1. (e - h) + 1 = m /\ (IF h <= e THEN (e - h) + 1 ELSE 0) = m
      <4>1. n \in Nat /\ m \in Nat /\ h = n + 1 /\ e = n + m
        BY <1>a, <2>1
      <4> QED
        BY <4>1
    <3> QED
      BY <2>3, <3>1, Zenon
  <2>5. ASSUME NEW i \in 1 .. m PROVE q[i] = a[i]
    <3>1. h + (i - 1) = n + i
      BY <1>a, <2>1
    <3> QED
      BY <1>a, <2>3, <2>4, <3>1
  <2>6. Len(q) = Len(a) /\ \A i \in 1 .. Len(q) : q[i] = a[i]
    BY <1>m, <2>4, <2>5
  <2>7. q = a
    BY <2>3, <2>6, SeqEqual
  <2> QED
    BY <2>1, <2>7
<1> QED
  BY <1>m, <1>a, <1>1, <1>2

(* There are file ids.                                                        *)
LEMMA FileIds ==
    FILE_IDS \in Nat \ {0}
BY FileControlAssumption, PlacePositive DEF FILE_IDS

(* The bytes of an id are a string of ID_BYTES numbers.                       *)
LEMMA BytesAreNumbers ==
    ASSUME NEW id \in 0 .. FILE_IDS - 1
    PROVE  to_be_bytes(id) \in Seq(Nat) /\ Len(to_be_bytes(id)) = ID_BYTES
<1>1. PICK p, b : p = to_be_bytes(id) /\ b = 0 .. BYTE - 1
  OBVIOUS
<1>2. p \in Seq(b) /\ Len(p) = ID_BYTES
  BY <1>1, BytesType
<1>3. b \subseteq Nat
  BY <1>1, FileControlAssumption
<1>4. p \in Seq(Nat)
  BY <1>2, <1>3, SeqMonotonic
<1> QED
  BY <1>1, <1>2, <1>4

(* A storage key gives its file id's bytes and its record key back.           *)
LEMMA StorageKeyParts ==
    ASSUME NEW id \in 0 .. FILE_IDS - 1, NEW r \in Seq(Nat)
    PROVE  /\ storage_key(id, r) \in Seq(Nat)
           /\ SubSeq(storage_key(id, r), 1, ID_BYTES) = to_be_bytes(id)
           /\ SubSeq(storage_key(id, r), ID_BYTES + 1, Len(storage_key(id, r))) = r
<1>1. PICK p : p = to_be_bytes(id)
  OBVIOUS
<1>2. p \in Seq(Nat) /\ Len(p) = ID_BYTES
  BY <1>1, BytesAreNumbers
<1> QED
  BY <1>1, <1>2, Concatenation, ConcatenationParts DEF storage_key

(* Different ids have different bytes.                                        *)
LEMMA BytesInjective ==
    ASSUME NEW i \in 0 .. FILE_IDS - 1, NEW j \in 0 .. FILE_IDS - 1,
           to_be_bytes(i) = to_be_bytes(j)
    PROVE  i = j
<1>0. FILE_IDS \in Nat
  BY FileControlAssumption, PlacePositive DEF FILE_IDS
<1>1. PICK p : p = to_be_bytes(i) /\ p = to_be_bytes(j)
  OBVIOUS
<1>2. p \in Seq(Nat)
  BY <1>1, BytesAreNumbers
<1>3. ~Less(p, p)
  BY <1>2, LessIrreflexive
<1>4. ~(i < j) /\ ~(j < i)
  BY <1>1, <1>3, BytesIncrease
<1> QED
  BY <1>0, <1>4

(* There is more than one file id.                                            *)
LEMMA TwoFileIds ==
    0 \in 0 .. FILE_IDS - 1 /\ 1 \in 0 .. FILE_IDS - 1 /\ 1 % FILE_IDS = 1
<1>1. PICK p, b, i : p = Place[i] /\ b = BYTE /\ i = ID_BYTES - 1
  OBVIOUS
<1>2. i \in Nat /\ i + 1 = ID_BYTES /\ i + 1 \in Nat /\ i + 1 # 0 /\ (i + 1) - 1 = i
  BY <1>1, FileControlAssumption
<1>3. p \in Nat \ {0} /\ b \in Nat \ {0, 1}
  BY <1>1, <1>2, FileControlAssumption, PlacePositive
<1>4. Place[i + 1] = b * p
  BY <1>1, <1>2, PlaceEquation
<1>5. PICK q \in Nat : p = q + 1
  <2>1. p - 1 \in Nat /\ p = (p - 1) + 1
    BY <1>3
  <2> QED
    BY <2>1
<1>6. PICK n : n = b * q
  OBVIOUS
<1>7. n \in Nat /\ b * p = n + b
  BY <1>3, <1>5, <1>6
<1>8. FILE_IDS = n + b
  BY <1>2, <1>4, <1>7 DEF FILE_IDS
<1>9. PICK f \in Nat : f = FILE_IDS /\ f > 1
  BY <1>3, <1>7, <1>8
<1>10. 1 % f = 1
  BY <1>9, SmallRemainder
<1> QED
  BY <1>9, <1>10

(* Storage keys are equal only for the same file id and record key.           *)
LEMMA StorageKeyInjective ==
    ASSUME NEW i \in 0 .. FILE_IDS - 1, NEW j \in 0 .. FILE_IDS - 1,
           NEW r \in Seq(Nat), NEW q \in Seq(Nat),
           storage_key(i, r) = storage_key(j, q)
    PROVE  i = j /\ r = q
<1>1. PICK k : k = storage_key(i, r) /\ k = storage_key(j, q)
  OBVIOUS
<1>2. SubSeq(k, 1, ID_BYTES) = to_be_bytes(i) /\ SubSeq(k, ID_BYTES + 1, Len(k)) = r
  BY <1>1, StorageKeyParts
<1>3. SubSeq(k, 1, ID_BYTES) = to_be_bytes(j) /\ SubSeq(k, ID_BYTES + 1, Len(k)) = q
  BY <1>1, StorageKeyParts
<1> QED
  BY <1>2, <1>3, BytesInjective

(* The bounds of a browse select the file's own keys from the start key on.   *)
LEMMA BrowseBounds ==
    ASSUME NEW i \in 0 .. FILE_IDS - 1, i + 1 < FILE_IDS, NEW j \in 0 .. FILE_IDS - 1,
           NEW r \in Seq(Nat), NEW start \in Seq(Nat)
    PROVE  /\ AtMost(storage_key(i, start), storage_key(j, r))
           /\ Less(storage_key(j, r), storage_key(i + 1, <<>>))
           <=> j = i /\ ~Less(r, start)
<1>0. FILE_IDS \in Nat /\ i + 1 \in 0 .. FILE_IDS - 1
  BY FileIds
<1>1. PICK p, h, q : /\ p = to_be_bytes(i) /\ h = to_be_bytes(i + 1)
                     /\ q = to_be_bytes(j)
  OBVIOUS
<1>2. /\ p \in Seq(Nat) /\ h \in Seq(Nat) /\ q \in Seq(Nat)
      /\ Len(p) = Len(q) /\ Len(h) = Len(q) /\ Len(p) = Len(h)
  BY <1>0, <1>1, BytesAreNumbers
<1>3. PICK lo, k, hi : lo = p \o start /\ k = q \o r /\ hi = h \o <<>>
  OBVIOUS
<1>4. lo \in Seq(Nat) /\ k \in Seq(Nat) /\ hi \in Seq(Nat) /\ <<>> \in Seq(Nat)
  BY <1>2, <1>3, Concatenation
<1>5. /\ lo = storage_key(i, start) /\ k = storage_key(j, r)
      /\ hi = storage_key(i + 1, <<>>)
  BY <1>1, <1>3 DEF storage_key
<1>6. CASE j < i
  <2>1. Less(q, p)
    BY <1>1, <1>6, BytesIncrease
  <2>2. Less(k, lo)
    BY <1>2, <1>3, <2>1, LessByPrefix
  <2>3. ~Less(lo, k) /\ lo # k
    BY <1>4, <2>2, LessAsymmetric
  <2> QED
    BY <1>0, <1>5, <1>6, <2>3 DEF AtMost
<1>7. CASE j = i
  <2>1. p = q
    BY <1>1, <1>7
  <2>2. Less(p, h)
    BY <1>0, <1>1, BytesIncrease
  <2>3. Less(k, hi)
    BY <1>2, <1>3, <1>4, <2>1, <2>2, LessByPrefix
  <2>4. Less(lo, k) <=> Less(start, r)
    BY <1>2, <1>3, <2>1, LessAfterPrefix
  <2>5. start = r => lo = k
    BY <1>3, <2>1
  <2>6. lo = k => start = r
    BY <1>5, <1>7, StorageKeyInjective
  <2>7. ~Less(r, start) <=> start = r \/ Less(start, r)
    BY LessTotal, LessAsymmetric
  <2> QED
    BY <1>5, <1>7, <2>3, <2>4, <2>5, <2>6, <2>7 DEF AtMost
<1>8. CASE j > i
  <2>1. ~Less(k, hi)
    <3>1. CASE j = i + 1
      <4>1. h = q
        BY <1>1, <3>1
      <4>2. Less(k, hi) <=> Less(r, <<>>)
        BY <1>2, <1>3, <1>4, <4>1, LessAfterPrefix
      <4>3. ~Less(r, <<>>)
        BY DEF Less
      <4> QED
        BY <4>2, <4>3
    <3>2. CASE i + 1 < j
      <4>1. Less(h, q)
        BY <1>0, <1>1, <3>2, BytesIncrease
      <4>2. Less(hi, k)
        BY <1>2, <1>3, <1>4, <4>1, LessByPrefix
      <4> QED
        BY <1>4, <4>2, LessAsymmetric
    <3> QED
      BY <1>0, <1>8, <3>1, <3>2
  <2> QED
    BY <1>0, <1>5, <1>8, <2>1
<1> QED
  BY <1>0, <1>6, <1>7, <1>8

-------------------------------------------------------------------------------
(* Keys in order.                                                             *)

Earlier(S, k) == {x \in S : Less(x, k)}
Prefixed(id, R) == {storage_key(id, r) : r \in R}

(* A later key of a finite set has more keys before it.                       *)
LEMMA EarlierIncreases ==
    ASSUME NEW S \in SUBSET Seq(Nat), IsFiniteSet(S), NEW a \in S, NEW b \in S, Less(a, b)
    PROVE  Rank(S, a) < Rank(S, b)
<1>1. PICK A, B : A = Earlier(S, a) /\ B = Earlier(S, b)
  OBVIOUS
<1>2. A \in SUBSET B
  BY <1>1, LessTransitive DEF Earlier
<1>3. a \in B /\ a \notin A
  BY <1>1, LessIrreflexive DEF Earlier
<1>4. IsFiniteSet(A) /\ IsFiniteSet(B)
  BY <1>1, FS_Subset DEF Earlier
<1>5. Cardinality(A) \in Nat /\ Cardinality(B) \in Nat
  BY <1>4, FS_CardinalityType
<1>6. Cardinality(A) <= Cardinality(B) /\ Cardinality(B) # Cardinality(A)
  BY <1>2, <1>3, <1>4, FS_Subset
<1>7. Rank(S, a) = Cardinality(A) + 1 /\ Rank(S, b) = Cardinality(B) + 1
  BY <1>1 DEF Rank, Earlier
<1> QED
  BY <1>5, <1>6, <1>7

(* Ranks number the keys of a finite set, from 1 to its size.                 *)
LEMMA RankBounds ==
    ASSUME NEW S \in SUBSET Seq(Nat), IsFiniteSet(S), NEW k \in S
    PROVE  Rank(S, k) \in 1 .. Cardinality(S)
<1>1. PICK A, n, m : A = Earlier(S, k) /\ n = Cardinality(S) /\ m = Cardinality(A)
  OBVIOUS
<1>2. A \in SUBSET S /\ k \notin A
  BY <1>1, LessIrreflexive DEF Earlier
<1>3. IsFiniteSet(A) /\ m <= n /\ m # n
  BY <1>1, <1>2, FS_Subset
<1>4. m \in Nat /\ n \in Nat
  BY <1>1, <1>3, FS_CardinalityType
<1>5. Rank(S, k) = m + 1
  BY <1>1 DEF Rank, Earlier
<1> QED
  BY <1>1, <1>3, <1>4, <1>5

(* Keys of equal rank are equal.                                              *)
LEMMA RankOnce ==
    ASSUME NEW S \in SUBSET Seq(Nat), IsFiniteSet(S), NEW a \in S, NEW b \in S,
           Rank(S, a) = Rank(S, b)
    PROVE  a = b
<1> SUFFICES ASSUME a # b PROVE FALSE
  OBVIOUS
<1>1. PICK n \in Nat : n = Rank(S, a) /\ n = Rank(S, b)
  <2>1. Rank(S, a) \in 1 .. Cardinality(S) /\ Cardinality(S) \in Nat
    BY RankBounds, FS_CardinalityType
  <2> QED
    BY <2>1
<1>2. Less(a, b) \/ Less(b, a)
  BY LessTotal
<1>3. n < n
  BY <1>1, <1>2, EarlierIncreases
<1> QED
  BY <1>3

(* Every rank up to the size of the set is some key's.                        *)
LEMMA RankOnto ==
    ASSUME NEW S \in SUBSET Seq(Nat), IsFiniteSet(S), NEW i \in 1 .. Cardinality(S)
    PROVE  \E k \in S : Rank(S, k) = i
<1>1. PICK n, I, f : n = Cardinality(S) /\ I = 1 .. n /\ f = [k \in S |-> Rank(S, k)]
  OBVIOUS
<1>2. n \in Nat
  BY <1>1, FS_CardinalityType
<1>3. f \in [S -> I]
  BY <1>1, RankBounds
<1>4. \A a, b \in S : f[a] = f[b] => a = b
  BY <1>1, RankOnce
<1>5. f \in Injection(S, I)
  BY <1>3, <1>4 DEF Injection, IsInjective
<1>6. IsFiniteSet(I) /\ Cardinality(I) = n
  <2>1. IsFiniteSet(1 .. n) /\ Cardinality(1 .. n) = IF 1 > n THEN 0 ELSE (n - 1) + 1
    BY <1>2, FS_Interval
  <2> QED
    BY <1>1, <1>2, <2>1
<1>7. f \in Surjection(S, I)
  BY <1>1, <1>5, <1>6, FS_Injection
<1>8. \E k \in S : f[k] = i
  BY <1>1, <1>7 DEF Surjection
<1> QED
  BY <1>1, <1>8

(* InOrder lists the keys of a finite set by their rank.                      *)
LEMMA InOrderRanks ==
    ASSUME NEW S \in SUBSET Seq(Nat), IsFiniteSet(S)
    PROVE  /\ Len(InOrder(S)) = Cardinality(S)
           /\ \A i \in 1 .. Cardinality(S) :
                  InOrder(S)[i] \in S /\ Rank(S, InOrder(S)[i]) = i
<1>1. PICK n, q : n = Cardinality(S) /\ q = InOrder(S)
  OBVIOUS
<1>2. n \in Nat
  BY <1>1, FS_CardinalityType
<1>3. q = [i \in 1 .. n |-> CHOOSE k \in S : Rank(S, k) = i]
  BY <1>1 DEF InOrder
<1>4. ASSUME NEW i \in 1 .. n PROVE q[i] \in S /\ Rank(S, q[i]) = i
  <2>1. \E k \in S : Rank(S, k) = i
    BY <1>1, RankOnto
  <2>2. q[i] = CHOOSE k \in S : Rank(S, k) = i
    BY <1>3
  <2> QED
    BY <2>1, <2>2
<1>5. q \in [1 .. n -> S]
  BY <1>3, <1>4
<1>6. Len(q) = n
  <2>1. q \in Seq(S)
    BY <1>2, <1>5, SeqDef
  <2> QED
    BY <1>2, <1>5, <2>1
<1> QED
  BY <1>1, <1>4, <1>6

(* A file's prefix keeps the number of keys.                                  *)
LEMMA PrefixedSize ==
    ASSUME NEW id \in 0 .. FILE_IDS - 1, NEW R \in SUBSET Seq(Nat), IsFiniteSet(R)
    PROVE  /\ IsFiniteSet(Prefixed(id, R))
           /\ Cardinality(Prefixed(id, R)) = Cardinality(R)
<1>1. PICK T, f : T = Prefixed(id, R) /\ f = [r \in R |-> storage_key(id, r)]
  OBVIOUS
<1>2. f \in [R -> T]
  BY <1>1 DEF Prefixed
<1>3. ASSUME NEW a \in R, NEW b \in R, f[a] = f[b] PROVE a = b
  <2>1. storage_key(id, a) = storage_key(id, b)
    BY <1>1, <1>3
  <2> QED
    BY <2>1, StorageKeyInjective
<1>4. \A t \in T : \E r \in R : f[r] = t
  BY <1>1 DEF Prefixed
<1>5. f \in Injection(R, T)
  BY <1>2, <1>3 DEF Injection, IsInjective
<1>6. f \in Surjection(R, T)
  BY <1>2, <1>4 DEF Surjection
<1>7. ExistsBijection(R, T)
  BY <1>5, <1>6 DEF ExistsBijection, Bijection
<1> QED
  BY <1>1, <1>7, FS_Bijection

(* It keeps the ranks too.                                                    *)
LEMMA PrefixedRanks ==
    ASSUME NEW id \in 0 .. FILE_IDS - 1, NEW R \in SUBSET Seq(Nat), IsFiniteSet(R),
           NEW r \in R
    PROVE  Rank(Prefixed(id, R), storage_key(id, r)) = Rank(R, r)
<1>1. PICK T, k : T = Prefixed(id, R) /\ k = storage_key(id, r)
  OBVIOUS
<1>2. PICK p : p = to_be_bytes(id) /\ p \in Seq(Nat)
  BY BytesAreNumbers
<1>3. \A x \in R : Less(storage_key(id, x), k) <=> Less(x, r)
  BY <1>1, <1>2, LessAfterPrefix DEF storage_key
<1>4. PICK E : E = Earlier(R, r)
  OBVIOUS
<1>5. Earlier(T, k) = Prefixed(id, E)
  BY <1>1, <1>3, <1>4 DEF Earlier, Prefixed
<1>6. E \in SUBSET Seq(Nat) /\ E \in SUBSET R
  BY <1>4 DEF Earlier
<1>7. IsFiniteSet(E)
  BY <1>6, FS_Subset
<1>8. Cardinality(Earlier(T, k)) = Cardinality(E)
  BY <1>5, <1>6, <1>7, PrefixedSize
<1> QED
  BY <1>1, <1>4, <1>8 DEF Rank, Earlier

(* So does taking the prefix away.                                            *)
LEMMA PrefixedFinite ==
    ASSUME NEW id \in 0 .. FILE_IDS - 1, NEW R \in SUBSET Seq(Nat),
           NEW T, IsFiniteSet(T), \A r \in R : storage_key(id, r) \in T
    PROVE  IsFiniteSet(R)
<1>1. PICK f : f = [r \in R |-> storage_key(id, r)]
  OBVIOUS
<1>2. f \in [R -> T]
  BY <1>1
<1>3. ASSUME NEW a \in R, NEW b \in R, f[a] = f[b] PROVE a = b
  <2>1. storage_key(id, a) = storage_key(id, b)
    BY <1>1, <1>3
  <2> QED
    BY <2>1, StorageKeyInjective
<1>4. f \in Injection(R, T)
  BY <1>2, <1>3 DEF Injection, IsInjective
<1> QED
  BY <1>4, FS_Injection

-------------------------------------------------------------------------------
(* The records of one file.  K is the set of record keys.                     *)

Tidy(w, K) ==
    /\ IsFiniteSet(DOMAIN w)
    /\ \A k \in DOMAIN w : \E id \in 0 .. FILE_IDS - 1 : \E r \in K : k = storage_key(id, r)
OwnKeys(w, id, K) == {r \in K : storage_key(id, r) \in DOMAIN w}
KeysAt(w, id, K, start) == {r \in OwnKeys(w, id, K) : ~Less(r, start)}

(* A file has finitely many records.                                          *)
LEMMA OwnKeysFinite ==
    ASSUME NEW K \in SUBSET Seq(Nat), NEW w, Tidy(w, K), NEW id \in 0 .. FILE_IDS - 1,
           NEW R \in SUBSET OwnKeys(w, id, K)
    PROVE  R \in SUBSET Seq(Nat) /\ IsFiniteSet(R)
<1>1. /\ R \in SUBSET Seq(Nat)
      /\ \A r \in R : storage_key(id, r) \in DOMAIN w
  BY DEF OwnKeys
<1>2. PICK T : T = DOMAIN w /\ IsFiniteSet(T)
  BY DEF Tidy
<1> QED
  BY <1>1, <1>2, PrefixedFinite

(* The range that a browse scans is the file's records from the start key on. *)
LEMMA BrowseRange ==
    ASSUME NEW K \in SUBSET Seq(Nat), NEW w, Tidy(w, K), NEW id \in 0 .. FILE_IDS - 1,
           id + 1 < FILE_IDS, NEW start \in Seq(Nat)
    PROVE  RangeKeys(w, storage_key(id, start), storage_key(id + 1, <<>>))
               = InOrder(Prefixed(id, KeysAt(w, id, K, start)))
<1>1. PICK lo, hi : lo = storage_key(id, start) /\ hi = storage_key(id + 1, <<>>)
  OBVIOUS
<1>2. PICK A, B : /\ A = {k \in DOMAIN w : AtMost(lo, k) /\ Less(k, hi)}
                  /\ B = Prefixed(id, KeysAt(w, id, K, start))
  OBVIOUS
<1>3. ASSUME NEW k \in A PROVE k \in B
  <2>1. PICK j \in 0 .. FILE_IDS - 1, r \in K : k = storage_key(j, r)
    BY <1>2 DEF Tidy
  <2>2. r \in Seq(Nat) /\ k \in DOMAIN w /\ AtMost(lo, k) /\ Less(k, hi)
    BY <1>2
  <2>3. j = id /\ ~Less(r, start)
    BY <1>1, <2>1, <2>2, BrowseBounds
  <2> QED
    BY <1>2, <2>1, <2>2, <2>3 DEF Prefixed, KeysAt, OwnKeys
<1>4. ASSUME NEW k \in B PROVE k \in A
  <2>1. PICK r \in K : k = storage_key(id, r) /\ k \in DOMAIN w /\ ~Less(r, start)
    BY <1>2 DEF Prefixed, KeysAt, OwnKeys
  <2>2. r \in Seq(Nat)
    OBVIOUS
  <2>3. AtMost(lo, k) /\ Less(k, hi)
    BY <1>1, <2>1, <2>2, BrowseBounds
  <2> QED
    BY <1>2, <2>1, <2>3
<1>5. A = B
  BY <1>3, <1>4
<1>6. RangeKeys(w, lo, hi) = InOrder(A)
  BY <1>2 DEF RangeKeys
<1> QED
  BY <1>1, <1>2, <1>5, <1>6

(* The i-th key of a file, with its prefix, is the prefixed i-th record key.  *)
LEMMA InOrderPrefixed ==
    ASSUME NEW id \in 0 .. FILE_IDS - 1, NEW R \in SUBSET Seq(Nat), IsFiniteSet(R)
    PROVE  /\ Len(InOrder(Prefixed(id, R))) = Cardinality(R)
           /\ \A i \in 1 .. Cardinality(R) :
                  InOrder(Prefixed(id, R))[i] = storage_key(id, InOrder(R)[i])
<1>1. PICK T, n, u, v : /\ T = Prefixed(id, R) /\ n = Cardinality(R)
                        /\ u = InOrder(T) /\ v = InOrder(R)
  OBVIOUS
<1>2. T \in SUBSET Seq(Nat)
  BY <1>1, StorageKeyParts DEF Prefixed
<1>3. IsFiniteSet(T) /\ Cardinality(T) = n
  BY <1>1, PrefixedSize
<1>4. Len(u) = n /\ \A i \in 1 .. n : u[i] \in T /\ Rank(T, u[i]) = i
  BY <1>1, <1>2, <1>3, InOrderRanks
<1>5. \A i \in 1 .. n : v[i] \in R /\ Rank(R, v[i]) = i
  BY <1>1, InOrderRanks
<1>6. ASSUME NEW i \in 1 .. n PROVE u[i] = storage_key(id, v[i])
  <2>1. PICK r, k : r = v[i] /\ k = storage_key(id, r)
    OBVIOUS
  <2>2. r \in R /\ Rank(R, r) = i
    BY <1>5, <2>1
  <2>3. k \in T /\ Rank(T, k) = i
    <3>1. k \in T
      BY <1>1, <2>1, <2>2 DEF Prefixed
    <3>2. Rank(T, k) = Rank(R, r)
      BY <1>1, <2>1, <2>2, PrefixedRanks
    <3> QED
      BY <2>2, <3>1, <3>2
  <2>4. u[i] \in T /\ Rank(T, u[i]) = Rank(T, k)
    BY <1>4, <2>3
  <2>5. u[i] = k
    BY <1>2, <1>3, <2>3, <2>4, RankOnce
  <2> QED
    BY <2>1, <2>5
<1> QED
  BY <1>1, <1>4, <1>6

(* Rows takes the prefixes away and stops at the limit.                       *)
LEMMA BrowseRows ==
    ASSUME NEW id \in 0 .. FILE_IDS - 1, NEW R \in SUBSET Seq(Nat), IsFiniteSet(R),
           NEW w, NEW limit \in Nat,
           NEW q, q = Rows(w, InOrder(Prefixed(id, R)), limit)
    PROVE  /\ q = [i \in DOMAIN q |-> q[i]]
           /\ \A i : i \in DOMAIN q <=> i \in 1 .. Cardinality(R) /\ i <= limit
           /\ \A i \in DOMAIN q :
                  q[i] = <<InOrder(R)[i], w[storage_key(id, InOrder(R)[i])]>>
<1>1. PICK n, u, v : /\ n = Cardinality(R) /\ u = InOrder(Prefixed(id, R))
                     /\ v = InOrder(R)
  OBVIOUS
<1>2. n \in Nat
  BY <1>1, FS_CardinalityType
<1>3. Len(u) = n /\ \A i \in 1 .. n : u[i] = storage_key(id, v[i])
  BY <1>1, InOrderPrefixed
<1>4. \A i \in 1 .. n : v[i] \in Seq(Nat)
  BY <1>1, InOrderRanks
<1>5. \A i \in 1 .. n : SubSeq(u[i], ID_BYTES + 1, Len(u[i])) = v[i]
  BY <1>3, <1>4, StorageKeyParts
<1>6. PICK I : I = {i \in 1 .. n : i <= limit}
  OBVIOUS
<1>7. 1 .. (IF n < limit THEN n ELSE limit) = I
  BY <1>2, <1>6
<1>8. Rows(w, u, limit) = [i \in I |-> <<SubSeq(u[i], ID_BYTES + 1, Len(u[i])), w[u[i]]>>]
  BY <1>3, <1>7 DEF Rows
<1>9. I \subseteq 1 .. n
  BY <1>6
<1>10. Rows(w, u, limit) = [i \in I |-> <<v[i], w[storage_key(id, v[i])]>>]
  BY <1>3, <1>5, <1>8, <1>9
<1>11. q = Rows(w, u, limit)
  BY <1>1
<1>12. q = [i \in I |-> <<v[i], w[storage_key(id, v[i])]>>]
  BY <1>10, <1>11
<1>13. DOMAIN q = I /\ \A i \in I : q[i] = <<v[i], w[storage_key(id, v[i])]>>
  BY <1>12
<1>14. q = [i \in DOMAIN q |-> q[i]]
  BY <1>12
<1> QED
  BY <1>1, <1>6, <1>13, <1>14

===============================================================================
