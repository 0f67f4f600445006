---------------------------- MODULE IniReaderProofs ----------------------------
(***************************************************************************)
(* Theorems about the configuration reader, for any files, buffer and      *)
(* numbers: the types, that no value is longer than the buffer, and that   *)
(* the two programs take from a plain file what it says.                   *)
(*                                                                         *)
(* The argument: a plain line is read in one piece, and the piece is its   *)
(* text.  After n lines the section being read began at the last header    *)
(* among them, its keys have the last value of the lines since then, and   *)
(* the map has the last of the blocks before that header for each section  *)
(* (LoadSays).  A look at the buffer comes right after the get of the same *)
(* setting, so it finds what that get put there (Paired, LooksRight), and  *)
(* what is taken stays what GetKey would return (Taken).                   *)
(***************************************************************************)
EXTENDS IniReader, SequenceTheorems, WellFoundedInduction, TLAPS

Token == STRING \cup {"\n"}
Lines == Seq(Token)

-------------------------------------------------------------------------------
(* Texts *)

\* string::find: the first place of a token, or none.
LEMMA FindIs ==
    ASSUME NEW text \in Lines, NEW t
    PROVE  \/ Find(text, t) = 0 /\ \A i \in 1 .. Len(text) : text[i] # t
           \/ /\ Find(text, t) \in 1 .. Len(text) /\ text[Find(text, t)] = t
              /\ \A i \in 1 .. Len(text) : text[i] = t => Find(text, t) <= i
  <1> DEFINE I == {i \in 1 .. Len(text) : text[i] = t}
  <1>1. Find(text, t) = IF I # {} THEN Min(I) ELSE 0 BY DEF Find, SelectInSeq
  <1>2. CASE I = {} BY <1>1, <1>2
  <1>3. CASE I # {}
    <2>1. I \subseteq Nat /\ Len(text) \in Nat BY DEF Lines
    <2>2. \E x \in I : \A y \in I : x <= y
      <3> HIDE DEF I
      <3>1. PICK x \in I : \A y \in I : <<y, x>> \notin OpToRel(<, Nat)
        BY <1>3, <2>1, WFMin, NatLessThanWellFounded
      <3>2. ASSUME NEW y \in I PROVE x <= y
        <4>1. x \in Nat /\ y \in Nat BY <2>1
        <4>2. ~(y < x) BY <3>1, <4>1 DEF OpToRel
        <4> QED BY <4>1, <4>2
      <3> QED BY <3>2
    <2>3. Min(I) \in I /\ \A y \in I : Min(I) <= y BY <2>2 DEF Min
    <2> QED BY <1>1, <1>3, <2>3
  <1> QED BY <1>2, <1>3

\* string::erase of one character.
LEMMA RemoveAtIs ==
    ASSUME NEW text \in Lines, NEW i \in 1 .. Len(text)
    PROVE  /\ RemoveAt(text, i) \in Lines
           /\ Len(RemoveAt(text, i)) = Len(text) - 1
           /\ \A j \in 1 .. Len(text) - 1 :
                 RemoveAt(text, i)[j] = IF j < i THEN text[j] ELSE text[j + 1]
  <1> DEFINE a == SubSeq(text, 1, i - 1)
             b == SubSeq(text, i + 1, Len(text))
  <1>1. /\ Len(text) \in Nat /\ i \in Int /\ 1 <= i /\ i <= Len(text)
        /\ \A j \in 1 .. Len(text) : text[j] \in Token
    BY DEF Lines
  <1>2. a \in Lines /\ Len(a) = i - 1 /\ \A j \in 1 .. i - 1 : a[j] = text[j]
    <2>1. \A j \in 1 .. i - 1 : text[j] \in Token BY <1>1
    <2>2. /\ a \in Lines /\ Len(a) = IF 1 <= i - 1 THEN i - 1 - 1 + 1 ELSE 0
          /\ \A j \in 1 .. i - 1 - 1 + 1 : a[j] = text[1 + j - 1]
      BY <1>1, <2>1, SubSeqProperties DEF Lines
    <2> QED BY <1>1, <2>2
  <1>3. b \in Lines /\ Len(b) = Len(text) - i /\ \A j \in 1 .. Len(text) - i : b[j] = text[i + j]
    <2>1. \A j \in i + 1 .. Len(text) : text[j] \in Token BY <1>1
    <2>2. /\ b \in Lines
          /\ Len(b) = IF i + 1 <= Len(text) THEN Len(text) - (i + 1) + 1 ELSE 0
          /\ \A j \in 1 .. Len(text) - (i + 1) + 1 : b[j] = text[i + 1 + j - 1]
      BY <1>1, <2>1, SubSeqProperties DEF Lines
    <2>3. Len(text) - (i + 1) + 1 = Len(text) - i BY <1>1
    <2>4. ASSUME NEW j \in 1 .. Len(text) - i PROVE b[j] = text[i + j]
      <3>1. i + 1 + j - 1 = i + j BY <1>1
      <3> QED BY <2>2, <2>3, <3>1
    <2> HIDE DEF b
    <2>5. Len(b) = Len(text) - i BY <1>1, <2>2
    <2> QED BY <2>2, <2>4, <2>5
  <1> HIDE DEF a, b
  <1>4. /\ a \o b \in Lines /\ Len(a \o b) = Len(a) + Len(b)
        /\ \A j \in 1 .. Len(a) + Len(b) : (a \o b)[j] = IF j <= Len(a) THEN a[j] ELSE b[j - Len(a)]
    BY <1>2, <1>3, ConcatProperties DEF Lines
  <1>5. Len(a) + Len(b) = Len(text) - 1 BY <1>1, <1>2, <1>3
  <1>6. ASSUME NEW j \in 1 .. Len(text) - 1
        PROVE  (a \o b)[j] = IF j < i THEN text[j] ELSE text[j + 1]
    <2>1. (a \o b)[j] = IF j <= i - 1 THEN a[j] ELSE b[j - (i - 1)] BY <1>2, <1>4, <1>5
    <2>2. CASE j < i
      <3>1. j <= i - 1 /\ j \in 1 .. i - 1 BY <1>1, <2>2
      <3> QED BY <1>2, <2>1, <2>2, <3>1
    <2>3. CASE ~(j < i)
      <3>1. j - (i - 1) \in 1 .. Len(text) - i /\ i + (j - (i - 1)) = j + 1 /\ ~(j <= i - 1)
        BY <1>1, <2>3
      <3>2. b[j - (i - 1)] = text[j + 1] BY <1>3, <3>1
      <3> QED BY <2>1, <2>3, <3>1, <3>2
    <2> QED BY <2>2, <2>3
  <1> QED BY <1>4, <1>5, <1>6 DEF RemoveAt, a, b

LEMMA EraseIs ==
    ASSUME NEW text \in Lines, NEW t
    PROVE  /\ Erase(text, t) \in Lines
           /\ Len(Erase(text, t)) \in Nat /\ Len(Erase(text, t)) <= Len(text)
           /\ (\A i \in 1 .. Len(text) : text[i] # t) => Erase(text, t) = text
  <1>1. Len(text) \in Nat BY DEF Lines
  <1>2. CASE Find(text, t) = 0 BY <1>1, <1>2, FindIs DEF Erase
  <1>3. CASE Find(text, t) # 0
    <2>1. Find(text, t) \in 1 .. Len(text) /\ text[Find(text, t)] = t BY <1>3, FindIs
    <2> QED BY <1>1, <1>3, <2>1, RemoveAtIs DEF Erase
  <1> QED BY <1>2, <1>3

\* A token that is only at the end is erased there.
LEMMA EraseLast ==
    ASSUME NEW text \in Lines, text # <<>>, NEW t, text[Len(text)] = t,
           \A i \in 1 .. Len(text) : text[i] = t => i = Len(text)
    PROVE  Erase(text, t) = SubSeq(text, 1, Len(text) - 1)
  <1>1. Len(text) \in Nat /\ Len(text) # 0 BY DEF Lines
  <1>2. Find(text, t) = Len(text) BY <1>1, FindIs
  <1>3. Erase(text, t) = SubSeq(text, 1, Len(text) - 1) \o SubSeq(text, Len(text) + 1, Len(text))
    BY <1>1, <1>2 DEF Erase, RemoveAt
  <1>4. SubSeq(text, Len(text) + 1, Len(text)) = <<>> BY <1>1 DEF Lines
  <1>5. SubSeq(text, 1, Len(text) - 1) \in Lines BY <1>1 DEF Lines
  <1> QED BY <1>3, <1>4, <1>5 DEF Lines

\* fgets never returns more than the buffer holds, and what it leaves are lines.
LEMMA PieceIs ==
    ASSUME rest \in Seq(Lines), rest # <<>>
    PROVE  /\ Piece \in Lines
           /\ Len(Piece) \in Nat /\ Len(Piece) < ConfigLen
           /\ Unread \in Seq(Lines)
  <1>1. /\ Head(rest) \in Lines /\ Tail(rest) \in Seq(Lines)
        /\ Len(Head(rest)) \in Nat /\ ConfigLen \in Nat /\ ConfigLen > 1
    BY IniAssumption DEF Lines
  <1>2. PieceLen \in Nat /\ PieceLen <= Len(Head(rest)) /\ PieceLen < ConfigLen
    BY <1>1 DEF PieceLen
  <1>3. SubSeq(Head(rest), 1, PieceLen) \in Lines
        /\ Len(SubSeq(Head(rest), 1, PieceLen)) = PieceLen
    BY <1>1, <1>2 DEF Lines
  <1>4. Piece \in Lines /\ Len(Piece) \in Nat /\ Len(Piece) <= PieceLen
    <2> DEFINE a == SubSeq(Head(rest), 1, PieceLen)
               b == Erase(a, "\n")
    <2>1. b \in Lines /\ Len(b) \in Nat /\ Len(b) <= PieceLen BY <1>3, EraseIs
    <2>2. Piece = Erase(b, "\r") BY DEF Piece
    <2> HIDE DEF b
    <2> QED BY <1>2, <2>1, <2>2, EraseIs
  <1>5. Unread \in Seq(Lines)
    <2>1. CASE PieceLen = Len(Head(rest)) BY <1>1, <2>1 DEF Unread
    <2>2. CASE PieceLen # Len(Head(rest))
      <3>1. SubSeq(Head(rest), PieceLen + 1, Len(Head(rest))) \in Lines
        BY <1>1, <1>2 DEF Lines
      <3>2. <<SubSeq(Head(rest), PieceLen + 1, Len(Head(rest)))>> \in Seq(Lines) BY <3>1
      <3> QED BY <1>1, <2>2, <3>2 DEF Unread
    <2> QED BY <2>1, <2>2
  <1> QED BY <1>1, <1>2, <1>4, <1>5

-------------------------------------------------------------------------------
(* Maps and programs *)

\* std::map::operator[] on the left of an assignment.
LEMMA PutIs ==
    \A f, k, v : /\ DOMAIN Put(f, k, v) = DOMAIN f \cup {k}
                 /\ Put(f, k, v)[k] = v
                 /\ \A x \in DOMAIN f : x # k => Put(f, k, v)[x] = f[x]
  BY DEF Put

Settings == {"daemon", "net_type", "worker", "listen", "address", "bin_dir"}
Sections == {"system", "mongodb", "child"}
Calls == [op : {"get", "use", "int", "need"}, section : Sections, key : Settings]

\* Each look at the buffer comes right after the get of the same setting.
Paired(p) ==
    \A i \in 1 .. Len(p) : p[i].op # "get" =>
        /\ p[i].key \in Settings /\ p[i].section = SectionOf(p[i].key)
        /\ i > 1 => /\ p[i - 1].op = "get" /\ p[i - 1].section = p[i].section
                    /\ p[i - 1].key = p[i].key
GetsFirst(p) == p # <<>> => p[1].op = "get"

LEMMA GetAndPaired ==
    ASSUME NEW op \in {"use", "int", "need"}, NEW k \in Settings
    PROVE  /\ GetAnd(op, SectionOf(k), k) \in Seq(Calls)
           /\ Paired(GetAnd(op, SectionOf(k), k)) /\ GetsFirst(GetAnd(op, SectionOf(k), k))
  <1> DEFINE s == SectionOf(k)
  <1>1. s \in Sections
    <2>1. CASE k = "address" BY <2>1 DEF SectionOf, Sections
    <2>2. CASE k = "bin_dir" BY <2>2 DEF SectionOf, Sections
    <2>3. CASE k # "address" /\ k # "bin_dir" BY <2>3 DEF SectionOf, Sections
    <2> QED BY <2>1, <2>2, <2>3
  <1> HIDE DEF s
  <1>2. Get(s, k) \in Calls /\ Look(op, s, k) \in Calls BY <1>1 DEF Get, Look, Calls
  <1>3. GetAnd(op, s, k) \in Seq(Calls) /\ Len(GetAnd(op, s, k)) = 2
    BY <1>2 DEF GetAnd
  <1>4. GetAnd(op, s, k)[1] = Get(s, k) /\ GetAnd(op, s, k)[2] = Look(op, s, k)
    BY DEF GetAnd
  <1>5. /\ Get(s, k).op = "get" /\ Get(s, k).section = s /\ Get(s, k).key = k
        /\ Look(op, s, k).op # "get"
        /\ Look(op, s, k).section = s /\ Look(op, s, k).key = k
    BY DEF Get, Look
  <1>6. ASSUME NEW i \in 1 .. 2, GetAnd(op, s, k)[i].op # "get"
        PROVE  i = 2
    BY <1>4, <1>5, <1>6
  <1>7. Paired(GetAnd(op, s, k)) BY <1>3, <1>4, <1>5, <1>6 DEF Paired, s
  <1> QED BY <1>3, <1>4, <1>5, <1>7 DEF GetsFirst, s

LEMMA ConcatPaired ==
    ASSUME NEW p \in Seq(Calls), NEW q \in Seq(Calls), q # <<>>, p # <<>>,
           Paired(p), GetsFirst(p), Paired(q), GetsFirst(q)
    PROVE  p \o q \in Seq(Calls) /\ p \o q # <<>> /\ Paired(p \o q) /\ GetsFirst(p \o q)
  <1>1. Len(p) \in Nat \ {0} /\ Len(q) \in Nat \ {0} OBVIOUS
  <1>2. /\ p \o q \in Seq(Calls) /\ Len(p \o q) = Len(p) + Len(q)
        /\ \A i \in 1 .. Len(p) + Len(q) : (p \o q)[i] = IF i <= Len(p) THEN p[i] ELSE q[i - Len(p)]
    BY ConcatProperties
  <1>3. p \o q # <<>> BY <1>1, <1>2
  <1>4. GetsFirst(p \o q) BY <1>1, <1>2 DEF GetsFirst
  <1>5. ASSUME NEW i \in 1 .. Len(p) + Len(q), (p \o q)[i].op # "get"
        PROVE  /\ (p \o q)[i].key \in Settings
               /\ (p \o q)[i].section = SectionOf((p \o q)[i].key)
               /\ i > 1 => /\ (p \o q)[i - 1].op = "get"
                           /\ (p \o q)[i - 1].section = (p \o q)[i].section
                           /\ (p \o q)[i - 1].key = (p \o q)[i].key
    <2>1. CASE i <= Len(p)
      <3>1. i \in 1 .. Len(p) /\ (p \o q)[i] = p[i] BY <1>1, <1>2, <2>1
      <3>2. ASSUME i > 1 PROVE (p \o q)[i - 1] = p[i - 1]
        <4>1. i - 1 \in 1 .. Len(p) + Len(q) /\ i - 1 <= Len(p) BY <1>1, <2>1, <3>2
        <4> QED BY <1>2, <4>1
      <3> QED BY <1>5, <3>1, <3>2 DEF Paired
    <2>2. CASE ~(i <= Len(p))
      <3>1. i - Len(p) \in 1 .. Len(q) /\ (p \o q)[i] = q[i - Len(p)] BY <1>1, <1>2, <2>2
      <3>2. i - Len(p) # 1 BY <1>1, <1>5, <3>1 DEF GetsFirst
      <3>3. i - Len(p) > 1 /\ i - 1 \in 1 .. Len(p) + Len(q) /\ ~(i - 1 <= Len(p))
            /\ i - 1 - Len(p) = i - Len(p) - 1
        BY <1>1, <3>1, <3>2
      <3>4. (p \o q)[i - 1] = q[i - Len(p) - 1] BY <1>2, <3>3
      <3> QED BY <1>5, <3>1, <3>3, <3>4 DEF Paired
    <2> QED BY <2>1, <2>2
  <1>6. Paired(p \o q) BY <1>2, <1>5 DEF Paired
  <1> QED BY <1>2, <1>3, <1>4, <1>6

LEMMA ProgramsPaired ==
    ASSUME NEW p \in Programs
    PROVE  p \in Seq(Calls) /\ Paired(p) /\ GetsFirst(p)
  <1> DEFINE Good(q) == q \in Seq(Calls) /\ q # <<>> /\ Paired(q) /\ GetsFirst(q)
  <1>1. ASSUME NEW op \in {"use", "int", "need"}, NEW k \in Settings, NEW s, s = SectionOf(k)
        PROVE  Good(GetAnd(op, s, k))
    <2>1. GetAnd(op, s, k) # <<>> BY DEF GetAnd
    <2> QED BY <1>1, <2>1, GetAndPaired
  <1>2. ASSUME NEW q, NEW r, Good(q), Good(r) PROVE Good(q \o r)
    BY <1>2, ConcatPaired
  <1> HIDE DEF Good
  <1>3. /\ Good(GetAnd("use", "system", "daemon")) /\ Good(GetAnd("use", "system", "net_type"))
        /\ Good(GetAnd("int", "system", "worker")) /\ Good(GetAnd("int", "system", "listen"))
        /\ Good(GetAnd("use", "mongodb", "address")) /\ Good(GetAnd("use", "child", "bin_dir"))
        /\ Good(GetAnd("need", "system", "net_type")) /\ Good(GetAnd("need", "mongodb", "address"))
    BY <1>1 DEF SectionOf, Settings
  <1>4. Good(PullMain) BY <1>2, <1>3 DEF PullMain
  <1>5. Good(PulldMain) BY <1>2, <1>3 DEF PulldMain
  <1> QED BY <1>4, <1>5 DEF Programs, Good

-------------------------------------------------------------------------------
(* Types, and the buffer *)

\* No key has an "=", no value is longer than the buffer.
KeysTyped(f) ==
    \A k \in DOMAIN f : "=" \notin {k[i] : i \in DOMAIN k} /\ Len(f[k]) < ConfigLen

\* A look finds what the get before it put into the buffer.
LooksRight ==
    program # <<>> /\ Call.op # "get" => m_szKey = GetKey(Call.section, Call.key)

IniInv ==
    /\ state \in {"load", "run", "serve", "exit", "abort"}
    /\ rest \in Seq(Lines)
    /\ KeysTyped(keys) /\ \A s \in DOMAIN m_Map : KeysTyped(m_Map[s])
    /\ Len(m_szKey) < ConfigLen
    /\ DOMAIN conf \subseteq Settings /\ \A k \in DOMAIN conf : Len(conf[k]) < ConfigLen
    /\ program \in Seq(Calls) /\ Paired(program) /\ LooksRight
    /\ state \in {"load", "abort"} => GetsFirst(program) /\ DOMAIN conf = {}

\* What is left of a program is paired, too.
LEMMA TailPaired ==
    ASSUME NEW p \in Seq(Calls), p # <<>>, Paired(p)
    PROVE  /\ Tail(p) \in Seq(Calls) /\ Paired(Tail(p))
           /\ Head(p) = p[1] /\ Head(p) \in Calls
           /\ Tail(p) # <<>> /\ Head(Tail(p)).op # "get" =>
                 /\ p[1].op = "get" /\ p[1].section = Head(Tail(p)).section
                 /\ p[1].key = Head(Tail(p)).key
  <1>1. Len(p) \in Nat \ {0} OBVIOUS
  <1>2. /\ Tail(p) \in Seq(Calls) /\ Len(Tail(p)) = Len(p) - 1
        /\ \A i \in 1 .. Len(p) - 1 : Tail(p)[i] = p[i + 1]
    BY <1>1
  <1>3. ASSUME NEW i \in 1 .. Len(p) - 1
        PROVE  /\ i + 1 \in 1 .. Len(p) /\ i + 1 > 1 /\ i + 1 - 1 = i
               /\ i > 1 => i - 1 \in 1 .. Len(p) - 1 /\ i - 1 + 1 = i
    BY <1>1
  <1>4. Paired(Tail(p))
    <2>1. ASSUME NEW i \in 1 .. Len(p) - 1, Tail(p)[i].op # "get"
          PROVE  /\ Tail(p)[i].key \in Settings
                 /\ Tail(p)[i].section = SectionOf(Tail(p)[i].key)
                 /\ i > 1 => /\ Tail(p)[i - 1].op = "get"
                             /\ Tail(p)[i - 1].section = Tail(p)[i].section
                             /\ Tail(p)[i - 1].key = Tail(p)[i].key
      <3>1. Tail(p)[i] = p[i + 1] BY <1>2
      <3>2. i > 1 => Tail(p)[i - 1] = p[i] BY <1>2, <1>3
      <3> QED BY <1>3, <2>1, <3>1, <3>2 DEF Paired
    <2> QED BY <1>2, <2>1 DEF Paired
  <1>5. ASSUME Tail(p) # <<>>, Head(Tail(p)).op # "get"
        PROVE  /\ p[1].op = "get" /\ p[1].section = Head(Tail(p)).section
               /\ p[1].key = Head(Tail(p)).key
    <2>1. 2 \in 1 .. Len(p) /\ Head(Tail(p)) = p[2] BY <1>1, <1>2, <1>5
    <2> QED BY <1>5, <2>1 DEF Paired
  <1> QED BY <1>1, <1>2, <1>4, <1>5

LEMMA KeyTyped ==
    ASSUME NEW text \in Lines, Len(text) < ConfigLen, NEW f, KeysTyped(f),
           FirstEqual(text) # 0
    PROVE  KeysTyped(Put(f, SubSeq(text, 1, FirstEqual(text) - 1),
                            SubSeq(text, FirstEqual(text) + 1, Len(text))))
  <1> DEFINE e == FirstEqual(text)
             k == SubSeq(text, 1, e - 1)
             v == SubSeq(text, e + 1, Len(text))
  <1>1. /\ e \in 1 .. Len(text) /\ Len(text) \in Nat /\ ConfigLen \in Nat
        /\ \A i \in 1 .. Len(text) : text[i] = "=" => e <= i
        /\ \A i \in 1 .. Len(text) : text[i] \in Token
    BY FindIs, IniAssumption DEF FirstEqual, Lines
  <1>2. "=" \notin {k[i] : i \in DOMAIN k}
    <2> HIDE DEF e
    <2>1. /\ k \in Lines /\ Len(k) = e - 1
          /\ \A i \in 1 .. e - 1 : k[i] = text[i]
      <3>1. /\ k \in Lines /\ Len(k) = IF 1 <= e - 1 THEN e - 1 - 1 + 1 ELSE 0
            /\ \A i \in 1 .. e - 1 - 1 + 1 : k[i] = text[1 + i - 1]
        BY <1>1, SubSeqProperties DEF Lines
      <3> HIDE DEF k
      <3> QED BY <1>1, <3>1
    <2> HIDE DEF k
    <2>2. DOMAIN k = 1 .. e - 1 BY <1>1, <2>1 DEF Lines
    <2>3. ASSUME NEW i \in 1 .. e - 1 PROVE k[i] # "="
      <3>1. i \in 1 .. Len(text) /\ ~(e <= i) BY <1>1
      <3> QED BY <1>1, <2>1, <3>1
    <2> QED BY <2>2, <2>3
  <1>3. Len(v) < ConfigLen
    <2> HIDE DEF e
    <2>1. Len(v) = IF e + 1 <= Len(text) THEN Len(text) - (e + 1) + 1 ELSE 0
      BY <1>1, SubSeqProperties
    <2> HIDE DEF v
    <2> QED BY <1>1, <2>1
  <1> HIDE DEF e, k, v
  <1>4. KeysTyped(Put(f, k, v))
    <2>1. ASSUME NEW x \in DOMAIN Put(f, k, v)
          PROVE  /\ Put(f, k, v)[x] = IF x = k THEN v ELSE f[x]
                 /\ x # k => x \in DOMAIN f
      BY DEF Put
    <2> QED BY <1>2, <1>3, <2>1 DEF KeysTyped
  <1> QED BY <1>4 DEF e, k, v

\* A section is put into the map with its keys.
LEMMA SectionTyped ==
    ASSUME NEW m, \A s \in DOMAIN m : KeysTyped(m[s]), NEW t, NEW f, KeysTyped(f)
    PROVE  \A s \in DOMAIN Put(m, t, f) : KeysTyped(Put(m, t, f)[s])
  <1> SUFFICES ASSUME NEW s \in DOMAIN Put(m, t, f) PROVE KeysTyped(Put(m, t, f)[s])
    OBVIOUS
  <1>1. Put(m, t, f)[s] = IF s = t THEN f ELSE m[s] BY DEF Put
  <1>2. s # t => s \in DOMAIN m BY DEF Put
  <1> QED BY <1>1, <1>2

LEMMA NoKeysTyped == KeysTyped(NoKeys)
  BY DEF KeysTyped, NoKeys

\* GetKey copies no more than the buffer holds.
LEMMA GetKeyFits ==
    ASSUME IniInv, NEW s, NEW k
    PROVE  Len(GetKey(s, k)) < ConfigLen
  <1>1. Len(<<>>) = 0 /\ 0 < ConfigLen BY IniAssumption
  <1> QED BY <1>1 DEF GetKey, IniInv, KeysTyped

LEMMA AppendTyped ==
    ASSUME NEW line \in Lines
    PROVE  Append(line, "\n") \in Lines
  <1>1. "\n" \in Token BY DEF Token
  <1> QED BY <1>1 DEF Lines

LEMMA FilesTyped == \A f \in Files : f \in Seq(Lines)
  <1>1. Seq(Seq(STRING)) \subseteq Seq(Lines)
    <2>1. STRING \subseteq Token BY DEF Token
    <2>2. ASSUME NEW S, NEW T, S \subseteq T PROVE Seq(S) \subseteq Seq(T) BY <2>2
    <2>3. Seq(STRING) \subseteq Lines BY <2>1, <2>2 DEF Lines
    <2> QED BY <2>2, <2>3
  <1> QED BY <1>1, FilesAssumption

LEMMA InitIni == IniInit => IniInv
  <1> SUFFICES ASSUME IniInit PROVE IniInv
    OBVIOUS
  <1>1. file \in Seq(Lines) BY FilesTyped DEF IniInit
  <1>2. rest \in Seq(Lines)
    <2>1. \A i \in DOMAIN file : Append(file[i], "\n") \in Lines BY <1>1, AppendTyped
    <2>2. rest = [i \in 1 .. Len(file) |-> Append(file[i], "\n")] /\ Len(file) \in Nat
      BY <1>1 DEF IniInit
    <2> QED BY <1>1, <2>1, <2>2
  <1>3. KeysTyped(keys) /\ \A s \in DOMAIN m_Map : KeysTyped(m_Map[s])
    BY NoKeysTyped DEF IniInit, NoKeys
  <1>4. Len(m_szKey) < ConfigLen BY IniAssumption DEF IniInit
  <1>5. DOMAIN conf = {} BY DEF IniInit, NoKeys
  <1>6. program \in Seq(Calls) /\ Paired(program) /\ GetsFirst(program)
    BY ProgramsPaired DEF IniInit
  <1>7. LooksRight
    <2>1. program # <<>> => Call = program[1] BY <1>6 DEF Call
    <2> QED BY <1>6, <2>1 DEF LooksRight, GetsFirst
  <1> QED BY <1>2, <1>3, <1>4, <1>5, <1>6, <1>7 DEF IniInv, IniInit

LEMMA NextIni == IniInv /\ [IniNext]_ivars => IniInv'
  <1> SUFFICES ASSUME IniInv, [IniNext]_ivars PROVE IniInv'
    OBVIOUS
  <1>g. ASSUME state = "load" PROVE program # <<>> => Call.op = "get"
    BY <1>g DEF IniInv, GetsFirst, Call
  <1>1. CASE UNCHANGED ivars BY <1>1 DEF ivars, IniInv, LooksRight, Call, GetKey
  <1>2. CASE LoadSection
    <2>1. /\ state = "load" /\ rest # <<>> /\ state' \in {"load", "abort"} /\ rest' = Unread
          /\ UNCHANGED <<program, m_szKey, conf>>
          /\ \/ m_Map' = Put(m_Map, section, keys) /\ keys' = NoKeys
             \/ UNCHANGED <<m_Map, keys>>
      BY <1>2 DEF LoadSection
    <2>2. rest' \in Seq(Lines) BY <2>1, PieceIs DEF IniInv
    <2>3. KeysTyped(keys') BY <2>1, NoKeysTyped DEF IniInv
    <2>4. \A s \in DOMAIN m_Map' : KeysTyped(m_Map'[s]) BY <2>1, SectionTyped DEF IniInv
    <2>5. LooksRight' BY <1>g, <2>1 DEF LooksRight, Call
    <2>6. KeysTyped(keys)' BY <2>3 DEF KeysTyped
    <2>7. (\A s \in DOMAIN m_Map : KeysTyped(m_Map[s]))' BY <2>4 DEF KeysTyped
    <2> QED BY <2>1, <2>2, <2>5, <2>6, <2>7 DEF IniInv
  <1>3. CASE LoadKey
    <2>1. /\ state = "load" /\ rest # <<>> /\ rest' = Unread
          /\ UNCHANGED <<program, m_Map, m_szKey, conf, state>>
          /\ \/ keys' = keys
             \/ /\ FirstEqual(Piece) # 0
                /\ keys' = Put(keys, SubSeq(Piece, 1, FirstEqual(Piece) - 1),
                                     SubSeq(Piece, FirstEqual(Piece) + 1, Len(Piece)))
      BY <1>3 DEF LoadKey
    <2>2. rest' \in Seq(Lines) /\ Piece \in Lines /\ Len(Piece) < ConfigLen
      BY <2>1, PieceIs DEF IniInv
    <2>3. KeysTyped(keys') BY <2>1, <2>2, KeyTyped DEF IniInv
    <2>4. LooksRight' BY <1>g, <2>1 DEF LooksRight, Call
    <2>5. KeysTyped(keys)' BY <2>3 DEF KeysTyped
    <2>6. (\A s \in DOMAIN m_Map : KeysTyped(m_Map[s]))' BY <2>1 DEF KeysTyped, IniInv
    <2> QED BY <2>1, <2>2, <2>4, <2>5, <2>6 DEF IniInv
  <1>4. CASE LoadEnd
    <2>1. /\ state = "load" /\ state' = "run" /\ m_Map' = Put(m_Map, section, keys)
          /\ UNCHANGED <<program, rest, keys, m_szKey, conf>>
      BY <1>4 DEF LoadEnd
    <2>2. \A s \in DOMAIN m_Map' : KeysTyped(m_Map'[s]) BY <2>1, SectionTyped DEF IniInv
    <2>3. LooksRight' BY <1>g, <2>1 DEF LooksRight, Call
    <2>4. KeysTyped(keys)' BY <2>1 DEF KeysTyped, IniInv
    <2>5. (\A s \in DOMAIN m_Map : KeysTyped(m_Map[s]))' BY <2>2 DEF KeysTyped
    <2> QED BY <2>1, <2>3, <2>4, <2>5 DEF IniInv
  <1>5. CASE CallGet
    <2>1. /\ state = "run" /\ program # <<>> /\ Call.op = "get"
          /\ m_szKey' = GetKey(Call.section, Call.key) /\ program' = Tail(program)
          /\ UNCHANGED <<rest, m_Map, keys, conf, state>>
      BY <1>5 DEF CallGet
    <2>2. program' \in Seq(Calls) /\ Paired(program')
      BY <2>1, TailPaired DEF IniInv
    <2>3. Len(m_szKey') < ConfigLen BY <2>1, GetKeyFits
    <2>4. LooksRight'
      <3>1. ASSUME program' # <<>>, Head(program').op # "get"
            PROVE  /\ Call.section = Head(program').section
                   /\ Call.key = Head(program').key
        BY <2>1, <3>1, TailPaired DEF IniInv, Call
      <3> QED BY <2>1, <3>1 DEF LooksRight, Call, GetKey
    <2>5. KeysTyped(keys)' /\ (\A s \in DOMAIN m_Map : KeysTyped(m_Map[s]))'
      BY <2>1 DEF KeysTyped, IniInv
    <2>6. Paired(program)' BY <2>2 DEF Paired
    <2> QED BY <2>1, <2>2, <2>3, <2>4, <2>5, <2>6 DEF IniInv
  <1>6. CASE CallLook
    <2>1. /\ state = "run" /\ program # <<>> /\ Call.op # "get"
          /\ conf' = Put(conf, Call.key, m_szKey) /\ state' \in {"run", "exit"}
          /\ program' = Tail(program)
          /\ UNCHANGED <<rest, m_Map, keys, m_szKey>>
      BY <1>6 DEF CallLook
    <2>2. /\ program' \in Seq(Calls) /\ Paired(program') /\ Call = program[1]
          /\ program' # <<>> => Head(program').op = "get"
      BY <2>1, TailPaired DEF IniInv, Call
    <2>3. Call.key \in Settings
      <3>1. 1 \in 1 .. Len(program) BY <2>1 DEF IniInv
      <3> QED BY <2>1, <2>2, <3>1 DEF IniInv, Paired
    <2>4. DOMAIN conf' \subseteq Settings /\ \A k \in DOMAIN conf' : Len(conf'[k]) < ConfigLen
      <3>1. DOMAIN conf' = DOMAIN conf \cup {Call.key} BY <2>1 DEF Put
      <3>2. \A k \in DOMAIN conf' : conf'[k] = IF k = Call.key THEN m_szKey ELSE conf[k]
        BY <2>1 DEF Put
      <3> QED BY <2>3, <3>1, <3>2 DEF IniInv
    <2>5. LooksRight' BY <2>2 DEF LooksRight, Call
    <2>6. KeysTyped(keys)' /\ (\A s \in DOMAIN m_Map : KeysTyped(m_Map[s]))'
      BY <2>1 DEF KeysTyped, IniInv
    <2>7. Paired(program)' BY <2>2 DEF Paired
    <2> QED BY <2>1, <2>2, <2>4, <2>5, <2>6, <2>7 DEF IniInv
  <1>7. CASE Serve
    <2>1. /\ state = "run" /\ state' = "serve"
          /\ UNCHANGED <<program, rest, m_Map, keys, m_szKey, conf>>
      BY <1>7 DEF Serve
    <2>2. KeysTyped(keys)' /\ (\A s \in DOMAIN m_Map : KeysTyped(m_Map[s]))'
      BY <2>1 DEF KeysTyped, IniInv
    <2>3. LooksRight' BY <2>1 DEF LooksRight, Call, GetKey, IniInv
    <2> QED BY <2>1, <2>2, <2>3 DEF IniInv
  <1> QED BY <1>1, <1>2, <1>3, <1>4, <1>5, <1>6, <1>7 DEF IniNext

LEMMA IniInvariant == IniSpec => []IniInv
  BY InitIni, NextIni, PTL DEF IniSpec

\* Whatever the file, no key has an "=", and what a program takes fits the buffer
\* (CIniReader::Load, main).
THEOREM IniTypeCorrect == IniSpec => []IniTypeOK
  <1>1. IniInv => IniTypeOK
    <2>1. SUFFICES ASSUME IniInv PROVE IniTypeOK
      OBVIOUS
    <2>2. \A f \in {keys} \cup {m_Map[s] : s \in DOMAIN m_Map} : KeysTyped(f)
      BY <2>1 DEF IniInv
    <2> QED BY <2>1, <2>2 DEF IniInv, IniTypeOK, KeysTyped, Settings
  <1> QED BY <1>1, IniInvariant, PTL

\* However long the lines of the file are, the strcpy of GetKey stays within the buffer:
\* fgets has cut them (CIniReader::Load, CIniReader::GetKey).
THEOREM BufferCorrect == IniSpec => []BufferHolds
  <1>1. IniInv => BufferHolds BY DEF IniInv, BufferHolds
  <1> QED BY <1>1, IniInvariant, PTL

-------------------------------------------------------------------------------
(* The lines of a plain file *)

Plains == {line \in Lines : PlainLine(line) /\ \A i \in DOMAIN line : line[i] # "\n"}

\* The text of a line is the line, or the line but its last token.
LEMMA TextIs ==
    ASSUME NEW line \in Lines
    PROVE  /\ Text(line) \in Lines /\ Len(Text(line)) \in Nat
           /\ \/ ~EndsWithReturn(line) /\ Text(line) = line
              \/ /\ line # <<>> /\ line[Len(line)] = "\r"
                 /\ Text(line) = SubSeq(line, 1, Len(line) - 1)
                 /\ Len(Text(line)) = Len(line) - 1
           /\ \A i \in 1 .. Len(Text(line)) : i \in 1 .. Len(line) /\ Text(line)[i] = line[i]
  <1>1. Len(line) \in Nat /\ line \in Seq(Token) BY DEF Lines
  <1>2. CASE ~EndsWithReturn(line) BY <1>1, <1>2 DEF Text
  <1>3. CASE EndsWithReturn(line)
    <2>1. line # <<>> /\ line[Len(line)] = "\r" /\ Len(line) # 0
      BY <1>1, <1>3 DEF EndsWithReturn, Last
    <2>2. Text(line) = SubSeq(line, 1, Len(line) - 1) BY <1>3 DEF Text, Front
    <2>3. \A i \in 1 .. Len(line) - 1 : line[i] \in Token BY <1>1
    <2>4. /\ Text(line) \in Lines
          /\ Len(Text(line)) = IF 1 <= Len(line) - 1 THEN Len(line) - 1 - 1 + 1 ELSE 0
          /\ \A i \in 1 .. Len(line) - 1 - 1 + 1 : Text(line)[i] = line[1 + i - 1]
      BY <1>1, <2>1, <2>2, <2>3, SubSeqProperties DEF Lines
    <2> HIDE DEF Text
    <2>5. Len(Text(line)) = Len(line) - 1
      <3>1. Len(line) - 1 - 1 + 1 = Len(line) - 1 BY <1>1
      <3>2. ~(1 <= Len(line) - 1) => Len(line) - 1 = 0
        <4>1. Len(line) \in Nat /\ Len(line) # 0 BY <1>1, <2>1
        <4> QED BY <4>1
      <3> QED BY <2>4, <3>1, <3>2
    <2>6. ASSUME NEW i \in 1 .. Len(line) - 1
          PROVE  i \in 1 .. Len(line) /\ Text(line)[i] = line[i]
      <3>1. 1 + i - 1 = i /\ i \in 1 .. Len(line) - 1 - 1 + 1 BY <1>1
      <3> QED BY <1>1, <2>4, <3>1
    <2> QED BY <1>1, <2>1, <2>2, <2>4, <2>5, <2>6
  <1> QED BY <1>2, <1>3

\* A plain line is read in one piece, which is its text.
LEMMA PlainPiece ==
    ASSUME rest \in Seq(Lines), rest # <<>>, NEW line \in Plains,
           Head(rest) = Append(line, "\n")
    PROVE  Piece = Text(line) /\ Unread = Tail(rest)
  <1>1. /\ line \in Lines /\ Len(line) \in Nat /\ Len(line) < ConfigLen - 1
        /\ ConfigLen \in Nat /\ Head(rest) \in Lines
        /\ \A i \in 1 .. Len(line) : line[i] # "\n" /\ (line[i] = "\r" => i = Len(line))
    BY IniAssumption DEF Plains, PlainLine, Lines
  <1>2. /\ Len(Head(rest)) = Len(line) + 1 /\ Head(rest)[Len(line) + 1] = "\n"
        /\ \A i \in 1 .. Len(line) : Head(rest)[i] = line[i]
    <2>1. "\n" \in Token /\ line \in Seq(Token) BY <1>1 DEF Token, Lines
    <2> QED BY <1>1, <2>1, AppendProperties
  <1>3. PieceLen = Len(Head(rest)) BY <1>1, <1>2 DEF PieceLen
  <1>4. SubSeq(Head(rest), 1, PieceLen) = Head(rest) BY <1>1, <1>3 DEF Lines
  <1>5. Erase(Head(rest), "\n") = line
    <2>1. \A i \in 1 .. Len(Head(rest)) : Head(rest)[i] = "\n" => i = Len(Head(rest))
      BY <1>1, <1>2
    <2>2. Head(rest) # <<>> BY <1>1, <1>2
    <2>3. Erase(Head(rest), "\n") = SubSeq(Head(rest), 1, Len(line))
      <3>1. Head(rest)[Len(Head(rest))] = "\n" BY <1>2
      <3>2. Erase(Head(rest), "\n") = SubSeq(Head(rest), 1, Len(Head(rest)) - 1)
        BY <1>1, <2>1, <2>2, <3>1, EraseLast
      <3>3. Len(Head(rest)) - 1 = Len(line) BY <1>1, <1>2
      <3> QED BY <3>2, <3>3
    <2>4. SubSeq(Append(line, "\n"), 1, Len(line)) = line BY <1>1 DEF Lines
    <2> QED BY <2>3, <2>4
  <1>6. Erase(line, "\r") = Text(line)
    <2>1. CASE EndsWithReturn(line)
      <3>1. line # <<>> /\ line[Len(line)] = "\r" BY <1>1, <2>1 DEF EndsWithReturn, Last
      <3>2. Erase(line, "\r") = SubSeq(line, 1, Len(line) - 1)
        BY <1>1, <3>1, EraseLast
      <3> QED BY <2>1, <3>2 DEF Text, Front
    <2>2. CASE ~EndsWithReturn(line)
      <3>1. ASSUME NEW i \in 1 .. Len(line) PROVE line[i] # "\r"
        <4>1. line # <<>> BY <1>1
        <4>2. line[Len(line)] # "\r" BY <2>2, <4>1 DEF EndsWithReturn, Last
        <4> QED BY <1>1, <4>2
      <3>2. Erase(line, "\r") = line BY <1>1, <3>1, EraseIs
      <3> QED BY <2>2, <3>2 DEF Text
    <2> QED BY <2>1, <2>2
  <1>7. Piece = Text(line) BY <1>4, <1>5, <1>6 DEF Piece
  <1> QED BY <1>3, <1>7 DEF Unread

\* In a plain file a piece starts a section when it is a header.
LEMMA PlainHeader ==
    ASSUME NEW line \in Plains
    PROVE  StartsSection(Text(line)) <=> IsHeader(Text(line))
  <1> DEFINE text == Text(line)
  <1>1. text \in Lines /\ Len(text) \in Nat
        /\ \A i \in 1 .. Len(text) : i \in 1 .. Len(line) /\ text[i] = line[i]
    BY TextIs DEF Plains
  <1>2. CASE IsHeader(text)
    <2> HIDE DEF text
    <2>1. 1 \in 1 .. Len(text) /\ Len(text) \in 1 .. Len(text) BY <1>1, <1>2 DEF IsHeader
    <2>2. Find(text, "[") # 0 BY <1>1, <1>2, <2>1, FindIs DEF IsHeader
    <2>3. Find(text, "]") # 0 BY <1>1, <1>2, <2>1, FindIs DEF IsHeader
    <2> QED BY <1>2, <2>2, <2>3 DEF StartsSection, text
  <1>3. CASE ~IsHeader(text)
    <2>1. DOMAIN line = 1 .. Len(line) BY DEF Plains, Lines
    <2>2. {"[", "]"} \cap {line[i] : i \in DOMAIN line} = {}
      BY <1>3 DEF Plains, PlainLine
    <2>3. \A i \in 1 .. Len(line) : line[i] # "[" BY <2>1, <2>2
    <2> HIDE DEF text
    <2>4. \A i \in 1 .. Len(text) : text[i] # "[" BY <1>1, <2>3
    <2>5. Find(text, "[") = 0 BY <1>1, <2>4, FindIs
    <2> QED BY <1>3, <2>5 DEF StartsSection, text
  <1> QED BY <1>2, <1>3

\* The two erase calls leave the name of the section.
LEMMA HeaderName ==
    ASSUME NEW text \in Lines, IsHeader(text), NEW s
    PROVE  /\ Find(text, "[") = 1 /\ Find(text, "]") # 1
           /\ RemoveAt(RemoveAt(text, Find(text, "[")), Find(text, "]") - 1) = <<s>>
                 <=> text = <<"[", s, "]">>
  <1> DEFINE e == Find(text, "]")
             a == RemoveAt(text, 1)
             b == RemoveAt(a, e - 1)
  <1>1. /\ Len(text) \in Nat /\ Len(text) > 1 /\ text[1] = "[" /\ text[Len(text)] = "]"
        /\ 1 \in 1 .. Len(text) /\ Len(text) \in 1 .. Len(text)
    BY DEF IsHeader, Lines
  <1>2. Find(text, "[") = 1 BY <1>1, FindIs
  <1>3. /\ e \in 1 .. Len(text) /\ text[e] = "]" /\ e # 1
    BY <1>1, FindIs
  <1> HIDE DEF e
  <1>4. /\ a \in Lines /\ Len(a) = Len(text) - 1
        /\ \A j \in 1 .. Len(text) - 1 : a[j] = text[j + 1]
    <2>1. /\ a \in Lines /\ Len(a) = Len(text) - 1
          /\ \A j \in 1 .. Len(text) - 1 : a[j] = IF j < 1 THEN text[j] ELSE text[j + 1]
      BY <1>1, RemoveAtIs
    <2> HIDE DEF a
    <2>2. \A j \in 1 .. Len(text) - 1 : ~(j < 1) BY <1>1
    <2> QED BY <2>1, <2>2
  <1>5. e - 1 \in 1 .. Len(a) BY <1>1, <1>3, <1>4
  <1> HIDE DEF a
  <1>6. /\ b \in Lines /\ Len(b) = Len(text) - 2
        /\ \A j \in 1 .. Len(text) - 2 : b[j] = IF j < e - 1 THEN a[j] ELSE a[j + 1]
    <2>1. /\ b \in Lines /\ Len(b) = Len(a) - 1
          /\ \A j \in 1 .. Len(a) - 1 : b[j] = IF j < e - 1 THEN a[j] ELSE a[j + 1]
      BY <1>4, <1>5, RemoveAtIs
    <2>2. Len(a) - 1 = Len(text) - 2 BY <1>1, <1>4
    <2> HIDE DEF b
    <2> QED BY <2>1, <2>2
  <1> HIDE DEF b
  <1>7. CASE Len(text) = 3
    <2>1. text = <<text[1], text[2], text[3]>> BY <1>7 DEF Lines
    <2>2. b = <<b[1]>> BY <1>6, <1>7 DEF Lines
    <2>3. b[1] = IF 1 < e - 1 THEN text[2] ELSE text[3]
      <3>1. a[1] = text[2] /\ a[2] = text[3] BY <1>4, <1>7
      <3> QED BY <1>6, <1>7, <3>1
    <2>4. b[1] = text[2]
      <3>1. CASE 1 < e - 1 BY <2>3, <3>1
      <3>2. CASE ~(1 < e - 1)
        <4>1. e = 2 BY <1>3, <1>7, <3>2
        <4> QED BY <1>1, <1>3, <1>7, <2>3, <3>2, <4>1
      <3> QED BY <3>1, <3>2
    <2>5. text[1] = "[" /\ text[3] = "]" BY <1>1, <1>7
    <2>6. b = <<s>> <=> text[2] = s BY <2>2, <2>4
    <2>7. text = <<"[", s, "]">> <=> text[2] = s BY <2>1, <2>5
    <2> QED BY <1>2, <1>3, <2>6, <2>7 DEF a, b, e
  <1>8. CASE Len(text) # 3
    <2>1. b # <<s>>
      <3>1. Len(b) # 1 BY <1>1, <1>6, <1>8
      <3>2. Len(<<s>>) = 1 OBVIOUS
      <3> QED BY <3>1, <3>2
    <2>2. text # <<"[", s, "]">> BY <1>8
    <2> QED BY <1>2, <1>3, <2>1, <2>2 DEF a, b, e
  <1> QED BY <1>7, <1>8

\* The line gives a value to the key.
Sets(line, k) == Len(line) > 1 /\ line[1] = k /\ line[2] = "="

LEMMA SetsIsPrefix ==
    ASSUME NEW line \in Lines, NEW k
    PROVE  IsPrefix(<<k, "=">>, line) <=> Sets(line, k)
  <1>1. Len(line) \in Nat /\ line \in Seq(Token) /\ Len(<<k, "=">>) = 2 BY DEF Lines
  <1>2. SubSeq(<<k, "=">>, 1, 2) = <<k, "=">>
    <2> DEFINE S == {k, "="}
               p == <<k, "=">>
    <2>1. p \in Seq(S) /\ Len(p) = 2 /\ 1 \in Int /\ 2 \in Int OBVIOUS
    <2> HIDE DEF S, p
    <2>2. SubSeq(p, 1, Len(p)) = p BY <2>1
    <2> QED BY <2>1, <2>2 DEF p
  <1>3. CASE Len(line) > 1
    <2>1. \A i \in 1 .. 2 : line[i] \in Token BY <1>1, <1>3
    <2>2. /\ SubSeq(line, 1, 2) \in Lines /\ Len(SubSeq(line, 1, 2)) = 2
          /\ \A i \in 1 .. 2 : SubSeq(line, 1, 2)[i] = line[i]
      <3>1. /\ SubSeq(line, 1, 2) \in Lines
            /\ Len(SubSeq(line, 1, 2)) = IF 1 <= 2 THEN 2 - 1 + 1 ELSE 0
            /\ \A i \in 1 .. 2 - 1 + 1 : SubSeq(line, 1, 2)[i] = line[1 + i - 1]
        BY <1>1, <2>1, SubSeqProperties DEF Lines
      <3>2. \A i \in 1 .. 2 : i \in 1 .. 2 - 1 + 1 /\ 1 + i - 1 = i OBVIOUS
      <3> QED BY <3>1, <3>2
    <2> DEFINE a == SubSeq(line, 1, 2)
    <2> HIDE DEF a
    <2>3. a = <<line[1], line[2]>>
      <3>1. a \in Seq(Token) /\ Len(a) = 2 /\ a[1] = line[1] /\ a[2] = line[2]
        BY <2>2 DEF a, Lines
      <3> QED BY <3>1
    <2>4. <<k, "=">> = <<line[1], line[2]>> <=> line[1] = k /\ line[2] = "=" OBVIOUS
    <2>5. IsPrefix(<<k, "=">>, line) <=> <<k, "=">> = a
      BY <1>1, <1>2, <1>3 DEF IsPrefix, a
    <2> QED BY <1>3, <2>3, <2>4, <2>5 DEF Sets
  <1>4. CASE ~(Len(line) > 1) BY <1>1, <1>4 DEF IsPrefix, Sets
  <1> QED BY <1>3, <1>4

\* A carriage return at the end changes nothing of that.
LEMMA SetsText ==
    ASSUME NEW line \in Lines, NEW k \in Settings
    PROVE  Sets(Text(line), k) <=> Sets(line, k)
  <1>1. k # "\r" BY DEF Settings
  <1>2. Len(line) \in Nat BY DEF Lines
  <1>3. CASE Text(line) = line BY <1>3
  <1>4. CASE Text(line) # line
    <2>1. /\ line # <<>> /\ line[Len(line)] = "\r" /\ Len(Text(line)) = Len(line) - 1
          /\ \A i \in 1 .. Len(line) - 1 : Text(line)[i] = line[i]
      BY <1>4, TextIs
    <2>2. ASSUME Sets(line, k) PROVE Len(line) > 2
      <3>1. Len(line) # 2 BY <2>1, <2>2 DEF Sets
      <3> QED BY <1>2, <2>2, <3>1 DEF Sets
    <2>3. ASSUME Len(line) > 2
          PROVE  Len(Text(line)) > 1 /\ Text(line)[1] = line[1] /\ Text(line)[2] = line[2]
      BY <1>2, <2>1, <2>3
    <2>4. Len(Text(line)) > 1 => Len(line) > 2 BY <1>2, <2>1
    <2> QED BY <2>2, <2>3, <2>4 DEF Sets
  <1> QED BY <1>3, <1>4

\* The line is cut at its first "=".
LEMMA KeyIs ==
    ASSUME NEW text \in Lines, NEW k \in Settings, FirstEqual(text) # 0
    PROVE  LET key == SubSeq(text, 1, FirstEqual(text) - 1)
               value == SubSeq(text, FirstEqual(text) + 1, Len(text))
           IN  /\ key = <<k>> <=> Sets(text, k)
               /\ Sets(text, k) => <<k, "=">> \o value = text
  <1> DEFINE e == FirstEqual(text)
             key == SubSeq(text, 1, e - 1)
             value == SubSeq(text, e + 1, Len(text))
  <1>1. /\ e \in 1 .. Len(text) /\ Len(text) \in Nat /\ text[e] = "=" /\ k # "="
        /\ \A i \in 1 .. Len(text) : text[i] = "=" => e <= i
        /\ \A i \in 1 .. Len(text) : text[i] \in Token
    BY FindIs DEF FirstEqual, Lines, Settings
  <1> HIDE DEF e
  <1>2. ASSUME Sets(text, k) PROVE e = 2 /\ text[1] = k /\ Len(text) > 1
    <2>1. text[1] # "=" /\ text[2] = "=" /\ Len(text) > 1 BY <1>1, <1>2 DEF Sets
    <2>2. 2 \in 1 .. Len(text) BY <1>1, <2>1
    <2>3. e <= 2 /\ e # 1 BY <1>1, <2>1, <2>2
    <2> QED BY <1>1, <1>2, <2>3 DEF Sets
  <1>3. key \in Lines /\ Len(key) = e - 1 /\ \A i \in 1 .. e - 1 : key[i] = text[i]
    <2>1. /\ key \in Lines /\ Len(key) = IF 1 <= e - 1 THEN e - 1 - 1 + 1 ELSE 0
          /\ \A i \in 1 .. e - 1 - 1 + 1 : key[i] = text[1 + i - 1]
      BY <1>1, SubSeqProperties DEF Lines
    <2> HIDE DEF key
    <2> QED BY <1>1, <2>1
  <1>4. key = <<k>> <=> Sets(text, k)
    <2>1. ASSUME key = <<k>> PROVE Sets(text, k)
      <3> HIDE DEF key
      <3>1. Len(key) = 1 /\ key[1] = k BY <2>1
      <3>2. e = 2
        <4>1. e \in Int BY <1>1
        <4>2. e - 1 = 1 BY <1>3, <3>1
        <4> QED BY <4>1, <4>2
      <3> QED BY <1>1, <1>3, <3>1, <3>2 DEF Sets
    <2>2. ASSUME Sets(text, k) PROVE key = <<k>>
      <3> HIDE DEF key
      <3>1. Len(key) = 1 /\ key[1] = k BY <1>2, <1>3, <2>2
      <3>2. key \in Seq(Token) BY <1>3 DEF Lines
      <3> QED BY <3>1, <3>2
    <2> QED BY <2>1, <2>2
  <1>5. ASSUME Sets(text, k) PROVE <<k, "=">> \o value = text
    <2>1. /\ e = 2 /\ text[1] = k /\ text[2] = "=" /\ Len(text) > 1
      BY <1>2, <1>5 DEF Sets
    <2>2. /\ value \in Seq(Token) /\ Len(value) = Len(text) - 2
          /\ \A i \in 1 .. Len(text) - 2 : value[i] = text[i + 2]
      <3>1. \A i \in 3 .. Len(text) : text[i] \in Token BY <1>1
      <3>2. value = SubSeq(text, 3, Len(text)) BY <2>1
      <3>3. /\ value \in Seq(Token) /\ Len(value) = IF 3 <= Len(text) THEN Len(text) - 3 + 1 ELSE 0
            /\ \A i \in 1 .. Len(text) - 3 + 1 : value[i] = text[3 + i - 1]
        BY <1>1, <3>1, <3>2, SubSeqProperties DEF Lines
      <3>4. Len(text) - 3 + 1 = Len(text) - 2 BY <1>1
      <3> HIDE DEF value
      <3>5. ASSUME NEW i \in 1 .. Len(text) - 2 PROVE value[i] = text[i + 2]
        <4>1. 3 + i - 1 = i + 2 OBVIOUS
        <4> QED BY <3>3, <3>4, <4>1
      <3>6. Len(value) = Len(text) - 2
        <4>1. Len(text) \in Int /\ Len(text) > 1 BY <1>1, <2>1
        <4>2. \A n \in Int : n > 1 /\ ~(3 <= n) => n - 2 = 0 OBVIOUS
        <4>3. ~(3 <= Len(text)) => Len(text) - 2 = 0 BY <4>1, <4>2
        <4> QED BY <3>3, <3>4, <4>3
      <3> QED BY <3>3, <3>5, <3>6
    <2> HIDE DEF value
    <2>3. <<k, "=">> \in Seq(Token) BY <1>1, <2>1
    <2>4. /\ <<k, "=">> \o value \in Seq(Token)
          /\ Len(<<k, "=">> \o value) = Len(text)
          /\ \A i \in 1 .. Len(text) : (<<k, "=">> \o value)[i] = text[i]
      <3> DEFINE p == <<k, "=">>
      <3>1. Len(p) = 2 /\ p[1] = k /\ p[2] = "=" OBVIOUS
      <3> HIDE DEF p
      <3>2. /\ p \o value \in Seq(Token) /\ Len(p \o value) = Len(p) + Len(value)
            /\ \A i \in 1 .. Len(p) + Len(value) :
                  (p \o value)[i] = IF i <= Len(p) THEN p[i] ELSE value[i - Len(p)]
        BY <2>2, <2>3, ConcatProperties DEF p
      <3>3. Len(p) + Len(value) = Len(text) BY <1>1, <2>2, <3>1
      <3>4. ASSUME NEW i \in 1 .. Len(text) PROVE (p \o value)[i] = text[i]
        <4>1. (p \o value)[i] = IF i <= 2 THEN p[i] ELSE value[i - 2] BY <3>1, <3>2, <3>3
        <4>2. CASE i = 1 BY <2>1, <3>1, <4>1, <4>2
        <4>3. CASE i = 2 BY <2>1, <3>1, <4>1, <4>3
        <4>4. CASE i # 1 /\ i # 2
          <5>1. ~(i <= 2) /\ i - 2 \in 1 .. Len(text) - 2 /\ i - 2 + 2 = i BY <1>1, <4>4
          <5> QED BY <2>2, <4>1, <5>1
        <4> QED BY <4>2, <4>3, <4>4
      <3> QED BY <3>2, <3>3, <3>4 DEF p
    <2>5. text \in Seq(Token) BY DEF Lines
    <2>6. DOMAIN (<<k, "=">> \o value) = 1 .. Len(text) /\ DOMAIN text = 1 .. Len(text)
      BY <2>4, <2>5
    <2> QED BY <2>4, <2>5, <2>6
  <1> QED BY <1>4, <1>5 DEF e

-------------------------------------------------------------------------------
(* What the maps say of a plain file *)

\* In the definitions below f is a file, m, t and ks are m_Map, section and keys, h is
\* the line of a header or 0, n and e are last lines.

Header(f, i) == IsHeader(Text(f[i]))

\* Of the lines after h and up to n, the keys have the last value.
KeySays(f, ks, k, h, n) ==
    \/ <<k>> \notin DOMAIN ks /\ \A i \in h + 1 .. n : ~Sets(f[i], k)
    \/ /\ <<k>> \in DOMAIN ks
       /\ \E i \in h + 1 .. n :
             /\ Sets(f[i], k) /\ <<k, "=">> \o ks[<<k>>] = Text(f[i])
             /\ \A j \in i + 1 .. n : ~Sets(f[j], k)

\* A block is the lines after a header up to the next header, or to the end.
Block(f, h, n) ==
    /\ \A j \in h + 1 .. n : ~Header(f, j)
    /\ n < Len(f) => Header(f, n + 1)

\* Of the blocks before line h, the map has the last one of each section.
MapSays(f, m, s, k, h) ==
    \/ <<s>> \notin DOMAIN m /\ \A g \in 1 .. h - 1 : ~HeaderOf(f[g], s)
    \/ /\ <<s>> \in DOMAIN m
       /\ \E g \in 1 .. h - 1 :
             /\ HeaderOf(f[g], s) /\ \A j \in g + 1 .. h - 1 : ~HeaderOf(f[j], s)
             /\ \E e \in g .. h - 1 : Block(f, g, e) /\ KeySays(f, m[<<s>>], k, g, e)

\* The section being read began at line h.
SectionSays(f, t, h, n) ==
    /\ \A j \in h + 1 .. n : ~Header(f, j)
    /\ IF h = 0 THEN t = <<>> ELSE \A s \in Sections : t = <<s>> <=> HeaderOf(f[h], s)

LoadSays(f, n, m, t, ks) ==
    \E h \in 0 .. n :
        /\ SectionSays(f, t, h, n)
        /\ \A k \in Settings : KeySays(f, ks, k, h, n)
        /\ \A s \in Sections, k \in Settings : MapSays(f, m, s, k, h)

\* A line for another key, or for none, changes nothing; one for this key does.
LEMMA KeySaysNext ==
    ASSUME NEW f \in Seq(Lines), NEW n \in Nat, n + 1 <= Len(f), NEW h \in 0 .. n,
           NEW ks, NEW new, NEW k, KeySays(f, ks, k, h, n),
           \/ /\ Sets(f[n + 1], k) /\ <<k>> \in DOMAIN new
              /\ <<k, "=">> \o new[<<k>>] = Text(f[n + 1])
           \/ /\ ~Sets(f[n + 1], k) /\ (<<k>> \in DOMAIN new <=> <<k>> \in DOMAIN ks)
              /\ <<k>> \in DOMAIN ks => new[<<k>>] = ks[<<k>>]
    PROVE  KeySays(f, new, k, h, n + 1)
  <1>1. \A i \in h + 1 .. n + 1 : i = n + 1 \/ i \in h + 1 .. n OBVIOUS
  <1>2. CASE Sets(f[n + 1], k)
    <2>1. n + 1 \in h + 1 .. n + 1 /\ n + 1 + 1 .. n + 1 = {} OBVIOUS
    <2> QED BY <1>2, <2>1 DEF KeySays
  <1>3. CASE ~Sets(f[n + 1], k)
    <2>1. CASE <<k>> \notin DOMAIN ks
      <3>1. \A i \in h + 1 .. n : ~Sets(f[i], k) BY <2>1 DEF KeySays
      <3> QED BY <1>1, <1>3, <2>1, <3>1 DEF KeySays
    <2>2. CASE <<k>> \in DOMAIN ks
      <3>1. PICK i \in h + 1 .. n :
               /\ Sets(f[i], k) /\ <<k, "=">> \o ks[<<k>>] = Text(f[i])
               /\ \A j \in i + 1 .. n : ~Sets(f[j], k)
        BY <2>2 DEF KeySays
      <3>2. i \in h + 1 .. n + 1 /\ \A j \in i + 1 .. n + 1 : j = n + 1 \/ j \in i + 1 .. n
        OBVIOUS
      <3>3. \A j \in i + 1 .. n + 1 : ~Sets(f[j], k) BY <1>3, <3>1, <3>2
      <3> QED BY <1>3, <2>2, <3>1, <3>2, <3>3 DEF KeySays
    <2> QED BY <2>1, <2>2
  <1> QED BY <1>2, <1>3

\* What LoadKey makes of the keys.
WithLine(ks, text) ==
    IF FirstEqual(text) = 0 THEN ks
    ELSE Put(ks, SubSeq(text, 1, FirstEqual(text) - 1),
                 SubSeq(text, FirstEqual(text) + 1, Len(text)))

\* One line that is no header (LoadKey).
LEMMA KeyLine ==
    ASSUME NEW line \in Lines, NEW ks, NEW k \in Settings, NEW new,
           new = WithLine(ks, Text(line))
    PROVE  \/ /\ Sets(line, k) /\ <<k>> \in DOMAIN new
              /\ <<k, "=">> \o new[<<k>>] = Text(line)
           \/ /\ ~Sets(line, k) /\ (<<k>> \in DOMAIN new <=> <<k>> \in DOMAIN ks)
              /\ <<k>> \in DOMAIN ks => new[<<k>>] = ks[<<k>>]
  <1> DEFINE text == Text(line)
             e == FirstEqual(text)
             key == SubSeq(text, 1, e - 1)
             value == SubSeq(text, e + 1, Len(text))
  <1>1. text \in Lines /\ (Sets(text, k) <=> Sets(line, k)) BY TextIs, SetsText
  <1>2. CASE e = 0
    <2>1. ~Sets(line, k)
      <3>1. \A i \in 1 .. Len(text) : text[i] # "=" BY <1>1, <1>2, FindIs DEF FirstEqual
      <3>2. Len(text) \in Nat BY <1>1 DEF Lines
      <3> HIDE DEF text
      <3>3. ~Sets(text, k)
        <4>1. ASSUME Len(text) > 1 PROVE text[2] # "="
          <5>1. 2 \in 1 .. Len(text) BY <3>2, <4>1
          <5> QED BY <3>1, <5>1
        <4> QED BY <4>1 DEF Sets
      <3> QED BY <1>1, <3>3
    <2>2. new = ks BY <1>2 DEF WithLine
    <2> QED BY <2>1, <2>2
  <1>3. CASE e # 0
    <2>1. (key = <<k>> <=> Sets(text, k)) /\ (Sets(text, k) => <<k, "=">> \o value = text)
      BY <1>1, <1>3, KeyIs
    <2>2. new = Put(ks, key, value) BY <1>3 DEF WithLine
    <2> HIDE DEF key, value, e, text
    <2>3. CASE key = <<k>>
      <3>1. <<k>> \in DOMAIN new /\ new[<<k>>] = value BY <2>2, <2>3 DEF Put
      <3> QED BY <1>1, <2>1, <2>3, <3>1 DEF text
    <2>4. CASE key # <<k>>
      <3>1. /\ <<k>> \in DOMAIN new <=> <<k>> \in DOMAIN ks
            /\ <<k>> \in DOMAIN ks => new[<<k>>] = ks[<<k>>]
        BY <2>2, <2>4 DEF Put
      <3> QED BY <1>1, <2>1, <2>4, <3>1
    <2> QED BY <2>3, <2>4
  <1> QED BY <1>2, <1>3

\* The header of a section is a header.
LEMMA HeaderOfIs ==
    ASSUME NEW f, NEW i, NEW s, HeaderOf(f[i], s)
    PROVE  Header(f, i)
  BY DEF HeaderOf, Header, IsHeader

\* The section that ends at line n, at a header or the end, is put into the map.
LEMMA SectionEnds ==
    ASSUME NEW f \in Seq(Lines), NEW n \in 0 .. Len(f), n < Len(f) => Header(f, n + 1),
           NEW m, NEW t, NEW ks, LoadSays(f, n, m, t, ks),
           NEW s \in Sections, NEW k \in Settings
    PROVE  MapSays(f, Put(m, t, ks), s, k, n + 1)
  <1>1. PICK h \in 0 .. n : /\ SectionSays(f, t, h, n) /\ KeySays(f, ks, k, h, n)
                            /\ MapSays(f, m, s, k, h)
    BY DEF LoadSays
  <1>2. n \in Nat /\ h \in Nat /\ h <= n /\ n + 1 - 1 = n /\ Len(f) \in Nat OBVIOUS
  <1>3. \A j \in h + 1 .. n : ~HeaderOf(f[j], s) BY <1>1, HeaderOfIs DEF SectionSays
  <1>4. CASE t = <<s>>
    <2>1. h # 0 /\ HeaderOf(f[h], s) BY <1>1, <1>4 DEF SectionSays
    <2>2. <<s>> \in DOMAIN Put(m, t, ks) /\ Put(m, t, ks)[<<s>>] = ks BY <1>4 DEF Put
    <2>3. h \in 1 .. n /\ n \in h .. n BY <1>2, <2>1
    <2>4. Block(f, h, n) BY <1>1 DEF Block, SectionSays
    <2> QED BY <1>1, <1>2, <1>3, <2>1, <2>2, <2>3, <2>4 DEF MapSays
  <1>5. CASE t # <<s>>
    <2>1. h = 0 \/ ~HeaderOf(f[h], s) BY <1>1, <1>5 DEF SectionSays
    <2>2. \A j \in 1 .. n : j \in 1 .. h - 1 \/ (j = h /\ h # 0) \/ j \in h + 1 .. n
      BY <1>2
    <2>3. /\ <<s>> \in DOMAIN Put(m, t, ks) <=> <<s>> \in DOMAIN m
          /\ <<s>> \in DOMAIN m => Put(m, t, ks)[<<s>>] = m[<<s>>]
      BY <1>5 DEF Put
    <2>4. CASE <<s>> \notin DOMAIN m
      <3>1. \A g \in 1 .. h - 1 : ~HeaderOf(f[g], s) BY <1>1, <2>4 DEF MapSays
      <3>2. \A g \in 1 .. n : ~HeaderOf(f[g], s) BY <1>3, <2>1, <2>2, <3>1
      <3> QED BY <1>2, <2>3, <2>4, <3>2 DEF MapSays
    <2>5. CASE <<s>> \in DOMAIN m
      <3>1. PICK g \in 1 .. h - 1 :
               /\ HeaderOf(f[g], s) /\ \A j \in g + 1 .. h - 1 : ~HeaderOf(f[j], s)
               /\ \E e \in g .. h - 1 : Block(f, g, e) /\ KeySays(f, m[<<s>>], k, g, e)
        BY <1>1, <2>5 DEF MapSays
      <3>2. PICK e \in g .. h - 1 : Block(f, g, e) /\ KeySays(f, m[<<s>>], k, g, e)
        BY <3>1
      <3>3. /\ g \in 1 .. n /\ e \in g .. n
            /\ \A j \in g + 1 .. n : j \in g + 1 .. h - 1 \/ (j = h /\ h # 0) \/ j \in h + 1 .. n
        BY <1>2
      <3>4. \A j \in g + 1 .. n : ~HeaderOf(f[j], s) BY <1>3, <2>1, <3>1, <3>3
      <3> QED BY <1>2, <2>3, <2>5, <3>1, <3>2, <3>3, <3>4 DEF MapSays
    <2> QED BY <2>4, <2>5
  <1> QED BY <1>4, <1>5

\* A header begins a section without keys (LoadSection).
LEMMA HeaderRead ==
    ASSUME NEW f \in Seq(Lines), NEW n \in Nat, n + 1 <= Len(f), NEW m, NEW t, NEW ks,
           LoadSays(f, n, m, t, ks), Header(f, n + 1),
           NEW u, \A s \in Sections : u = <<s>> <=> HeaderOf(f[n + 1], s)
    PROVE  LoadSays(f, n + 1, Put(m, t, ks), u, NoKeys)
  <1>1. n \in 0 .. Len(f) /\ n + 1 \in 0 .. n + 1 /\ n + 1 # 0 /\ n + 1 + 1 .. n + 1 = {}
    OBVIOUS
  <1>2. SectionSays(f, u, n + 1, n + 1) BY <1>1 DEF SectionSays
  <1>3. \A k \in Settings : KeySays(f, NoKeys, k, n + 1, n + 1)
    BY <1>1 DEF KeySays, NoKeys
  <1>4. \A s \in Sections, k \in Settings : MapSays(f, Put(m, t, ks), s, k, n + 1)
    BY <1>1, SectionEnds
  <1> QED BY <1>1, <1>2, <1>3, <1>4 DEF LoadSays

\* Any other line belongs to the section (LoadKey).
LEMMA KeyRead ==
    ASSUME NEW f \in Seq(Lines), NEW n \in Nat, n + 1 <= Len(f), NEW m, NEW t, NEW ks,
           LoadSays(f, n, m, t, ks), ~Header(f, n + 1), NEW new,
           new = WithLine(ks, Text(f[n + 1]))
    PROVE  LoadSays(f, n + 1, m, t, new)
  <1>1. PICK h \in 0 .. n :
           /\ SectionSays(f, t, h, n) /\ \A k \in Settings : KeySays(f, ks, k, h, n)
           /\ \A s \in Sections, k \in Settings : MapSays(f, m, s, k, h)
    BY DEF LoadSays
  <1>2. /\ h \in 0 .. n + 1 /\ n + 1 \in 1 .. Len(f)
        /\ \A j \in h + 1 .. n + 1 : j = n + 1 \/ j \in h + 1 .. n
    OBVIOUS
  <1>3. SectionSays(f, t, h, n + 1) BY <1>1, <1>2 DEF SectionSays
  <1>4. ASSUME NEW k \in Settings PROVE KeySays(f, new, k, h, n + 1)
    <2>1. f[n + 1] \in Lines BY <1>2
    <2>2. \/ /\ Sets(f[n + 1], k) /\ <<k>> \in DOMAIN new
             /\ <<k, "=">> \o new[<<k>>] = Text(f[n + 1])
          \/ /\ ~Sets(f[n + 1], k) /\ (<<k>> \in DOMAIN new <=> <<k>> \in DOMAIN ks)
             /\ <<k>> \in DOMAIN ks => new[<<k>>] = ks[<<k>>]
      BY <2>1, KeyLine
    <2> QED BY <1>1, <2>2, KeySaysNext
  <1> QED BY <1>1, <1>2, <1>3, <1>4 DEF LoadSays

\* A map that has the last block of each section has what the file says.
LEMMA SaysWhatIsThere ==
    ASSUME file \in Seq(Lines), NEW s \in Sections, NEW k \in Settings,
           MapSays(file, m_Map, s, k, Len(file) + 1)
    PROVE  Says(s, k, GetKey(s, k))
  <1>1. Len(file) \in Nat /\ Len(file) + 1 - 1 = Len(file) /\ DOMAIN file = 1 .. Len(file)
        /\ \A i \in 1 .. Len(file) : file[i] \in Lines
    OBVIOUS
  <1>2. CASE <<s>> \notin DOMAIN m_Map
    <2>1. \A g \in 1 .. Len(file) : ~HeaderOf(file[g], s) BY <1>1, <1>2 DEF MapSays
    <2>2. ASSUME NEW i \in 1 .. Len(file) PROVE ~Assigns(i, s, k)
      <3>1. \A h \in 1 .. i - 1 : h \in 1 .. Len(file) BY <1>1
      <3> QED BY <2>1, <3>1 DEF Assigns, InLastBlock
    <2> QED BY <1>1, <1>2, <2>2 DEF Says, GetKey
  <1>3. CASE <<s>> \in DOMAIN m_Map
    <2>1. PICK g \in 1 .. Len(file) :
             /\ HeaderOf(file[g], s)
             /\ \A j \in g + 1 .. Len(file) : ~HeaderOf(file[j], s)
             /\ \E e \in g .. Len(file) : /\ Block(file, g, e)
                                          /\ KeySays(file, m_Map[<<s>>], k, g, e)
      BY <1>1, <1>3 DEF MapSays
    <2>2. PICK e \in g .. Len(file) : Block(file, g, e) /\ KeySays(file, m_Map[<<s>>], k, g, e)
      BY <2>1
    <2>3. ASSUME NEW i \in 1 .. Len(file)
          PROVE  Assigns(i, s, k) <=> i \in g + 1 .. e /\ Sets(file[i], k)
      <3>1. IsPrefix(<<k, "=">>, file[i]) <=> Sets(file[i], k) BY <1>1, SetsIsPrefix
      <3>2. ASSUME InLastBlock(i, s) PROVE i \in g + 1 .. e
        <4>1. PICK h \in 1 .. i - 1 :
                 /\ HeaderOf(file[h], s)
                 /\ \A j \in h + 1 .. Len(file) : ~HeaderOf(file[j], s)
                 /\ \A j \in h + 1 .. i : ~IsHeader(Text(file[j]))
          BY <3>2 DEF InLastBlock
        <4>2. h = g
          <5>1. h \in Int /\ g \in Int /\ h <= Len(file) /\ g <= Len(file) BY <1>1
          <5>2. CASE h < g
            <6>1. g \in h + 1 .. Len(file) BY <1>1, <5>1, <5>2
            <6> QED BY <2>1, <4>1, <6>1
          <5>3. CASE g < h
            <6>1. h \in g + 1 .. Len(file) BY <1>1, <5>1, <5>3
            <6> QED BY <2>1, <4>1, <6>1
          <5> QED BY <5>1, <5>2, <5>3
        <4>3. ASSUME e < i PROVE FALSE
          <5>1. e < Len(file) /\ e + 1 \in h + 1 .. i BY <1>1, <4>2, <4>3
          <5> QED BY <2>2, <4>1, <5>1 DEF Block, Header
        <4> QED BY <1>1, <4>2, <4>3
      <3>3. ASSUME i \in g + 1 .. e PROVE InLastBlock(i, s)
        <4>1. g \in 1 .. i - 1 /\ \A j \in g + 1 .. i : j \in g + 1 .. e BY <1>1, <3>3
        <4> QED BY <2>1, <2>2, <4>1 DEF InLastBlock, Block, Header
      <3> QED BY <3>1, <3>2, <3>3 DEF Assigns
    <2>4. CASE <<k>> \notin DOMAIN m_Map[<<s>>]
      <3>1. \A i \in g + 1 .. e : ~Sets(file[i], k) BY <2>2, <2>4 DEF KeySays
      <3>2. \A i \in 1 .. Len(file) : ~Assigns(i, s, k) BY <2>3, <3>1
      <3> QED BY <1>1, <2>4, <3>2 DEF Says, GetKey
    <2>5. CASE <<k>> \in DOMAIN m_Map[<<s>>]
      <3>1. PICK i \in g + 1 .. e :
               /\ Sets(file[i], k) /\ <<k, "=">> \o m_Map[<<s>>][<<k>>] = Text(file[i])
               /\ \A j \in i + 1 .. e : ~Sets(file[j], k)
        BY <2>2, <2>5 DEF KeySays
      <3>2. i \in 1 .. Len(file) /\ Assigns(i, s, k) BY <1>1, <2>3, <3>1
      <3>3. ASSUME NEW j \in i + 1 .. Len(file) PROVE ~Assigns(j, s, k)
        <4>1. j \in 1 .. Len(file) /\ (j \in g + 1 .. e => j \in i + 1 .. e) BY <1>1
        <4> QED BY <2>3, <3>1, <4>1
      <3>4. GetKey(s, k) = m_Map[<<s>>][<<k>>] BY <1>3, <2>5 DEF GetKey
      <3> QED BY <1>1, <3>1, <3>2, <3>3, <3>4 DEF Says
    <2> QED BY <2>4, <2>5
  <1> QED BY <1>2, <1>3

-------------------------------------------------------------------------------
(* What the programs take *)

\* The lines that are left, with their line feeds.
LeftOf(f, r) ==
    /\ Len(r) <= Len(f)
    /\ \A i \in 1 .. Len(r) : r[i] = Append(f[Len(f) - Len(r) + i], "\n")

MapOf(f, m) == \A s \in Sections, k \in Settings : MapSays(f, m, s, k, Len(f) + 1)

KeyOf(m, s, k) ==
    IF <<s>> \in DOMAIN m /\ <<k>> \in DOMAIN m[<<s>>] THEN m[<<s>>][<<k>>] ELSE <<>>

Taken(c, m) == \A k \in DOMAIN c : c[k] = KeyOf(m, SectionOf(k), k)

\* With lines left to read a program runs only when fopen failed.
NothingLoaded ==
    state \in {"run", "serve", "exit"} /\ rest # <<>> => m_Map = NoKeys

ConfInv ==
    /\ file \in Files
    /\ Taken(conf, m_Map)
    /\ NothingLoaded
    /\ state = "load" /\ file \in Seq(Plains) =>
          /\ LeftOf(file, rest)
          /\ LoadSays(file, Len(file) - Len(rest), m_Map, section, keys)
    /\ state \in {"run", "serve", "exit"} /\ rest = <<>> /\ file \in Seq(Plains) =>
          MapOf(file, m_Map)

\* Before the first line, and for a file that is not there, the map is empty.
LEMMA NothingRead ==
    ASSUME NEW f \in Seq(Lines)
    PROVE  LoadSays(f, 0, NoKeys, <<>>, NoKeys) /\ (f = <<>> => MapOf(f, NoKeys))
  <1>1. 0 \in 0 .. 0 /\ 0 + 1 .. 0 = {} /\ 1 .. 0 - 1 = {} /\ 1 .. 0 + 1 - 1 = {} OBVIOUS
  <1>2. SectionSays(f, <<>>, 0, 0) BY <1>1 DEF SectionSays
  <1>3. \A k \in Settings : KeySays(f, NoKeys, k, 0, 0) BY <1>1 DEF KeySays, NoKeys
  <1>4. \A s \in Sections, k \in Settings : MapSays(f, NoKeys, s, k, 0)
    BY <1>1 DEF MapSays, NoKeys
  <1>5. f = <<>> => MapOf(f, NoKeys)
    <2>1. f = <<>> => Len(f) = 0 OBVIOUS
    <2> QED BY <1>1, <2>1 DEF MapOf, MapSays, NoKeys
  <1> QED BY <1>1, <1>2, <1>3, <1>4, <1>5 DEF LoadSays

LEMMA InitConf == IniInit => ConfInv
  <1> SUFFICES ASSUME IniInit PROVE ConfInv
    OBVIOUS
  <1>1. /\ file \in Files /\ m_Map = NoKeys /\ section = <<>> /\ keys = NoKeys /\ conf = NoKeys
        /\ rest = [i \in DOMAIN file |-> Append(file[i], "\n")]
    BY DEF IniInit
  <1>2. file \in Seq(Lines) BY <1>1, FilesTyped
  <1>3. Len(rest) = Len(file) /\ Len(file) \in Nat
        /\ \A i \in 1 .. Len(file) : rest[i] = Append(file[i], "\n")
    BY <1>1, <1>2
  <1>4. LeftOf(file, rest)
    <2>1. \A i \in 1 .. Len(file) : Len(file) - Len(file) + i = i BY <1>3
    <2> QED BY <1>3, <2>1 DEF LeftOf
  <1>5. Len(file) - Len(rest) = 0 BY <1>3
  <1>6. rest = <<>> => file = <<>> BY <1>2, <1>3
  <1>7. Taken(conf, m_Map) BY <1>1 DEF Taken, NoKeys
  <1>8. NothingLoaded BY <1>1 DEF NothingLoaded
  <1> QED BY <1>1, <1>2, <1>4, <1>5, <1>6, <1>7, <1>8, NothingRead DEF ConfInv

\* One line is read: its text is the next of the file.
LEMMA LineRead ==
    ASSUME NEW f \in Seq(Plains), file = f, rest \in Seq(Lines), rest # <<>>, LeftOf(f, rest)
    PROVE  /\ Len(f) - Len(rest) \in Nat /\ Len(f) - Len(rest) + 1 <= Len(f)
           /\ f[Len(f) - Len(rest) + 1] \in Plains
           /\ Piece = Text(f[Len(f) - Len(rest) + 1])
           /\ Unread = Tail(rest)
           /\ LeftOf(f, Unread) /\ Len(f) - Len(Unread) = Len(f) - Len(rest) + 1
  <1>1. /\ Len(f) \in Nat /\ Len(rest) \in Nat /\ Len(rest) # 0 /\ Len(rest) <= Len(f)
        /\ Head(rest) = rest[1] /\ Len(Tail(rest)) = Len(rest) - 1
        /\ \A i \in 1 .. Len(rest) - 1 : Tail(rest)[i] = rest[i + 1]
    BY DEF LeftOf
  <1>2. Len(f) - Len(rest) \in Nat /\ Len(f) - Len(rest) + 1 \in 1 .. Len(f) BY <1>1
  <1>3. f[Len(f) - Len(rest) + 1] \in Plains BY <1>2
  <1>4. Head(rest) = Append(f[Len(f) - Len(rest) + 1], "\n")
    <2>1. 1 \in 1 .. Len(rest) BY <1>1
    <2> QED BY <1>1, <2>1 DEF LeftOf
  <1>5. Piece = Text(f[Len(f) - Len(rest) + 1]) /\ Unread = Tail(rest)
    BY <1>3, <1>4, PlainPiece
  <1>6. Len(f) - Len(Tail(rest)) = Len(f) - Len(rest) + 1 BY <1>1
  <1>7. LeftOf(f, Tail(rest))
    <2>1. ASSUME NEW i \in 1 .. Len(rest) - 1
          PROVE  Tail(rest)[i] = Append(f[Len(f) - Len(Tail(rest)) + i], "\n")
      <3>1. i + 1 \in 1 .. Len(rest) BY <1>1
      <3>2. Len(f) - Len(rest) + (i + 1) = Len(f) - Len(Tail(rest)) + i BY <1>1
      <3>3. rest[i + 1] = Append(f[Len(f) - Len(rest) + (i + 1)], "\n")
        BY <3>1 DEF LeftOf
      <3> QED BY <1>1, <3>2, <3>3
    <2>2. Len(Tail(rest)) <= Len(f) BY <1>1
    <2> QED BY <1>1, <2>1, <2>2 DEF LeftOf
  <1> QED BY <1>1, <1>2, <1>3, <1>5, <1>6, <1>7

LEMMA PlainsAreLines == Seq(Plains) \subseteq Seq(Lines)
  <1>1. Plains \subseteq Lines BY DEF Plains
  <1> QED BY <1>1

LEMMA NextConf == IniInv /\ ConfInv /\ [IniNext]_ivars => ConfInv'
  <1> SUFFICES ASSUME IniInv, ConfInv, [IniNext]_ivars PROVE ConfInv'
    OBVIOUS
  <1>1. CASE UNCHANGED ivars BY <1>1 DEF ivars, ConfInv, NothingLoaded
  <1>l. ASSUME state = "load", conf' = conf PROVE Taken(conf', m_Map')
    BY <1>l DEF IniInv, Taken
  <1>2. CASE LoadSection
    <2>1. /\ state = "load" /\ rest # <<>> /\ StartsSection(Piece) /\ rest' = Unread
          /\ file' = file /\ conf' = conf /\ rest \in Seq(Lines)
          /\ \/ Find(Piece, "]") = 1 /\ state' = "abort"
             \/ /\ m_Map' = Put(m_Map, section, keys) /\ keys' = NoKeys /\ state' = "load"
                /\ section' = RemoveAt(RemoveAt(Piece, Find(Piece, "[")), Find(Piece, "]") - 1)
      BY <1>2 DEF LoadSection, IniInv
    <2>2. ASSUME state' = "load", file \in Seq(Plains)
          PROVE  /\ LeftOf(file', rest')
                 /\ LoadSays(file', Len(file') - Len(rest'), m_Map', section', keys')
      <3> DEFINE n == Len(file) - Len(rest)
      <3>1. /\ LeftOf(file, rest) /\ LoadSays(file, n, m_Map, section, keys)
        BY <2>1, <2>2 DEF ConfInv
      <3>2. /\ n \in Nat /\ n + 1 <= Len(file) /\ file[n + 1] \in Plains
            /\ Piece = Text(file[n + 1])
            /\ LeftOf(file, Unread) /\ Len(file) - Len(Unread) = n + 1
        BY <2>1, <2>2, <3>1, LineRead
      <3>3. file \in Seq(Lines) BY <2>2, PlainsAreLines
      <3> HIDE DEF n
      <3>4. Header(file, n + 1) BY <2>1, <3>2, PlainHeader DEF Header
      <3>5. Piece \in Lines /\ IsHeader(Piece)
        <4>1. file[n + 1] \in Lines BY <3>2 DEF Plains
        <4> QED BY <3>2, <3>4, <4>1, TextIs DEF Header
      <3>6. \A s \in Sections : section' = <<s>> <=> HeaderOf(file[n + 1], s)
        <4>1. section' = RemoveAt(RemoveAt(Piece, Find(Piece, "[")), Find(Piece, "]") - 1)
          BY <2>1, <2>2
        <4>2. ASSUME NEW s \in Sections
              PROVE  section' = <<s>> <=> HeaderOf(file[n + 1], s)
          <5>1. section' = <<s>> <=> Piece = <<"[", s, "]">> BY <3>5, <4>1, HeaderName
          <5> QED BY <3>2, <5>1 DEF HeaderOf
        <4> QED BY <4>2
      <3>7. LoadSays(file, n + 1, Put(m_Map, section, keys), section', NoKeys)
        BY <3>1, <3>2, <3>3, <3>4, <3>6, HeaderRead
      <3>8. m_Map' = Put(m_Map, section, keys) /\ keys' = NoKeys BY <2>1, <2>2
      <3> QED BY <2>1, <3>2, <3>7, <3>8
    <2>3. state' \in {"load", "abort"} BY <2>1
    <2> QED BY <1>l, <2>1, <2>2, <2>3 DEF ConfInv, NothingLoaded
  <1>3. CASE LoadKey
    <2>1. /\ state = "load" /\ rest # <<>> /\ ~StartsSection(Piece) /\ rest' = Unread
          /\ rest \in Seq(Lines) /\ keys' = WithLine(keys, Piece)
          /\ file' = file /\ conf' = conf /\ m_Map' = m_Map /\ section' = section
          /\ state' = state
      BY <1>3 DEF LoadKey, IniInv, WithLine
    <2>2. ASSUME file \in Seq(Plains)
          PROVE  /\ LeftOf(file', rest')
                 /\ LoadSays(file', Len(file') - Len(rest'), m_Map', section', keys')
      <3> DEFINE n == Len(file) - Len(rest)
      <3>1. /\ LeftOf(file, rest) /\ LoadSays(file, n, m_Map, section, keys)
        BY <2>1, <2>2 DEF ConfInv
      <3>2. /\ n \in Nat /\ n + 1 <= Len(file) /\ file[n + 1] \in Plains
            /\ Piece = Text(file[n + 1])
            /\ LeftOf(file, Unread) /\ Len(file) - Len(Unread) = n + 1
        BY <2>1, <2>2, <3>1, LineRead
      <3>3. file \in Seq(Lines) BY <2>2, PlainsAreLines
      <3> HIDE DEF n
      <3>4. ~Header(file, n + 1) BY <2>1, <3>2, PlainHeader DEF Header
      <3>5. LoadSays(file, n + 1, m_Map, section, keys')
        <4>1. keys' = WithLine(keys, Text(file[n + 1])) BY <2>1, <3>2
        <4> QED BY <3>1, <3>2, <3>3, <3>4, <4>1, KeyRead
      <3> QED BY <2>1, <3>2, <3>5
    <2> QED BY <1>l, <2>1, <2>2 DEF ConfInv, NothingLoaded
  <1>4. CASE LoadEnd
    <2>1. /\ state = "load" /\ rest = <<>> /\ m_Map' = Put(m_Map, section, keys)
          /\ state' = "run" /\ file' = file /\ conf' = conf
      BY <1>4 DEF LoadEnd
    <2>2. ASSUME file \in Seq(Plains) PROVE MapOf(file', m_Map')
      <3>1. LoadSays(file, Len(file), m_Map, section, keys)
        <4>1. Len(file) - Len(rest) = Len(file) BY <2>1, <2>2
        <4> QED BY <2>1, <2>2, <4>1 DEF ConfInv
      <3>2. file \in Seq(Lines) BY <2>2, PlainsAreLines
      <3>3. Len(file) \in 0 .. Len(file) /\ ~(Len(file) < Len(file)) BY <3>2
      <3>4. \A s \in Sections, k \in Settings :
               MapSays(file, Put(m_Map, section, keys), s, k, Len(file) + 1)
        BY <3>1, <3>2, <3>3, SectionEnds
      <3> QED BY <2>1, <3>4 DEF MapOf
    <2>3. rest' = <<>> BY <1>4 DEF LoadEnd
    <2> QED BY <1>l, <2>1, <2>2, <2>3 DEF ConfInv, NothingLoaded
  <1>5. CASE CallGet BY <1>5 DEF CallGet, ConfInv, NothingLoaded
  <1>6. CASE CallLook
    <2>1. /\ state = "run" /\ program # <<>> /\ Call.op # "get"
          /\ conf' = Put(conf, Call.key, m_szKey) /\ state' \in {"run", "exit"}
          /\ UNCHANGED <<file, rest, m_Map>>
      BY <1>6 DEF CallLook
    <2>2. Call.section = SectionOf(Call.key)
      <3>1. 1 \in 1 .. Len(program) /\ Call = program[1] BY <2>1 DEF IniInv, Call
      <3> QED BY <2>1, <3>1 DEF IniInv, Paired
    <2>3. m_szKey = KeyOf(m_Map, SectionOf(Call.key), Call.key)
      BY <2>1, <2>2 DEF IniInv, LooksRight, GetKey, KeyOf
    <2>4. Taken(conf', m_Map')
      <3>1. \A k \in DOMAIN conf' : /\ conf'[k] = IF k = Call.key THEN m_szKey ELSE conf[k]
                                    /\ k # Call.key => k \in DOMAIN conf
        BY <2>1 DEF Put
      <3> QED BY <2>1, <2>3, <3>1 DEF ConfInv, Taken
    <2> QED BY <2>1, <2>4 DEF ConfInv, NothingLoaded
  <1>7. CASE Serve BY <1>7 DEF Serve, ConfInv, NothingLoaded
  <1> QED BY <1>1, <1>2, <1>3, <1>4, <1>5, <1>6, <1>7 DEF IniNext

\* From a plain file each program takes, for each of its settings, what the file says:
\* Load files every line under the last header before it and commits a section at the
\* next header or at the end, and no other Get comes between a setting's Get and the
\* look at the shared buffer (CIniReader::Load, CIniReader::GetKey, main).
THEOREM ConfCorrect == IniSpec => []ConfAsWritten
  <1>1. IniInv /\ ConfInv => ConfAsWritten
    <2> SUFFICES ASSUME IniInv, ConfInv, NEW k \in DOMAIN conf
                 PROVE  IF rest = <<>> THEN Plain => Says(SectionOf(k), k, conf[k])
                                       ELSE conf[k] = <<>>
      BY DEF ConfAsWritten
    <2>s. state \in {"run", "serve", "exit"} BY DEF IniInv
    <2>u. CASE rest # <<>>
      <3>1. m_Map = NoKeys BY <2>s, <2>u DEF ConfInv, NothingLoaded
      <3>2. conf[k] = KeyOf(m_Map, SectionOf(k), k) BY DEF ConfInv, Taken
      <3> QED BY <2>u, <3>1, <3>2 DEF KeyOf, NoKeys
    <2> SUFFICES ASSUME Plain, rest = <<>> PROVE Says(SectionOf(k), k, conf[k])
      BY <2>u
    <2>1. file \in Seq(Lines) BY FilesTyped DEF ConfInv
    <2>2. file \in Seq(Plains)
      <3>1. \A i \in 1 .. Len(file) : file[i] \in Plains
        BY <2>1, FilesAssumption DEF Plain, Plains, ConfInv
      <3> QED BY <2>1, <3>1
    <2>4. k \in Settings BY DEF IniInv
    <2>5. SectionOf(k) \in Sections
      <3>1. CASE k = "address" BY <3>1 DEF SectionOf, Sections
      <3>2. CASE k = "bin_dir" BY <3>2 DEF SectionOf, Sections
      <3>3. CASE k # "address" /\ k # "bin_dir" BY <3>3 DEF SectionOf, Sections
      <3> QED BY <3>1, <3>2, <3>3
    <2>6. MapSays(file, m_Map, SectionOf(k), k, Len(file) + 1)
      BY <2>2, <2>s, <2>4, <2>5 DEF ConfInv, MapOf
    <2>7. conf[k] = GetKey(SectionOf(k), k) BY DEF ConfInv, Taken, KeyOf, GetKey
    <2> QED BY <2>1, <2>4, <2>5, <2>6, <2>7, SaysWhatIsThere
  <1>2. IniInit => ConfInv BY InitConf
  <1>3. IniInv /\ ConfInv /\ [IniNext]_ivars => ConfInv' BY NextConf
  <1> QED BY <1>1, <1>2, <1>3, IniInvariant, PTL DEF IniSpec
===============================================================================
