------------------------------- MODULE IniReader -------------------------------
(***************************************************************************)
(* The configuration file: CIniReader (the two copies are the same) and    *)
(* what main of pull, with CRestApi::init, and main of pulld read from it. *)
(* A line is a sequence of tokens: the brackets, "=", the end of line and  *)
(* words that contain none of them.  GetStr returns the one buffer of the  *)
(* reader, which the next Get overwrites; a program may use the pointer    *)
(* late.                                                                   *)
(***************************************************************************)
EXTENDS SequencesExt

CONSTANTS
    Files,      \* the configuration files, without their line feeds
    ConfigLen,  \* CONFIGLEN, in tokens
    Numbers     \* the words atoi takes for a number other than 0

ASSUME IniAssumption == ConfigLen \in Nat /\ ConfigLen > 1
ASSUME FilesAssumption ==
    \A f \in Files :
        /\ f \in Seq(Seq(STRING))
        /\ \A i \in DOMAIN f : \A j \in DOMAIN f[i] : f[i][j] # "\n"

\* A program is a sequence of calls.  get: GetStr or GetInt fills the buffer.  The
\* others look at the buffer: use; int: exit(0) on 0; need: exit(0) when empty.
Get(section, key) == [op |-> "get", section |-> section, key |-> key]
Look(op, section, key) == [op |-> op, section |-> section, key |-> key]
GetAnd(op, section, key) == <<Get(section, key), Look(op, section, key)>>

\* Mutant: net_type is used after the next GetInt.
LateNetType ==
    GetAnd("use", "system", "daemon")
        \o <<Get("system", "net_type"), Get("system", "worker"),
             Look("use", "system", "net_type"), Look("int", "system", "worker")>>
        \o GetAnd("int", "system", "listen") \o GetAnd("use", "mongodb", "address")

\* The NULL checks of net_type and address never fire: GetStr returns its buffer.
PullMain ==
    GetAnd("use", "system", "daemon") \o GetAnd("use", "system", "net_type")
        \o GetAnd("int", "system", "worker") \o GetAnd("int", "system", "listen")
        \o GetAnd("use", "mongodb", "address")

\* net_type and address are copied into strings, which are tested for empty.
PulldMain ==
    GetAnd("use", "system", "daemon") \o GetAnd("use", "child", "bin_dir")
        \o GetAnd("need", "system", "net_type") \o GetAnd("need", "mongodb", "address")

Programs == {PullMain, PulldMain}

VARIABLES
    program,   \* what is left of the program
    file,      \* the file
    rest,      \* what fgets has not returned yet
    m_Map,     \* the sections committed so far
    section,   \* szLastMainKey
    keys,      \* mLastMap
    m_szKey,   \* the buffer
    conf,      \* the values the program has looked at
    state      \* load, run, serve, exit, abort

ivars == <<program, file, rest, m_Map, section, keys, m_szKey, conf, state>>

NoKeys == [k \in {} |-> <<>>]
Put(f, k, v) == [x \in DOMAIN f \cup {k} |-> IF x = k THEN v ELSE f[x]]

IniTypeOK ==
    /\ state \in {"load", "run", "serve", "exit", "abort"}
    /\ \A f \in {keys} \cup {m_Map[s] : s \in DOMAIN m_Map} :
          \A k \in DOMAIN f : "=" \notin {k[i] : i \in DOMAIN k}
    /\ DOMAIN conf \subseteq {"daemon", "net_type", "worker", "listen", "address", "bin_dir"}
    /\ \A k \in DOMAIN conf : Len(conf[k]) < ConfigLen

-------------------------------------------------------------------------------
(* Load *)

Find(text, token) == SelectInSeq(text, LAMBDA t : t = token)
Erase(text, token) == IF Find(text, token) = 0 THEN text ELSE RemoveAt(text, Find(text, token))

IniInit ==
    /\ program \in Programs
    /\ file \in Files
    /\ rest = [i \in DOMAIN file |-> Append(file[i], "\n")]
    /\ m_Map = NoKeys
    /\ section = <<>>
    /\ keys = NoKeys
    /\ m_szKey = <<>>
    /\ conf = NoKeys
    /\ state \in {"load", "run"}    \* run: fopen failed, and nobody looks at Load's result

\* Mutant: the buffer is taken to have room for any line.
WholeLine == Len(Head(rest))

\* fgets: up to ConfigLen - 1 tokens, to the end of the line at most.
PieceLen == IF Len(Head(rest)) < ConfigLen THEN Len(Head(rest)) ELSE ConfigLen - 1
Piece == Erase(Erase(SubSeq(Head(rest), 1, PieceLen), "\n"), "\r")
Unread ==
    IF PieceLen = Len(Head(rest)) THEN Tail(rest)
    ELSE <<SubSeq(Head(rest), PieceLen + 1, Len(Head(rest)))>> \o Tail(rest)

\* A piece with both brackets, wherever they are, starts a section.
StartsSection(text) == Find(text, "[") # 0 /\ Find(text, "]") # 0

\* The first "[" is erased, then what stands one before the place of the first "]".
LoadSection ==
    /\ state = "load"
    /\ rest # <<>>
    /\ StartsSection(Piece)
    /\ IF Find(Piece, "]") = 1
       THEN \* erase(-1) throws
            state' = "abort" /\ UNCHANGED <<m_Map, keys, section>>
       ELSE /\ m_Map' = Put(m_Map, section, keys)
            /\ keys' = NoKeys
            /\ section' = RemoveAt(RemoveAt(Piece, Find(Piece, "[")), Find(Piece, "]") - 1)
            /\ UNCHANGED state
    /\ rest' = Unread
    /\ UNCHANGED <<program, file, m_szKey, conf>>

\* Mutant: the line is cut at its last "=".
LastEqual(text) == SelectLastInSeq(text, LAMBDA t : t = "=")

FirstEqual(text) == Find(text, "=")

\* key=value, nothing trimmed; a line without "=" is skipped.
LoadKey ==
    /\ state = "load"
    /\ rest # <<>>
    /\ ~StartsSection(Piece)
    /\ LET e == FirstEqual(Piece)
       IN  keys' = IF e = 0 THEN keys
                   ELSE Put(keys, SubSeq(Piece, 1, e - 1), SubSeq(Piece, e + 1, Len(Piece)))
    /\ rest' = Unread
    /\ UNCHANGED <<program, file, m_Map, section, m_szKey, conf, state>>

LoadEnd ==
    /\ state = "load"
    /\ rest = <<>>
    /\ m_Map' = Put(m_Map, section, keys)
    /\ state' = "run"
    /\ UNCHANGED <<program, file, rest, section, keys, m_szKey, conf>>

-------------------------------------------------------------------------------
(* main *)

\* GetKey: the empty string for what is not there, and always INI_SUCCESS.
GetKey(s, k) ==
    IF <<s>> \in DOMAIN m_Map /\ <<k>> \in DOMAIN m_Map[<<s>>] THEN m_Map[<<s>>][<<k>>] ELSE <<>>

Call == Head(program)

CallGet ==
    /\ state = "run"
    /\ program # <<>>
    /\ Call.op = "get"
    /\ m_szKey' = GetKey(Call.section, Call.key)
    /\ program' = Tail(program)
    /\ UNCHANGED <<file, rest, m_Map, section, keys, conf, state>>

atoi(text) == IF text # <<>> /\ Head(text) \in DOMAIN Numbers THEN Numbers[Head(text)] ELSE 0

CallLook ==
    /\ state = "run"
    /\ program # <<>>
    /\ Call.op # "get"
    /\ conf' = Put(conf, Call.key, m_szKey)
    /\ state' = IF \/ Call.op = "int" /\ atoi(m_szKey) = 0
                   \/ Call.op = "need" /\ m_szKey = <<>>
                THEN "exit" ELSE "run"
    /\ program' = Tail(program)
    /\ UNCHANGED <<file, rest, m_Map, section, keys, m_szKey>>

Serve ==
    /\ state = "run"
    /\ program = <<>>
    /\ state' = "serve"
    /\ UNCHANGED <<program, file, rest, m_Map, section, keys, m_szKey, conf>>

IniNext == LoadSection \/ LoadKey \/ LoadEnd \/ CallGet \/ CallLook \/ Serve

IniSpec == IniInit /\ [][IniNext]_ivars

-------------------------------------------------------------------------------
(* Properties *)

\* What a file says, read as a whole and not by what Load does: the last line for
\* the key in the last block of the section, or nothing.  A line may end with a
\* carriage return, which is no part of its text.
EndsWithReturn(line) == line # <<>> /\ Last(line) = "\r"
Text(line) == IF EndsWithReturn(line) THEN Front(line) ELSE line
IsHeader(line) == Len(line) > 1 /\ line[1] = "[" /\ line[Len(line)] = "]"
HeaderOf(line, s) == Text(line) = <<"[", s, "]">>

InLastBlock(i, s) ==
    \E h \in 1 .. i - 1 :
        /\ HeaderOf(file[h], s)
        /\ \A j \in h + 1 .. Len(file) : ~HeaderOf(file[j], s)
        /\ \A j \in h + 1 .. i : ~IsHeader(Text(file[j]))

Assigns(i, s, k) == InLastBlock(i, s) /\ IsPrefix(<<k, "=">>, file[i])

Says(s, k, value) ==
    \/ /\ \A i \in DOMAIN file : ~Assigns(i, s, k)
       /\ value = <<>>
    \/ \E i \in DOMAIN file :
          /\ Assigns(i, s, k)
          /\ \A j \in i + 1 .. Len(file) : ~Assigns(j, s, k)
          /\ <<k, "=">> \o value = Text(file[i])

\* A plain file: short lines, no carriage return but at their end, and no brackets
\* but around a section's name.
PlainLine(line) ==
    /\ Len(line) < ConfigLen - 1
    /\ \A i \in DOMAIN line : line[i] = "\r" => i = Len(line)
    /\ IsHeader(Text(line)) \/ {"[", "]"} \cap {line[i] : i \in DOMAIN line} = {}
Plain == \A i \in DOMAIN file : PlainLine(file[i])

SectionOf(k) ==
    CASE k = "address" -> "mongodb" [] k = "bin_dir" -> "child" [] OTHER -> "system"

\* From a plain file each program takes, for each of its settings, what the file
\* says: repeated and unfinished sections, comments, carriage returns and the
\* shared buffer that GetStr returns notwithstanding (Load, GetKey, main).  When
\* fopen failed it goes on with the empty string for every setting.
ConfAsWritten ==
    \A k \in DOMAIN conf :
        IF rest = <<>> THEN Plain => Says(SectionOf(k), k, conf[k])
                       ELSE conf[k] = <<>>

\* strcpy in GetKey stays within m_szKey, whatever the length of the file's lines.
BufferHolds == Len(m_szKey) < ConfigLen
===============================================================================
