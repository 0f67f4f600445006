----------------------------- MODULE MCIniReader -----------------------------
(***************************************************************************)
(* IniReader for TLC: the two shipped configurations, with up to two lines *)
(* added, replaced or taken out.                                           *)
(***************************************************************************)
EXTENDS IniReader

\* pull/conf/1.conf and pulld/conf/1.conf.
PullConf ==
    << <<"[", "system", "]">>,
       <<"daemon", "=", "on">>,
       <<"listen", "=", "9000">>,
       <<"net_type", "=", "bond0">>,
       <<"worker", "=", "32">>,
       <<>>,
       <<"[", "mongodb", "]">>,
       <<"#address", "=", "cluster">>,
       <<"address", "=", "uri">> >>

PulldConf ==
    << <<"[", "system", "]">>,
       <<"daemon", "=", "off">>,
       <<"net_type", "=", "ens33">>,
       <<>>,
       <<"[", "child", "]">>,
       <<"bin_dir", "=", "pull">>,
       <<>>,
       <<"[", "mongodb", "]">>,
       <<"#address", "=", "cluster">>,
       <<"address", "=", "uri">> >>

OtherLines ==
    { <<"[", "system", "]", "\r">>,
      <<"[", "mongodb", "]", "#">>,
      <<"worker", "=", "many", "\r">>,
      <<"net_type", "=", "bond1", "=", "x">>,
      <<"address", "=", "[", "v6", "]">>,
      <<"]", "address", "=", "[">>,
      <<"address", "=", "host", ",", "host", ",", "host", "?", "set", "=", "x">> }

Edits(f) ==
    {f} \cup {InsertAt(f, i, l) : i \in 1 .. Len(f) + 1, l \in OtherLines}
        \cup {ReplaceAt(f, i, l) : i \in 1 .. Len(f), l \in OtherLines}
        \cup {RemoveAt(f, i) : i \in 1 .. Len(f)}

MCFiles == UNION {Edits(f) : f \in Edits(PullConf) \cup Edits(PulldConf)}

MCNumbers == [n \in {"32", "9000"} |-> IF n = "32" THEN 32 ELSE 9000]
==============================================================================
