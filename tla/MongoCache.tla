------------------------------ MODULE MongoCache ------------------------------
(***************************************************************************)
(* The MongoDB collections of database pull_stream, as MongoAdaptor uses   *)
(* them (pull/src/app/mongoCommonApi.cpp).  A collection is a set of       *)
(* documents; the field id is the insertion order, which is the order in   *)
(* which a query without a sort and without an index visits them.  No      *)
(* index is ever created by this program, so nothing makes a sid unique.   *)
(* Every operation is one atomic step of the server.                       *)
(***************************************************************************)
EXTENDS Naturals

\* The documents a query {"sid": s}, or {"pid": p}, selects.
BySid(coll, s) == {d \in coll : d.sid = s}
ByPid(coll, p) == {d \in coll : d.pid = p}

\* findOne: the first document of the cursor, or none when nothing matches.
FindOne(matching) == {d \in matching : \A e \in matching : d.id <= e.id}

\* insert with MONGOC_INSERT_NONE.
Insert(coll, doc) == coll \cup {doc}

\* Mutant: remove without the flag, which removes every match.
RemoveEvery(coll, matching) == coll \ matching

\* remove with MONGOC_REMOVE_SINGLE_REMOVE: the first match only, and a
\* success when there is none.
RemoveSingle(coll, matching) == coll \ FindOne(matching)

\* update with MONGOC_UPDATE_NONE and {"$set": {"pid": p}}: no multi, so the
\* first match only, and no upsert, so nothing when there is none.
SetPid(coll, matching, p) ==
    (coll \ FindOne(matching))
        \cup {[d EXCEPT !.pid = p] : d \in FindOne(matching)}
===============================================================================
