------------------------------ MODULE ProductDb ------------------------------
(***************************************************************************)
(* The product database of source/database.cpp as the registry uses it: a  *)
(* table of known product ids, which logins extend, and a table of         *)
(* crosslinks, which the server only reads.  A product code is an opaque   *)
(* value; the 9-character bound of the struct is not represented.          *)
(***************************************************************************)
CONSTANTS
  ProductCode,     \* every product code, crosslink targets included
  KnownProducts,   \* the productids table as the server finds it
  Crosslinks,      \* the crosslinks table: a partial function on ProductCode
  DatabaseExists,  \* TRUE when the constructor found database.db
  SqliteMayFail    \* TRUE when an open database may report errors (busy, read-only, I/O)

VARIABLE productids  \* the ids in the productids table

ASSUME DatabaseAssumption ==
  /\ KnownProducts \subseteq ProductCode
  /\ DOMAIN Crosslinks \subseteq ProductCode
  /\ \A c \in DOMAIN Crosslinks : Crosslinks[c] \in ProductCode
  /\ DatabaseExists \in BOOLEAN
  /\ SqliteMayFail \in BOOLEAN

(***************************************************************************)
(* The constructor opens the database when the file exists and otherwise   *)
(* leaves the handle null.                                                 *)
(***************************************************************************)
InitDb == productids = KnownProducts

(***************************************************************************)
(* External: SQLite refuses to prepare a statement on a null handle        *)
(* (SQLITE_MISUSE), and an open handle may report an error at any call.    *)
(* ckd_ turns each unexpected result into an exception.                    *)
(***************************************************************************)
LookupMayThrow == ~DatabaseExists \/ SqliteMayFail
LookupMaySucceed == DatabaseExists

\* One hop: the target of a crosslink is not itself looked up again.
apply_crosslink(code) ==
  IF code \in DOMAIN Crosslinks THEN Crosslinks[code] ELSE code

record_unknown_product(code) == productids' = productids \cup {code}

\* The name in the row of the code, or the code itself when there is no row.
display_name_for(code) == [code |-> code, from_row |-> code \in productids]

=============================================================================
