-------------------------------- MODULE Users --------------------------------
(***************************************************************************)
(* The user table and the two services on it.  The table is the sequence   *)
(* of its rows in the order of their AUTOINCREMENT ids, so that the id of a *)
(* row is its position.  A call of SQLite may fail: fault names the call   *)
(* that fails during the request, "none" if none does.                     *)
(***************************************************************************)
EXTENDS Protocol, Integers, Sequences, FiniteSetsExt

CONSTANT string_to_lower  \* the lower case form of every name

ASSUME LowerAssumption ==
  /\ string_to_lower \in [Name -> Name]
  /\ \A n \in Name : string_to_lower[string_to_lower[n]] = string_to_lower[n]

User == [username : Name, password : Password]

(* sqlite3_prepare_v2 or sqlite3_step of the SELECT, the INSERT. *)
DbFault == {"none", "prepare", "step", "insert"}

(* Mutant: WHERE username = ?, with the stored name as it was typed. *)
Matches_AsTyped(db, lower) == {i \in DOMAIN db : db[i].username = lower}

(* The ids of the rows that WHERE LOWER(username) = ? selects. *)
Matches(db, lower) ==
  {i \in DOMAIN db : string_to_lower[db[i].username] = lower}

(***************************************************************************)
(* The return code of get_user_by_username and, with code 1, the row.  The *)
(* statement is stepped once, so the row is the first of the scan.  A step *)
(* that fails returns no row, and found stays 0.                           *)
(***************************************************************************)
get_user_by_username(db, lower, fault) ==
  CASE fault = "prepare" -> [rc |-> -1, id |-> 0]
    [] fault = "step" \/ Matches(db, lower) = {} -> [rc |-> 0, id |-> 0]
    [] OTHER -> [rc |-> 1,
                 id |-> Min(Matches(db, lower))]

(* The INSERT fails by itself when the exact name is there: UNIQUE. *)
InsertFails(db, username, fault) ==
  \/ fault = "insert"
  \/ \E i \in DOMAIN db : db[i].username = username

(***************************************************************************)
(* register_user: the response and the table after it.                     *)
(***************************************************************************)
register_user(db, req, fault) ==
  LET found == get_user_by_username(db, string_to_lower[req.username], fault)
      fails(rc) == [db |-> db, response |-> build_server_response("REGISTER", rc)]
  IN CASE ~req.parses -> fails("RESP_ERROR_MALFORMED")
       [] req.parses /\ found.rc = 1 -> fails("RESP_ERROR_USER_EXISTS")
       [] req.parses /\ found.rc = -1 -> fails("RESP_ERROR_INTERNAL")
       [] req.parses /\ found.rc = 0 /\ InsertFails(db, req.username, fault) ->
            fails("RESP_ERROR_INTERNAL")
       [] OTHER ->
            [db |-> Append(db, [username |-> req.username,
                                password |-> req.password]),
             response |-> build_user_response("REGISTER", Len(db) + 1,
                                              req.username)]

(***************************************************************************)
(* login_user: the response and, when the credentials are right, the id of *)
(* the user the connection now belongs to (0 otherwise).                   *)
(***************************************************************************)
login_user(db, req, fault) ==
  LET found == get_user_by_username(db, string_to_lower[req.username], fault)
      fails(rc) == [id |-> 0, response |-> build_server_response("LOGIN", rc)]
  IN CASE ~req.parses -> fails("RESP_ERROR_MALFORMED")
       [] req.parses /\ found.rc = 0 -> fails("RESP_ERROR_USER_NOT_FOUND")
       [] req.parses /\ found.rc = -1 -> fails("RESP_ERROR_INTERNAL")
       [] req.parses /\ found.rc = 1 /\ db[found.id].password # req.password ->
            fails("RESP_ERROR_INVALID_CREDENTIALS")
       [] OTHER ->
            [id |-> found.id,
             response |-> build_user_response("LOGIN", found.id,
                                              db[found.id].username)]

=============================================================================
