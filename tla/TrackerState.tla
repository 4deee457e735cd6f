--------------------------- MODULE TrackerState ---------------------------
(***************************************************************************)
(* The in-memory database of one tracker: class TrackerState of            *)
(* tracker/tracker_state.{hpp,cpp}.  Every method takes __mu_lock for its   *)
(* whole body, so a method is an operator from the state before the call   *)
(* to an outcome: the Status it returns and the state it leaves behind.    *)
(* The modules that run threads over this state apply one operator per     *)
(* step.                                                                   *)
(*                                                                         *)
(* Abstractions.  A std::map is a function whose domain is the set of its  *)
(* keys.  User ids are naturals, because leave_group depends on the order  *)
(* of std::set<std::string>; all other names are opaque.  A content stands *)
(* for (size, file_hash, piece_hashes), which travel together and of which *)
(* only file_hash is compared.  An address is the pair (ip, port), a       *)
(* bitfield the set of pieces it marks.  Empty names, for which methods    *)
(* return ST_MALFORMED, are not modelled.                                  *)
(***************************************************************************)
EXTENDS Naturals, Functions

CONSTANTS
    User,       \* user ids; the order of naturals stands for the order of strings
    Group,      \* group ids
    File,       \* file names
    Password,   \* clear-text passwords
    Content,    \* file contents, as identified by their hash
    Addr,       \* addresses a client seeds at
    Piece,      \* piece indexes of a file
    Nil         \* no address, no user

ASSUME UserAssumption == User \subseteq Nat
ASSUME NilAssumption == Nil \notin User \cup Addr

----------------------------------------------------------------------------
(* Maps *)

\* The maps from keys in K to values in V.
Maps(K, V) == UNION {[D -> V] : D \in SUBSET K}

EmptyMap == [k \in {} |-> k]

\* m[k] = v, inserting k or overwriting its value.
Put(m, k, v) == [x \in DOMAIN m \cup {k} |-> IF x = k THEN v ELSE m[x]]

\* m.erase(k)
Erase(m, k) == Restrict(m, DOMAIN m \ {k})

----------------------------------------------------------------------------
(* The state *)

\* The stored form of a password: an injective digest, never the password.
hash_password(pwd) == [sha1 |-> pwd]

UserRecord == [password: {hash_password(p) : p \in Password},
               online: BOOLEAN, addr: Addr \cup {Nil}]
PeerRef == [addr: Addr, bits: SUBSET Piece]
FileMeta == [content: Content, seeders: Maps(User, PeerRef)]
GroupRecord == [owner: User, members: SUBSET User, pending: SUBSET User,
                files: Maps(File, FileMeta)]
State == [users: Maps(User, UserRecord), groups: Maps(Group, GroupRecord)]

EmptyState == [users |-> EmptyMap, groups |-> EmptyMap]

\* TrackerState::empty
IsEmpty(S) == DOMAIN S.users = {} /\ DOMAIN S.groups = {}

Fail(status, S) == [status |-> status, state |-> S]
Done(S) == [status |-> "OK", state |-> S]

SetUser(S, uid, rec) == [S EXCEPT !.users = Put(@, uid, rec)]
SetGroup(S, gid, grp) == [S EXCEPT !.groups = Put(@, gid, grp)]
SetFile(S, gid, file, meta) ==
    SetGroup(S, gid, [S.groups[gid] EXCEPT !.files = Put(@, file, meta)])

IsFile(S, gid, file) ==
    gid \in DOMAIN S.groups /\ file \in DOMAIN S.groups[gid].files

----------------------------------------------------------------------------
(* Accounts *)

create_user(S, uid, pwd) ==
    IF uid \in DOMAIN S.users THEN Fail("ALREADY_EXISTS", S)
    ELSE Done(SetUser(S, uid, [password |-> hash_password(pwd),
                               online |-> FALSE, addr |-> Nil]))

login(S, uid, pwd, addr) ==
    IF uid \notin DOMAIN S.users THEN Fail("NOT_FOUND", S)
    ELSE IF S.users[uid].password # hash_password(pwd)
         THEN Fail("BAD_CREDENTIALS", S)
    ELSE Done(SetUser(S, uid, [S.users[uid] EXCEPT !.online = TRUE,
                                                   !.addr = addr]))

\* The file record without uid among its seeders.
WithoutSeeder(meta, uid) == [meta EXCEPT !.seeders = Erase(@, uid)]

\* Slip: logout forgets the seeder lists.
EvictNobody(groups, uid) == groups

\* uid is dropped from the seeders of every file of every group.
EvictSeeder(groups, uid) ==
    [g \in DOMAIN groups |->
        [groups[g] EXCEPT !.files =
            [f \in DOMAIN groups[g].files |->
                WithoutSeeder(groups[g].files[f], uid)]]]

logout(S, uid) ==
    IF uid \notin DOMAIN S.users THEN Fail("NOT_FOUND", S)
    ELSE Done([users |-> Put(S.users, uid, [S.users[uid] EXCEPT !.online = FALSE]),
               groups |-> EvictSeeder(S.groups, uid)])

----------------------------------------------------------------------------
(* Groups *)

create_group(S, gid, owner) ==
    IF owner \notin DOMAIN S.users THEN Fail("NOT_FOUND", S)
    ELSE IF gid \in DOMAIN S.groups THEN Fail("ALREADY_EXISTS", S)
    ELSE Done(SetGroup(S, gid, [owner |-> owner, members |-> {owner},
                                pending |-> {}, files |-> EmptyMap]))

join_group(S, gid, uid) ==
    IF gid \notin DOMAIN S.groups \/ uid \notin DOMAIN S.users
    THEN Fail("NOT_FOUND", S)
    ELSE IF uid \in S.groups[gid].members \cup S.groups[gid].pending
    THEN Fail("ALREADY_EXISTS", S)
    ELSE Done(SetGroup(S, gid, [S.groups[gid] EXCEPT !.pending = @ \cup {uid}]))

\* *members.begin() of a std::set ordered by user id.
Smallest(members) == CHOOSE u \in members : \A v \in members : u <= v

\* Slip: an owner who leaves stays the owner.
WithoutHandoff(grp, uid) == [grp EXCEPT !.members = @ \ {uid}]

\* The group after uid left it: an owner hands it to the smallest member.
WithoutMember(grp, uid) ==
    LET rest == grp.members \ {uid}
    IN  [grp EXCEPT !.members = rest,
                    !.owner = IF uid = @ THEN Smallest(rest) ELSE @]

leave_group(S, gid, uid) ==
    IF gid \notin DOMAIN S.groups THEN Fail("NOT_FOUND", S)
    ELSE IF uid \notin S.groups[gid].members THEN Fail("NOT_MEMBER", S)
    ELSE IF uid = S.groups[gid].owner /\ S.groups[gid].members = {uid}
    THEN Done([S EXCEPT !.groups = Erase(@, gid)])
    ELSE Done(SetGroup(S, gid, WithoutMember(S.groups[gid], uid)))

\* Slip: the caller need not be the owner.
accept_request_by_anyone(S, gid, owner, uid) ==
    IF gid \notin DOMAIN S.groups THEN Fail("NOT_FOUND", S)
    ELSE IF uid \notin S.groups[gid].pending THEN Fail("NOT_FOUND", S)
    ELSE Done(SetGroup(S, gid, [S.groups[gid] EXCEPT !.pending = @ \ {uid},
                                                     !.members = @ \cup {uid}]))

accept_request(S, gid, owner, uid) ==
    IF gid \notin DOMAIN S.groups THEN Fail("NOT_FOUND", S)
    ELSE IF S.groups[gid].owner # owner THEN Fail("NOT_OWNER", S)
    ELSE IF uid \notin S.groups[gid].pending THEN Fail("NOT_FOUND", S)
    ELSE Done(SetGroup(S, gid, [S.groups[gid] EXCEPT !.pending = @ \ {uid},
                                                     !.members = @ \cup {uid}]))

----------------------------------------------------------------------------
(* Files *)

\* The file record with uid registered as a seeder of the pieces in bits.
WithSeeder(meta, uid, addr, bits) ==
    [meta EXCEPT !.seeders = Put(@, uid, [addr |-> addr, bits |-> bits])]

\* Slip: an upload replaces the file of that name.
add_file_overwriting(S, gid, uid, addr, file, content) ==
    IF gid \notin DOMAIN S.groups THEN Fail("NOT_FOUND", S)
    ELSE IF uid \notin S.groups[gid].members THEN Fail("NOT_MEMBER", S)
    ELSE Done(SetFile(S, gid, file,
                      WithSeeder([content |-> content, seeders |-> EmptyMap],
                                 uid, addr, Piece)))

\* An uploader starts out with every bit set; uploading the content a name
\* already has registers one more seeder, any other content is refused.
add_file(S, gid, uid, addr, file, content) ==
    IF gid \notin DOMAIN S.groups THEN Fail("NOT_FOUND", S)
    ELSE IF uid \notin S.groups[gid].members THEN Fail("NOT_MEMBER", S)
    ELSE IF ~IsFile(S, gid, file)
    THEN Done(SetFile(S, gid, file,
                      WithSeeder([content |-> content, seeders |-> EmptyMap],
                                 uid, addr, Piece)))
    ELSE IF S.groups[gid].files[file].content # content
    THEN Fail("ALREADY_EXISTS", S)
    ELSE Done(SetFile(S, gid, file,
                      WithSeeder(S.groups[gid].files[file], uid, addr, Piece)))

\* The file and its content stay when the last seeder goes.
stop_share(S, gid, uid, file) ==
    IF ~IsFile(S, gid, file) THEN Fail("NOT_FOUND", S)
    ELSE IF uid \notin DOMAIN S.groups[gid].files[file].seeders
    THEN Fail("NOT_FOUND", S)
    ELSE Done(SetFile(S, gid, file,
                      WithoutSeeder(S.groups[gid].files[file], uid)))

update_bitfield(S, gid, uid, addr, file, bits) ==
    IF gid \notin DOMAIN S.groups THEN Fail("NOT_FOUND", S)
    ELSE IF uid \notin S.groups[gid].members THEN Fail("NOT_MEMBER", S)
    ELSE IF ~IsFile(S, gid, file) THEN Fail("NOT_FOUND", S)
    ELSE Done(SetFile(S, gid, file,
                      WithSeeder(S.groups[gid].files[file], uid, addr, bits)))

----------------------------------------------------------------------------
(* Snapshots *)

\* A map written out as the list of its entries, and read back.
Entries(m) == {[key |-> k, value |-> m[k]] : k \in DOMAIN m}
FromEntries(entries) ==
    [k \in {e.key : e \in entries} |->
        (CHOOSE e \in entries : e.key = k).value]

FileBlob == [content: Content, seeders: SUBSET [key: User, value: PeerRef]]
GroupBlob == [owner: User, members: SUBSET User, pending: SUBSET User,
              files: SUBSET [key: File, value: FileBlob]]
Blob == [users: SUBSET [key: User, value: UserRecord],
         groups: SUBSET [key: Group, value: GroupBlob]]

FileEntry(meta) ==
    [content |-> meta.content, seeders |-> Entries(meta.seeders)]
GroupEntry(grp) ==
    [owner |-> grp.owner, members |-> grp.members, pending |-> grp.pending,
     files |-> Entries([f \in DOMAIN grp.files |-> FileEntry(grp.files[f])])]

\* Every account, session data included, and every group with its files.
snapshot(S) ==
    [users |-> Entries(S.users),
     groups |-> Entries([g \in DOMAIN S.groups |-> GroupEntry(S.groups[g])])]

FileOf(entry) ==
    [content |-> entry.content, seeders |-> FromEntries(entry.seeders)]
GroupOf(entry) ==
    LET files == FromEntries(entry.files)
    IN  [owner |-> entry.owner, members |-> entry.members,
         pending |-> entry.pending,
         files |-> [f \in DOMAIN files |-> FileOf(files[f])]]

restore(blob) ==
    LET groups == FromEntries(blob.groups)
    IN  [users |-> FromEntries(blob.users),
         groups |-> [g \in DOMAIN groups |-> GroupOf(groups[g])]]

----------------------------------------------------------------------------
(* Operations *)

\* The replicated operations, as their payloads carry them: what the client
\* asked, the user of its session and, for shares, where it seeds.
Op == [type: {"CREATE_USER"}, uid: User, pwd: Password]
      \cup [type: {"CREATE_GROUP", "JOIN_GROUP", "LEAVE_GROUP"},
            gid: Group, uid: User]
      \cup [type: {"ACCEPT_REQUEST"}, gid: Group, owner: User, uid: User]
      \cup [type: {"UPLOAD_FILE"}, gid: Group, file: File, content: Content,
            uid: User, addr: Addr]
      \cup [type: {"STOP_SHARE"}, gid: Group, file: File, uid: User]
      \cup [type: {"HAVE_PIECES"}, gid: Group, file: File, bits: SUBSET Piece,
            uid: User, addr: Addr]

\* The method each operation calls, the same one for a client's request
\* (Session::dispatch) and for its replay (SyncManager::apply_remote).
Execute(S, op) ==
    CASE op.type = "CREATE_USER"    -> create_user(S, op.uid, op.pwd)
      [] op.type = "CREATE_GROUP"   -> create_group(S, op.gid, op.uid)
      [] op.type = "JOIN_GROUP"     -> join_group(S, op.gid, op.uid)
      [] op.type = "LEAVE_GROUP"    -> leave_group(S, op.gid, op.uid)
      [] op.type = "ACCEPT_REQUEST" -> accept_request(S, op.gid, op.owner, op.uid)
      [] op.type = "UPLOAD_FILE"    ->
            add_file(S, op.gid, op.uid, op.addr, op.file, op.content)
      [] op.type = "STOP_SHARE"     -> stop_share(S, op.gid, op.uid, op.file)
      [] op.type = "HAVE_PIECES"    ->
            update_bitfield(S, op.gid, op.uid, op.addr, op.file, op.bits)

\* The failures apply_remote takes as "already applied".
Benign(type) ==
    CASE type \in {"CREATE_USER", "CREATE_GROUP", "JOIN_GROUP", "UPLOAD_FILE"}
            -> {"OK", "ALREADY_EXISTS"}
      [] type = "LEAVE_GROUP"                      -> {"OK", "NOT_MEMBER"}
      [] type \in {"ACCEPT_REQUEST", "STOP_SHARE"} -> {"OK", "NOT_FOUND"}
      [] type = "HAVE_PIECES"                      -> {"OK"}

\* Slips: apply_remote has no case for one type of operation.
apply_remote_without_leave(S, op) ==
    IF op.type = "LEAVE_GROUP" THEN [ok |-> TRUE, state |-> S]
    ELSE [ok |-> TRUE, state |-> Execute(S, op).state]

apply_remote_without_have(S, op) ==
    IF op.type = "HAVE_PIECES" THEN [ok |-> FALSE, state |-> S]
    ELSE [ok |-> TRUE, state |-> Execute(S, op).state]

apply_remote(S, op) ==
    LET outcome == Execute(S, op)
    IN  [ok |-> outcome.status \in Benign(op.type), state |-> outcome.state]

----------------------------------------------------------------------------
(* Consistency *)

\* A group is owned by one of its members, nobody is both a member and an
\* applicant, and it mentions registered users only, as do its files.
GroupConsistent(grp, registered) ==
    /\ grp.owner \in grp.members
    /\ grp.members \cap grp.pending = {}
    /\ grp.members \cup grp.pending \subseteq registered
    /\ \A f \in DOMAIN grp.files : DOMAIN grp.files[f].seeders \subseteq registered

Consistent(S) ==
    \A g \in DOMAIN S.groups : GroupConsistent(S.groups[g], DOMAIN S.users)

\* The users listed as seeders anywhere.
SeedersOf(S) ==
    UNION {UNION {DOMAIN S.groups[g].files[f].seeders :
                     f \in DOMAIN S.groups[g].files} : g \in DOMAIN S.groups}

----------------------------------------------------------------------------
(* Agreement *)

\* The parts of the state that are replicated: accounts without their
\* session, groups with their membership, and files.
SameAccounts(S, R) ==
    /\ DOMAIN S.users = DOMAIN R.users
    /\ \A u \in DOMAIN S.users : S.users[u].password = R.users[u].password

\* Logouts are not replicated: the replica may list more seeders.
SameFiles(files, others) ==
    /\ DOMAIN files = DOMAIN others
    /\ \A f \in DOMAIN files :
         /\ files[f].content = others[f].content
         /\ IsRestriction(files[f].seeders, others[f].seeders)

SameGroups(S, R) ==
    /\ DOMAIN S.groups = DOMAIN R.groups
    /\ \A g \in DOMAIN S.groups :
         /\ S.groups[g].owner = R.groups[g].owner
         /\ S.groups[g].members = R.groups[g].members
         /\ S.groups[g].pending = R.groups[g].pending
         /\ SameFiles(S.groups[g].files, R.groups[g].files)

Agree(S, R) == SameAccounts(S, R) /\ SameGroups(S, R)

=============================================================================
