------------------------ MODULE TrackerStateProofs ------------------------
(***************************************************************************)
(* What the methods of TrackerState preserve: a state of the right type in *)
(* which groups are consistent stays one, whatever operation is executed   *)
(* on it, as a client's request or as a replay.  What an operation leaves  *)
(* alone.  And that an operation one tracker executed succeeds at another  *)
(* that agrees with it, and leaves them in agreement.                      *)
(***************************************************************************)
EXTENDS TrackerState, WellFoundedInduction, TLAPS

\* A state the invariants of this development allow.
Good(S) == S \in State /\ Consistent(S)

----------------------------------------------------------------------------
(* Maps *)

\* A map is a function on a subset of the keys.
LEMMA MapsDef ==
    ASSUME NEW K, NEW V, NEW m
    PROVE  m \in Maps(K, V) <=> DOMAIN m \subseteq K /\ m \in [DOMAIN m -> V]
  BY DEF Maps

\* The empty map is a map (a default-constructed std::map).
LEMMA EmptyMapType ==
    ASSUME NEW K, NEW V
    PROVE  EmptyMap \in Maps(K, V) /\ DOMAIN EmptyMap = {}
  BY MapsDef DEF EmptyMap

\* Inserting or overwriting one key (operator[] of std::map) keeps the types.
LEMMA PutType ==
    ASSUME NEW K, NEW V, NEW m \in Maps(K, V), NEW k \in K, NEW v \in V
    PROVE  Put(m, k, v) \in Maps(K, V)
  BY MapsDef DEF Put

\* Erasing one key keeps the types.
LEMMA EraseType ==
    ASSUME NEW K, NEW V, NEW m \in Maps(K, V), NEW k
    PROVE  Erase(m, k) \in Maps(K, V)
  BY MapsDef DEF Erase, Restrict

\* Looking up a key that is there.
LEMMA GetMap ==
    ASSUME NEW K, NEW V, NEW m \in Maps(K, V), NEW k \in DOMAIN m
    PROVE  k \in K /\ m[k] \in V
  BY MapsDef

----------------------------------------------------------------------------
(* The order of user ids *)

\* The usual order of naturals, as a relation.
NatLess == {ss \in Nat \X Nat : ss[1] < ss[2]}

\* A nonempty set of naturals has a smallest element, and Smallest picks it:
\* *members.begin() of a nonempty set is one of its members.
LEMMA SmallestIsLeast ==
    ASSUME NEW T, T \subseteq Nat, T # {}
    PROVE  /\ Smallest(T) \in T
           /\ \A x \in T : Smallest(T) <= x
<1>1. NatLess = OpToRel(<, Nat)
  BY Zenon DEF NatLess, OpToRel
<1>2. IsWellFoundedOn(NatLess, Nat)
  BY <1>1, NatLessThanWellFounded, Zenon
<1>3. PICK m \in T : \A x \in T : ~(<<x, m>> \in NatLess)
  BY <1>2, WFMin
<1>4. ASSUME NEW x \in T
      PROVE  m <= x
  <2>1. x \in Nat /\ m \in Nat
    OBVIOUS
  <2>2. x < m => <<x, m>> \in NatLess
    BY <2>1 DEF NatLess
  <2>. QED
    BY <1>3, <2>1, <2>2
<1>. QED
  BY <1>4 DEF Smallest

----------------------------------------------------------------------------
(* Replacing one user, group or file *)

\* The fields of a state are maps.
LEMMA StateFields ==
    ASSUME NEW S \in State
    PROVE  /\ S.users \in Maps(User, UserRecord)
           /\ S.groups \in Maps(Group, GroupRecord)
           /\ S = [users |-> S.users, groups |-> S.groups]
  BY DEF State

\* Inserting or updating an account keeps a good state good.
LEMMA SetUserGood ==
    ASSUME NEW S, Good(S), NEW uid \in User, NEW rec \in UserRecord
    PROVE  /\ Good(SetUser(S, uid, rec))
           /\ DOMAIN SetUser(S, uid, rec).users = DOMAIN S.users \cup {uid}
<1>1. Put(S.users, uid, rec) \in Maps(User, UserRecord)
  <2>1. S.users \in Maps(User, UserRecord)
    BY StateFields DEF Good
  <2>. QED
    BY <2>1, PutType
<1>2. DOMAIN Put(S.users, uid, rec) = DOMAIN S.users \cup {uid}
  BY DEF Put
<1>3. SetUser(S, uid, rec) = [users |-> Put(S.users, uid, rec), groups |-> S.groups]
  BY StateFields DEF Good, SetUser
<1>4. SetUser(S, uid, rec) \in State
  BY <1>1, <1>3, StateFields DEF Good, State
<1>5. Consistent(SetUser(S, uid, rec))
  BY <1>3, <1>2 DEF Good, Consistent, GroupConsistent
<1>. QED
  BY <1>3, <1>4, <1>5, <1>2 DEF Good

\* Inserting or updating a consistent group keeps a good state good.
LEMMA SetGroupGood ==
    ASSUME NEW S, Good(S), NEW gid \in Group, NEW grp \in GroupRecord,
           GroupConsistent(grp, DOMAIN S.users)
    PROVE  /\ Good(SetGroup(S, gid, grp))
           /\ SetGroup(S, gid, grp).users = S.users
<1>1. Put(S.groups, gid, grp) \in Maps(Group, GroupRecord)
  <2>1. S.groups \in Maps(Group, GroupRecord)
    BY StateFields DEF Good
  <2>. QED
    BY <2>1, PutType
<1>2. /\ DOMAIN Put(S.groups, gid, grp) = DOMAIN S.groups \cup {gid}
      /\ Put(S.groups, gid, grp)[gid] = grp
      /\ \A g \in DOMAIN S.groups \ {gid} : Put(S.groups, gid, grp)[g] = S.groups[g]
  BY DEF Put
<1>3. SetGroup(S, gid, grp) = [users |-> S.users, groups |-> Put(S.groups, gid, grp)]
  BY StateFields DEF Good, SetGroup
<1>4. SetGroup(S, gid, grp) \in State
  BY <1>1, <1>3, StateFields DEF Good, State
<1>5. Consistent(SetGroup(S, gid, grp))
  <2>. SUFFICES ASSUME NEW g \in DOMAIN S.groups \cup {gid}
                PROVE  GroupConsistent(Put(S.groups, gid, grp)[g], DOMAIN S.users)
    BY <1>3, <1>2 DEF Consistent
  <2>. QED
    BY <1>2 DEF Good, Consistent
<1>. QED
  BY <1>3, <1>4, <1>5 DEF Good

\* The group a known group id leads to.
LEMMA GroupGood ==
    ASSUME NEW S, Good(S), NEW gid \in DOMAIN S.groups
    PROVE  /\ gid \in Group
           /\ S.groups[gid] \in GroupRecord
           /\ GroupConsistent(S.groups[gid], DOMAIN S.users)
  BY StateFields, GetMap DEF Good, Consistent

\* Inserting or updating a file whose seeders are registered keeps a good
\* state good.
LEMMA SetFileGood ==
    ASSUME NEW S, Good(S), NEW gid \in DOMAIN S.groups, NEW file \in File,
           NEW meta \in FileMeta, DOMAIN meta.seeders \subseteq DOMAIN S.users
    PROVE  /\ Good(SetFile(S, gid, file, meta))
           /\ SetFile(S, gid, file, meta).users = S.users
<1>. DEFINE grp == S.groups[gid]
            files == Put(grp.files, file, meta)
            new == [grp EXCEPT !.files = Put(@, file, meta)]
<1>1. /\ grp \in GroupRecord
      /\ gid \in Group
      /\ GroupConsistent(grp, DOMAIN S.users)
  BY GroupGood
<1>2. grp.files \in Maps(File, FileMeta)
  BY <1>1 DEF GroupRecord
<1>3. files \in Maps(File, FileMeta)
  BY <1>2, PutType
<1>4. /\ DOMAIN files = DOMAIN grp.files \cup {file}
      /\ files[file] = meta
      /\ \A f \in DOMAIN grp.files \ {file} : files[f] = grp.files[f]
  BY DEF Put
<1>5. /\ new \in GroupRecord
      /\ new.files = files
      /\ new.owner = grp.owner /\ new.members = grp.members
      /\ new.pending = grp.pending
  <2>. HIDE DEF grp
  <2>. QED
    BY <1>1, <1>3 DEF GroupRecord
<1>6. \A f \in DOMAIN files : DOMAIN files[f].seeders \subseteq DOMAIN S.users
  BY <1>1, <1>4 DEF GroupConsistent
<1>7. GroupConsistent(new, DOMAIN S.users)
  <2>. HIDE DEF files, new, grp
  <2>. QED
    BY <1>1, <1>5, <1>6 DEF GroupConsistent
<1>8. SetFile(S, gid, file, meta) = SetGroup(S, gid, new)
  BY DEF SetFile
<1>. HIDE DEF new
<1>. QED
  BY <1>1, <1>5, <1>7, <1>8, SetGroupGood

----------------------------------------------------------------------------
(* The methods *)

\* What every method does to a good state: it leaves a good one, and no
\* account disappears.
Preserves(S, T) == Good(T) /\ DOMAIN S.users \subseteq DOMAIN T.users

\* A refused call changes nothing.
LEMMA FailGood ==
    ASSUME NEW S, Good(S), NEW status
    PROVE  Preserves(S, Fail(status, S).state)
  BY DEF Preserves, Fail

\* The state of a successful call is the one it was given.
LEMMA DoneState ==
    ASSUME NEW S
    PROVE  Done(S).state = S
  BY DEF Done

\* A new account (TrackerState::create_user).
LEMMA create_userGood ==
    ASSUME NEW S, Good(S), NEW uid \in User, NEW pwd \in Password
    PROVE  Preserves(S, create_user(S, uid, pwd).state)
<1>. DEFINE rec == [password |-> hash_password(pwd), online |-> FALSE, addr |-> Nil]
<1>1. rec \in UserRecord
  BY DEF UserRecord
<1>2. Preserves(S, SetUser(S, uid, rec))
  <2>. HIDE DEF rec
  <2>. QED
    BY <1>1, SetUserGood DEF Preserves
<1>. QED
  BY <1>2, FailGood, DoneState DEF create_user

\* A user that comes online (TrackerState::login).
LEMMA loginGood ==
    ASSUME NEW S, Good(S), NEW uid \in User, NEW pwd, NEW addr \in Addr
    PROVE  Preserves(S, login(S, uid, pwd, addr).state)
<1>1. CASE uid \notin DOMAIN S.users \/ S.users[uid].password # hash_password(pwd)
  BY <1>1, FailGood DEF login
<1>2. CASE uid \in DOMAIN S.users /\ S.users[uid].password = hash_password(pwd)
  <2>. DEFINE rec == [S.users[uid] EXCEPT !.online = TRUE, !.addr = addr]
  <2>1. S.users[uid] \in UserRecord
    BY <1>2, StateFields, GetMap DEF Good
  <2>2. rec \in UserRecord
    BY <2>1 DEF UserRecord
  <2>3. Preserves(S, SetUser(S, uid, rec))
    <3>. HIDE DEF rec
    <3>. QED
      BY <2>2, SetUserGood DEF Preserves
  <2>. QED
    BY <1>2, <2>3, DoneState DEF login
<1>. QED
  BY <1>1, <1>2

\* Dropping a seeder from a file.
LEMMA WithoutSeederType ==
    ASSUME NEW meta \in FileMeta, NEW uid
    PROVE  /\ WithoutSeeder(meta, uid) \in FileMeta
           /\ DOMAIN WithoutSeeder(meta, uid).seeders \subseteq DOMAIN meta.seeders
<1>1. meta.seeders \in Maps(User, PeerRef)
  BY DEF FileMeta
<1>2. Erase(meta.seeders, uid) \in Maps(User, PeerRef)
  BY <1>1, EraseType
<1>3. DOMAIN Erase(meta.seeders, uid) \subseteq DOMAIN meta.seeders
  BY DEF Erase, Restrict
<1>. QED
  BY <1>2, <1>3 DEF FileMeta, WithoutSeeder

\* Evicting a seeder keeps every group and what it says of its members.
LEMMA EvictSeederGood ==
    ASSUME NEW S, Good(S), NEW uid
    PROVE  /\ EvictSeeder(S.groups, uid) \in Maps(Group, GroupRecord)
           /\ \A g \in DOMAIN EvictSeeder(S.groups, uid) :
                GroupConsistent(EvictSeeder(S.groups, uid)[g], DOMAIN S.users)
<1>. DEFINE after(grp) ==
        [grp EXCEPT !.files =
            [f \in DOMAIN grp.files |-> WithoutSeeder(grp.files[f], uid)]]
<1>2. ASSUME NEW grp \in GroupRecord, GroupConsistent(grp, DOMAIN S.users)
      PROVE  /\ after(grp) \in GroupRecord
             /\ GroupConsistent(after(grp), DOMAIN S.users)
  <2>. DEFINE files == [f \in DOMAIN grp.files |-> WithoutSeeder(grp.files[f], uid)]
  <2>1. grp.files \in Maps(File, FileMeta)
    BY DEF GroupRecord
  <2>2. \A f \in DOMAIN grp.files : f \in File /\ grp.files[f] \in FileMeta
    BY <2>1, GetMap
  <2>3. /\ files \in Maps(File, FileMeta)
        /\ DOMAIN files = DOMAIN grp.files
        /\ \A f \in DOMAIN files :
              DOMAIN files[f].seeders \subseteq DOMAIN grp.files[f].seeders
    <3>1. files \in [DOMAIN grp.files -> FileMeta]
      BY <2>2, WithoutSeederType
    <3>2. DOMAIN files \subseteq File
      BY <2>2
    <3>3. files \in Maps(File, FileMeta)
      BY <3>1, <3>2, MapsDef
    <3>. QED
      BY <2>2, <3>3, WithoutSeederType
  <2>4. after(grp) = [grp EXCEPT !.files = files]
    OBVIOUS
  <2>5. /\ after(grp) \in GroupRecord
        /\ after(grp).files = files
        /\ after(grp).owner = grp.owner /\ after(grp).members = grp.members
        /\ after(grp).pending = grp.pending
    <3>. HIDE DEF files, after
    <3>. QED
      BY <2>3, <2>4 DEF GroupRecord
  <2>. HIDE DEF after, files
  <2>. QED
    BY <1>2, <2>3, <2>5 DEF GroupConsistent
<1>3. EvictSeeder(S.groups, uid) = [g \in DOMAIN S.groups |-> after(S.groups[g])]
  BY DEF EvictSeeder
<1>. HIDE DEF after
<1>4. \A g \in DOMAIN S.groups :
         /\ after(S.groups[g]) \in GroupRecord
         /\ GroupConsistent(after(S.groups[g]), DOMAIN S.users)
  BY <1>2, GroupGood
<1>5. DOMAIN S.groups \subseteq Group
  BY GroupGood
<1>6. EvictSeeder(S.groups, uid) \in Maps(Group, GroupRecord)
  BY <1>3, <1>4, <1>5, MapsDef
<1>. QED
  BY <1>3, <1>4, <1>6

\* A user that goes offline, and out of every seeder list (TrackerState::logout).
LEMMA logoutGood ==
    ASSUME NEW S, Good(S), NEW uid \in User
    PROVE  Preserves(S, logout(S, uid).state)
<1>1. CASE uid \notin DOMAIN S.users
  BY <1>1, FailGood DEF logout
<1>2. CASE uid \in DOMAIN S.users
  <2>. DEFINE rec == [S.users[uid] EXCEPT !.online = FALSE]
              T == [users |-> Put(S.users, uid, rec),
                    groups |-> EvictSeeder(S.groups, uid)]
  <2>1. rec \in UserRecord
    <3>1. S.users[uid] \in UserRecord
      BY <1>2, StateFields, GetMap DEF Good
    <3>. QED
      BY <3>1 DEF UserRecord
  <2>2. Put(S.users, uid, rec) \in Maps(User, UserRecord)
    <3>. HIDE DEF rec
    <3>1. S.users \in Maps(User, UserRecord)
      BY StateFields DEF Good
    <3>. QED
      BY <2>1, <3>1, PutType
  <2>3. DOMAIN T.users = DOMAIN S.users
    BY <1>2 DEF Put
  <2>4. T \in State
    BY <2>2, EvictSeederGood DEF State
  <2>5. Consistent(T)
    BY <2>3, EvictSeederGood DEF Consistent
  <2>6. logout(S, uid).state = T
    BY <1>2, DoneState DEF logout
  <2>. QED
    BY <2>3, <2>4, <2>5, <2>6 DEF Preserves, Good
<1>. QED
  BY <1>1, <1>2

\* A new group is owned by its only member (TrackerState::create_group).
LEMMA create_groupGood ==
    ASSUME NEW S, Good(S), NEW gid \in Group, NEW owner \in User
    PROVE  Preserves(S, create_group(S, gid, owner).state)
<1>1. CASE owner \notin DOMAIN S.users \/ gid \in DOMAIN S.groups
  BY <1>1, FailGood DEF create_group
<1>2. CASE owner \in DOMAIN S.users /\ gid \notin DOMAIN S.groups
  <2>. DEFINE grp == [owner |-> owner, members |-> {owner}, pending |-> {},
                      files |-> EmptyMap]
  <2>1. grp \in GroupRecord
    BY EmptyMapType DEF GroupRecord
  <2>2. GroupConsistent(grp, DOMAIN S.users)
    BY <1>2 DEF GroupConsistent, EmptyMap
  <2>3. Preserves(S, SetGroup(S, gid, grp))
    <3>. HIDE DEF grp
    <3>. QED
      BY <2>1, <2>2, SetGroupGood DEF Preserves
  <2>. QED
    BY <1>2, <2>3, DoneState DEF create_group
<1>. QED
  BY <1>1, <1>2

\* A new applicant is registered and no member (TrackerState::join_group).
LEMMA join_groupGood ==
    ASSUME NEW S, Good(S), NEW gid \in Group, NEW uid \in User
    PROVE  Preserves(S, join_group(S, gid, uid).state)
<1>. DEFINE old == S.groups[gid]
            grp == [old EXCEPT !.pending = @ \cup {uid}]
<1>1. CASE \/ gid \notin DOMAIN S.groups \/ uid \notin DOMAIN S.users
           \/ uid \in old.members \cup old.pending
  BY <1>1, FailGood DEF join_group
<1>2. CASE /\ gid \in DOMAIN S.groups /\ uid \in DOMAIN S.users
           /\ uid \notin old.members \cup old.pending
  <2>1. old \in GroupRecord /\ GroupConsistent(old, DOMAIN S.users)
    BY <1>2, GroupGood
  <2>2. grp \in GroupRecord /\ GroupConsistent(grp, DOMAIN S.users)
    <3>. HIDE DEF old
    <3>. QED
      BY <1>2, <2>1 DEF GroupRecord, GroupConsistent
  <2>3. Preserves(S, SetGroup(S, gid, grp))
    <3>. HIDE DEF grp
    <3>. QED
      BY <2>2, SetGroupGood DEF Preserves
  <2>. QED
    BY <1>2, <2>3, DoneState DEF join_group
<1>. QED
  BY <1>1, <1>2

\* A group that keeps a member is owned by one: the handoff picks from those
\* who stay.
LEMMA WithoutMemberGood ==
    ASSUME NEW grp \in GroupRecord, NEW registered, NEW uid,
           GroupConsistent(grp, registered),
           ~(uid = grp.owner /\ grp.members = {uid})
    PROVE  /\ WithoutMember(grp, uid) \in GroupRecord
           /\ GroupConsistent(WithoutMember(grp, uid), registered)
<1>. DEFINE rest == grp.members \ {uid}
            owner == IF uid = grp.owner THEN Smallest(rest) ELSE grp.owner
<1>1. grp.members \subseteq User /\ grp.owner \in grp.members
  BY DEF GroupRecord, GroupConsistent
<1>2. owner \in rest
  <2>1. CASE uid = grp.owner
    <3>1. rest # {} /\ rest \subseteq Nat
      BY <1>1, <2>1, UserAssumption
    <3>. QED
      BY <2>1, <3>1, SmallestIsLeast
  <2>2. CASE uid # grp.owner
    BY <1>1, <2>2
  <2>. QED
    BY <2>1, <2>2
<1>3. WithoutMember(grp, uid) = [grp EXCEPT !.members = rest, !.owner = owner]
  BY DEF WithoutMember
<1>. HIDE DEF owner
<1>. QED
  BY <1>1, <1>2, <1>3 DEF GroupRecord, GroupConsistent

\* A leave erases the group or leaves it an owner who is a member
\* (TrackerState::leave_group).
LEMMA leave_groupGood ==
    ASSUME NEW S, Good(S), NEW gid \in Group, NEW uid \in User
    PROVE  Preserves(S, leave_group(S, gid, uid).state)
<1>. DEFINE old == S.groups[gid]
<1>1. CASE gid \notin DOMAIN S.groups \/ uid \notin old.members
  BY <1>1, FailGood DEF leave_group
<1>2. CASE /\ gid \in DOMAIN S.groups /\ uid \in old.members
           /\ uid = old.owner /\ old.members = {uid}
  <2>. DEFINE T == [users |-> S.users, groups |-> Erase(S.groups, gid)]
  <2>1. leave_group(S, gid, uid).state = T
    BY <1>2, DoneState, StateFields DEF leave_group, Good
  <2>2. T \in State
    <3>1. S.groups \in Maps(Group, GroupRecord)
      BY StateFields DEF Good
    <3>2. Erase(S.groups, gid) \in Maps(Group, GroupRecord)
      BY <3>1, EraseType
    <3>. QED
      BY <3>2, StateFields DEF Good, State
  <2>3. Consistent(T)
    BY DEF Good, Consistent, Erase, Restrict
  <2>. QED
    BY <2>1, <2>2, <2>3 DEF Preserves, Good
<1>3. CASE /\ gid \in DOMAIN S.groups /\ uid \in old.members
           /\ ~(uid = old.owner /\ old.members = {uid})
  <2>1. /\ WithoutMember(old, uid) \in GroupRecord
        /\ GroupConsistent(WithoutMember(old, uid), DOMAIN S.users)
    BY <1>3, GroupGood, WithoutMemberGood
  <2>2. Preserves(S, SetGroup(S, gid, WithoutMember(old, uid)))
    BY <2>1, SetGroupGood DEF Preserves
  <2>. QED
    BY <1>3, <2>2, DoneState DEF leave_group
<1>. QED
  BY <1>1, <1>2, <1>3

\* An applicant that becomes a member stops being an applicant
\* (TrackerState::accept_request).
LEMMA accept_requestGood ==
    ASSUME NEW S, Good(S), NEW gid \in Group, NEW owner \in User, NEW uid \in User
    PROVE  Preserves(S, accept_request(S, gid, owner, uid).state)
<1>. DEFINE old == S.groups[gid]
            grp == [old EXCEPT !.pending = @ \ {uid}, !.members = @ \cup {uid}]
<1>1. CASE gid \notin DOMAIN S.groups \/ old.owner # owner \/ uid \notin old.pending
  BY <1>1, FailGood DEF accept_request
<1>2. CASE gid \in DOMAIN S.groups /\ old.owner = owner /\ uid \in old.pending
  <2>1. old \in GroupRecord /\ GroupConsistent(old, DOMAIN S.users)
    BY <1>2, GroupGood
  <2>2. grp \in GroupRecord /\ GroupConsistent(grp, DOMAIN S.users)
    <3>. HIDE DEF old
    <3>. QED
      BY <1>2, <2>1 DEF GroupRecord, GroupConsistent
  <2>3. Preserves(S, SetGroup(S, gid, grp))
    <3>. HIDE DEF grp
    <3>. QED
      BY <2>2, SetGroupGood DEF Preserves
  <2>. QED
    BY <1>2, <2>3, DoneState DEF accept_request
<1>. QED
  BY <1>1, <1>2

\* Registering a registered user as a seeder.
LEMMA WithSeederType ==
    ASSUME NEW meta \in FileMeta, NEW uid \in User, NEW addr \in Addr,
           NEW bits \in SUBSET Piece
    PROVE  /\ WithSeeder(meta, uid, addr, bits) \in FileMeta
           /\ DOMAIN WithSeeder(meta, uid, addr, bits).seeders
                = DOMAIN meta.seeders \cup {uid}
<1>. DEFINE ref == [addr |-> addr, bits |-> bits]
<1>1. meta.seeders \in Maps(User, PeerRef)
  BY DEF FileMeta
<1>2. ref \in PeerRef
  BY DEF PeerRef
<1>3. Put(meta.seeders, uid, ref) \in Maps(User, PeerRef)
  <2>. HIDE DEF ref
  <2>. QED
    BY <1>1, <1>2, PutType
<1>4. DOMAIN Put(meta.seeders, uid, ref) = DOMAIN meta.seeders \cup {uid}
  BY DEF Put
<1>. QED
  BY <1>3, <1>4 DEF FileMeta, WithSeeder

\* A file of a good state, and who may seed it.
LEMMA FileGood ==
    ASSUME NEW S, Good(S), NEW gid, NEW file, IsFile(S, gid, file)
    PROVE  /\ gid \in DOMAIN S.groups
           /\ S.groups[gid].files[file] \in FileMeta
           /\ DOMAIN S.groups[gid].files[file].seeders \subseteq DOMAIN S.users
<1>1. gid \in DOMAIN S.groups /\ file \in DOMAIN S.groups[gid].files
  BY DEF IsFile
<1>2. /\ S.groups[gid] \in GroupRecord
      /\ GroupConsistent(S.groups[gid], DOMAIN S.users)
  BY <1>1, GroupGood
<1>3. S.groups[gid].files \in Maps(File, FileMeta)
  BY <1>2 DEF GroupRecord
<1>. QED
  BY <1>1, <1>2, <1>3, GetMap DEF GroupConsistent

\* The members of a group of a good state are registered.
LEMMA MemberRegistered ==
    ASSUME NEW S, Good(S), NEW gid \in DOMAIN S.groups,
           NEW uid \in S.groups[gid].members
    PROVE  uid \in DOMAIN S.users
  BY GroupGood DEF GroupConsistent

\* A first upload, and one more seeder of the same content
\* (TrackerState::add_file).
LEMMA add_fileGood ==
    ASSUME NEW S, Good(S), NEW gid \in Group, NEW uid \in User,
           NEW addr \in Addr, NEW file \in File, NEW content \in Content
    PROVE  Preserves(S, add_file(S, gid, uid, addr, file, content).state)
<1>. DEFINE old == S.groups[gid].files[file]
            new == [content |-> content, seeders |-> EmptyMap]
            set(meta) == SetFile(S, gid, file, WithSeeder(meta, uid, addr, Piece))
<1>1. ASSUME NEW meta \in FileMeta, DOMAIN meta.seeders \subseteq DOMAIN S.users,
             gid \in DOMAIN S.groups, uid \in S.groups[gid].members
      PROVE  Preserves(S, set(meta))
  <2>1. /\ WithSeeder(meta, uid, addr, Piece) \in FileMeta
        /\ DOMAIN WithSeeder(meta, uid, addr, Piece).seeders \subseteq DOMAIN S.users
    BY <1>1, WithSeederType, MemberRegistered
  <2>. QED
    BY <1>1, <2>1, SetFileGood DEF Preserves
<1>2. CASE gid \notin DOMAIN S.groups \/ uid \notin S.groups[gid].members
  BY <1>2, FailGood DEF add_file
<1>3. CASE /\ gid \in DOMAIN S.groups /\ uid \in S.groups[gid].members
           /\ ~IsFile(S, gid, file)
  <2>1. new \in FileMeta /\ DOMAIN new.seeders = {}
    BY EmptyMapType DEF FileMeta
  <2>2. add_file(S, gid, uid, addr, file, content).state = set(new)
    BY <1>3, DoneState DEF add_file
  <2>. HIDE DEF new, set
  <2>. QED
    BY <1>1, <1>3, <2>1, <2>2
<1>4. CASE /\ gid \in DOMAIN S.groups /\ uid \in S.groups[gid].members
           /\ IsFile(S, gid, file) /\ old.content # content
  BY <1>4, FailGood DEF add_file
<1>5. CASE /\ gid \in DOMAIN S.groups /\ uid \in S.groups[gid].members
           /\ IsFile(S, gid, file) /\ old.content = content
  <2>1. old \in FileMeta /\ DOMAIN old.seeders \subseteq DOMAIN S.users
    BY <1>5, FileGood
  <2>2. add_file(S, gid, uid, addr, file, content).state = set(old)
    BY <1>5, DoneState DEF add_file
  <2>. HIDE DEF old, set
  <2>. QED
    BY <1>1, <1>5, <2>1, <2>2
<1>. QED
  BY <1>2, <1>3, <1>4, <1>5

\* One seeder less (TrackerState::stop_share).
LEMMA stop_shareGood ==
    ASSUME NEW S, Good(S), NEW gid \in Group, NEW uid \in User, NEW file \in File
    PROVE  Preserves(S, stop_share(S, gid, uid, file).state)
<1>. DEFINE old == S.groups[gid].files[file]
<1>1. CASE ~IsFile(S, gid, file) \/ uid \notin DOMAIN old.seeders
  BY <1>1, FailGood DEF stop_share
<1>2. CASE IsFile(S, gid, file) /\ uid \in DOMAIN old.seeders
  <2>1. /\ WithoutSeeder(old, uid) \in FileMeta
        /\ DOMAIN WithoutSeeder(old, uid).seeders \subseteq DOMAIN S.users
    BY <1>2, FileGood, WithoutSeederType
  <2>2. Preserves(S, SetFile(S, gid, file, WithoutSeeder(old, uid)))
    BY <1>2, <2>1, FileGood, SetFileGood DEF Preserves
  <2>. QED
    BY <1>2, <2>2, DoneState DEF stop_share
<1>. QED
  BY <1>1, <1>2

\* A member announces pieces of a file (TrackerState::update_bitfield).
LEMMA update_bitfieldGood ==
    ASSUME NEW S, Good(S), NEW gid \in Group, NEW uid \in User,
           NEW addr \in Addr, NEW file \in File, NEW bits \in SUBSET Piece
    PROVE  Preserves(S, update_bitfield(S, gid, uid, addr, file, bits).state)
<1>. DEFINE old == S.groups[gid].files[file]
            new == WithSeeder(old, uid, addr, bits)
<1>1. CASE \/ gid \notin DOMAIN S.groups \/ uid \notin S.groups[gid].members
           \/ ~IsFile(S, gid, file)
  BY <1>1, FailGood DEF update_bitfield
<1>2. CASE /\ gid \in DOMAIN S.groups /\ uid \in S.groups[gid].members
           /\ IsFile(S, gid, file)
  <2>1. new \in FileMeta /\ DOMAIN new.seeders \subseteq DOMAIN S.users
    BY <1>2, FileGood, MemberRegistered, WithSeederType
  <2>2. Preserves(S, SetFile(S, gid, file, new))
    <3>. HIDE DEF new
    <3>. QED
      BY <1>2, <2>1, SetFileGood DEF Preserves
  <2>. QED
    BY <1>2, <2>2, DoneState DEF update_bitfield
<1>. QED
  BY <1>1, <1>2

----------------------------------------------------------------------------
(* Snapshots *)

\* A map written entry by entry is read back as it was.
LEMMA EntriesRoundTrip ==
    ASSUME NEW D, NEW m, m = [k \in D |-> m[k]]
    PROVE  FromEntries(Entries(m)) = m
<1>. DEFINE written == Entries(m)
            choice(k) == CHOOSE e \in written : e.key = k
<1>1. DOMAIN m = D
  OBVIOUS
<1>2. \A k \in D : [key |-> k, value |-> m[k]] \in written
  BY <1>1 DEF Entries
<1>3. \A e \in written : e.key \in D /\ e = [key |-> e.key, value |-> m[e.key]]
  BY <1>1 DEF Entries
<1>. HIDE DEF written
<1>4. ASSUME NEW k \in D
      PROVE  choice(k).value = m[k]
  <2>1. \E e \in written : e.key = k
    <3>1. [key |-> k, value |-> m[k]].key = k
      OBVIOUS
    <3>. QED
      BY <1>2, <3>1, Zenon
  <2>2. choice(k) \in written /\ choice(k).key = k
    BY <2>1, Zenon
  <2>. HIDE DEF choice
  <2>. QED
    BY <1>3, <2>2
<1>5. {e.key : e \in written} = D
  <2>1. ASSUME NEW k \in D PROVE k \in {e.key : e \in written}
    <3>1. [key |-> k, value |-> m[k]].key = k
      OBVIOUS
    <3>. QED
      BY <1>2, <3>1
  <2>2. ASSUME NEW k \in {e.key : e \in written} PROVE k \in D
    BY <1>3
  <2>. QED
    BY <2>1, <2>2
<1>6. FromEntries(written) = [k \in D |-> choice(k).value]
  BY <1>5 DEF FromEntries
<1>7. FromEntries(written) = [k \in D |-> m[k]]
  <2>. HIDE DEF choice
  <2>. QED
    BY <1>4, <1>6
<1>. QED
  BY <1>7 DEF written

\* A file with its seeders survives being written and read.
LEMMA FileRoundTrip ==
    ASSUME NEW meta \in FileMeta
    PROVE  FileOf(FileEntry(meta)) = meta
<1>1. meta.seeders = [u \in DOMAIN meta.seeders |-> meta.seeders[u]]
  BY MapsDef DEF FileMeta
<1>2. FromEntries(Entries(meta.seeders)) = meta.seeders
  BY <1>1, EntriesRoundTrip
<1>. QED
  BY <1>2 DEF FileOf, FileEntry, FileMeta

\* A group with its files survives being written and read.
LEMMA GroupRoundTrip ==
    ASSUME NEW grp \in GroupRecord
    PROVE  GroupOf(GroupEntry(grp)) = grp
<1>. DEFINE files == grp.files
            entries == [f \in DOMAIN files |-> FileEntry(files[f])]
<1>1. FromEntries(Entries(entries)) = entries
  <2>1. entries = [f \in DOMAIN files |-> entries[f]]
    OBVIOUS
  <2>. HIDE DEF entries
  <2>. QED
    BY <2>1, EntriesRoundTrip
<1>2. files \in Maps(File, FileMeta)
  BY DEF GroupRecord
<1>3. \A f \in DOMAIN files : FileOf(entries[f]) = files[f]
  BY <1>2, GetMap, FileRoundTrip
<1>4. [f \in DOMAIN entries |-> FileOf(entries[f])] = files
  <2>1. files = [f \in DOMAIN files |-> files[f]]
    BY <1>2, MapsDef
  <2>. QED
    BY <2>1, <1>3
<1>5. GroupEntry(grp) = [owner |-> grp.owner, members |-> grp.members,
                         pending |-> grp.pending, files |-> Entries(entries)]
  BY DEF GroupEntry
<1>6. grp = [owner |-> grp.owner, members |-> grp.members,
             pending |-> grp.pending, files |-> files]
  BY DEF GroupRecord
<1>. HIDE DEF files, entries
<1>. QED
  BY <1>1, <1>4, <1>5, <1>6 DEF GroupOf

\* What restore reads from a snapshot is the state the snapshot was taken of:
\* no account, group, member, request, file, seeder or bit is lost or made up
\* on the way (TrackerState::snapshot and restore).
THEOREM SnapshotRoundTrip ==
    ASSUME NEW S \in State
    PROVE  restore(snapshot(S)) = S
<1>. DEFINE groups == S.groups
            entries == [g \in DOMAIN groups |-> GroupEntry(groups[g])]
<1>1. FromEntries(Entries(entries)) = entries
  <2>1. entries = [g \in DOMAIN groups |-> entries[g]]
    OBVIOUS
  <2>. HIDE DEF entries
  <2>. QED
    BY <2>1, EntriesRoundTrip
<1>2. groups \in Maps(Group, GroupRecord) /\ S.users \in Maps(User, UserRecord)
  BY DEF State
<1>3. \A g \in DOMAIN groups : GroupOf(entries[g]) = groups[g]
  BY <1>2, GetMap, GroupRoundTrip
<1>4. [g \in DOMAIN entries |-> GroupOf(entries[g])] = groups
  <2>1. groups = [g \in DOMAIN groups |-> groups[g]]
    BY <1>2, MapsDef
  <2>. QED
    BY <2>1, <1>3
<1>5. FromEntries(Entries(S.users)) = S.users
  <2>1. S.users = [u \in DOMAIN S.users |-> S.users[u]]
    BY <1>2, MapsDef
  <2>. QED
    BY <2>1, EntriesRoundTrip
<1>6. snapshot(S) = [users |-> Entries(S.users), groups |-> Entries(entries)]
  BY DEF snapshot
<1>7. S = [users |-> S.users, groups |-> groups]
  BY DEF State
<1>. HIDE DEF groups, entries
<1>. QED
  BY <1>1, <1>4, <1>5, <1>6, <1>7 DEF restore

----------------------------------------------------------------------------
(* Operations *)

\* Every operation, executed for a client or replayed for the peer tracker,
\* keeps a good state good and every account in place.
THEOREM ExecuteGood ==
    ASSUME NEW S, Good(S), NEW op \in Op
    PROVE  Preserves(S, Execute(S, op).state)
<1>1. CASE op.type = "CREATE_USER"
  <2>1. op.uid \in User /\ op.pwd \in Password
    BY <1>1 DEF Op
  <2>. QED
    BY <1>1, <2>1, create_userGood DEF Execute
<1>2. CASE op.type \in {"CREATE_GROUP", "JOIN_GROUP", "LEAVE_GROUP"}
  <2>1. op.gid \in Group /\ op.uid \in User
    BY <1>2 DEF Op
  <2>. QED
    BY <1>2, <2>1, create_groupGood, join_groupGood, leave_groupGood DEF Execute
<1>3. CASE op.type = "ACCEPT_REQUEST"
  <2>1. op.gid \in Group /\ op.owner \in User /\ op.uid \in User
    BY <1>3 DEF Op
  <2>. QED
    BY <1>3, <2>1, accept_requestGood DEF Execute
<1>4. CASE op.type = "UPLOAD_FILE"
  <2>1. /\ op.gid \in Group /\ op.uid \in User /\ op.addr \in Addr
        /\ op.file \in File /\ op.content \in Content
    BY <1>4 DEF Op
  <2>. QED
    BY <1>4, <2>1, add_fileGood DEF Execute
<1>5. CASE op.type = "STOP_SHARE"
  <2>1. op.gid \in Group /\ op.uid \in User /\ op.file \in File
    BY <1>5 DEF Op
  <2>. QED
    BY <1>5, <2>1, stop_shareGood DEF Execute
<1>6. CASE op.type = "HAVE_PIECES"
  <2>1. /\ op.gid \in Group /\ op.uid \in User /\ op.addr \in Addr
        /\ op.file \in File /\ op.bits \in SUBSET Piece
    BY <1>6 DEF Op
  <2>. QED
    BY <1>6, <2>1, update_bitfieldGood DEF Execute
<1>. QED
  BY <1>1, <1>2, <1>3, <1>4, <1>5, <1>6 DEF Op

\* The same for a replay, whatever apply_remote reports.
LEMMA apply_remoteGood ==
    ASSUME NEW S, Good(S), NEW op \in Op
    PROVE  Preserves(S, apply_remote(S, op).state)
  BY ExecuteGood DEF apply_remote

\* An empty tracker is good.
LEMMA EmptyStateGood == Good(EmptyState) /\ DOMAIN EmptyState.users = {}
  BY EmptyMapType DEF Good, State, Consistent, EmptyState

----------------------------------------------------------------------------
(* What an operation leaves alone *)

\* The file names of a group keep their content.
FilesKept(old, new) ==
    \A f \in DOMAIN old.files :
        f \in DOMAIN new.files /\ new.files[f].content = old.files[f].content

\* From S to T no file name of a group that lasts changes its content.
ContentKept(S, T) ==
    \A g \in DOMAIN S.groups \cap DOMAIN T.groups : FilesKept(S.groups[g], T.groups[g])

\* From S to T nobody becomes a member of a group that lasts.
NobodyAdmitted(S, T) ==
    \A g \in DOMAIN S.groups \cap DOMAIN T.groups :
        T.groups[g].members \subseteq S.groups[g].members

\* From S to T no account changes, new ones apart.
AccountsKept(S, T) ==
    \A u \in DOMAIN S.users : u \in DOMAIN T.users /\ T.users[u] = S.users[u]

\* An operation that changes no group that lasts, and no account.
Untouched(S, T) == ContentKept(S, T) /\ NobodyAdmitted(S, T) /\ AccountsKept(S, T)

\* A state whose groups are partly those of S.
LEMMA SameGroupsUntouched ==
    ASSUME NEW S, NEW T, AccountsKept(S, T),
           \A g \in DOMAIN S.groups \cap DOMAIN T.groups : T.groups[g] = S.groups[g]
    PROVE  Untouched(S, T)
  BY DEF Untouched, ContentKept, FilesKept, NobodyAdmitted

\* A new account.
LEMMA create_userKeeps ==
    ASSUME NEW S \in State, NEW uid, NEW pwd
    PROVE  Untouched(S, create_user(S, uid, pwd).state)
<1>. DEFINE T == create_user(S, uid, pwd).state
<1>1. T.groups = S.groups
  BY DEF create_user, Fail, Done, SetUser, State
<1>2. AccountsKept(S, T)
  <2>1. CASE uid \in DOMAIN S.users
    BY <2>1 DEF create_user, Fail, AccountsKept
  <2>2. CASE uid \notin DOMAIN S.users
    <3>1. PICK rec : T.users = Put(S.users, uid, rec)
      BY <2>2 DEF create_user, Done, SetUser, State
    <3>. QED
      BY <2>2, <3>1 DEF Put, AccountsKept
  <2>. QED
    BY <2>1, <2>2
<1>. HIDE DEF T
<1>3. Untouched(S, T)
  BY <1>1, <1>2, SameGroupsUntouched
<1>. QED
  BY <1>3 DEF T

\* Replacing a group, or adding one.
LEMMA SetGroupKeeps ==
    ASSUME NEW S \in State, NEW gid, NEW grp
    PROVE  LET T == SetGroup(S, gid, grp)
           IN  /\ AccountsKept(S, T)
               /\ (gid \in DOMAIN S.groups => FilesKept(S.groups[gid], grp))
                    => ContentKept(S, T)
               /\ (gid \in DOMAIN S.groups => grp.members \subseteq S.groups[gid].members)
                    => NobodyAdmitted(S, T)
<1>. DEFINE T == SetGroup(S, gid, grp)
<1>1. T.users = S.users /\ T.groups = Put(S.groups, gid, grp)
  BY DEF SetGroup, State
<1>2. /\ DOMAIN T.groups = DOMAIN S.groups \cup {gid}
      /\ T.groups[gid] = grp
      /\ \A g \in DOMAIN S.groups \ {gid} : T.groups[g] = S.groups[g]
  BY <1>1 DEF Put
<1>. HIDE DEF T
<1>3. AccountsKept(S, T)
  BY <1>1 DEF AccountsKept
<1>4. ASSUME gid \in DOMAIN S.groups => FilesKept(S.groups[gid], grp)
      PROVE  ContentKept(S, T)
  BY <1>2, <1>4 DEF ContentKept, FilesKept
<1>5. ASSUME gid \in DOMAIN S.groups => grp.members \subseteq S.groups[gid].members
      PROVE  NobodyAdmitted(S, T)
  BY <1>2, <1>5 DEF NobodyAdmitted
<1>. QED
  BY <1>3, <1>4, <1>5 DEF T

\* Replacing a file by one with the same content, or adding one.
LEMMA SetFileKeeps ==
    ASSUME NEW S \in State, NEW gid \in DOMAIN S.groups, NEW file, NEW meta,
           file \in DOMAIN S.groups[gid].files
              => meta.content = S.groups[gid].files[file].content
    PROVE  Untouched(S, SetFile(S, gid, file, meta))
<1>. DEFINE old == S.groups[gid]
            new == [old EXCEPT !.files = Put(@, file, meta)]
<1>1. old \in GroupRecord
  BY StateFields, GetMap
<1>2. new.members = old.members /\ new.files = Put(old.files, file, meta)
  <2>. HIDE DEF old
  <2>. QED
    BY <1>1 DEF GroupRecord
<1>3. FilesKept(old, new)
  <2>. HIDE DEF new
  <2>. QED
    BY <1>2 DEF FilesKept, Put
<1>4. SetFile(S, gid, file, meta) = SetGroup(S, gid, new)
  BY DEF SetFile
<1>. HIDE DEF new
<1>. QED
  BY <1>2, <1>3, <1>4, SetGroupKeeps DEF Untouched

\* A group that is changed in its members or its applicants only.
LEMMA EditedGroup ==
    ASSUME NEW S \in State, NEW gid \in DOMAIN S.groups, NEW grp,
           grp.files = S.groups[gid].files
    PROVE  LET T == SetGroup(S, gid, grp)
           IN  /\ AccountsKept(S, T) /\ ContentKept(S, T)
               /\ grp.members \subseteq S.groups[gid].members => NobodyAdmitted(S, T)
<1>1. FilesKept(S.groups[gid], grp)
  BY DEF FilesKept
<1>. QED
  BY <1>1, SetGroupKeeps

\* The methods on groups.
LEMMA create_groupKeeps ==
    ASSUME NEW S \in State, NEW gid, NEW owner
    PROVE  Untouched(S, create_group(S, gid, owner).state)
<1>1. CASE owner \notin DOMAIN S.users \/ gid \in DOMAIN S.groups
  BY <1>1 DEF create_group, Fail, Untouched, ContentKept, FilesKept, NobodyAdmitted,
              AccountsKept
<1>2. CASE owner \in DOMAIN S.users /\ gid \notin DOMAIN S.groups
  <2>1. PICK grp : create_group(S, gid, owner).state = SetGroup(S, gid, grp)
    BY <1>2 DEF create_group, Done
  <2>. QED
    BY <1>2, <2>1, SetGroupKeeps DEF Untouched
<1>. QED
  BY <1>1, <1>2

LEMMA join_groupKeeps ==
    ASSUME NEW S \in State, NEW gid, NEW uid
    PROVE  Untouched(S, join_group(S, gid, uid).state)
<1>1. CASE join_group(S, gid, uid).state = S
  BY <1>1, SameGroupsUntouched DEF AccountsKept
<1>2. CASE gid \in DOMAIN S.groups
  <2>. DEFINE old == S.groups[gid]
              grp == [old EXCEPT !.pending = @ \cup {uid}]
  <2>1. old \in GroupRecord
    BY <1>2, StateFields, GetMap
  <2>2. grp.files = old.files /\ grp.members = old.members
    <3>. HIDE DEF old
    <3>. QED
      BY <2>1 DEF GroupRecord
  <2>3. join_group(S, gid, uid).state \in {S, SetGroup(S, gid, grp)}
    BY DEF join_group, Fail, Done
  <2>. HIDE DEF grp
  <2>. QED
    BY <1>1, <1>2, <2>2, <2>3, EditedGroup DEF Untouched
<1>. QED
  BY <1>1, <1>2 DEF join_group, Fail

LEMMA leave_groupKeeps ==
    ASSUME NEW S \in State, NEW gid, NEW uid
    PROVE  Untouched(S, leave_group(S, gid, uid).state)
<1>. DEFINE T == leave_group(S, gid, uid).state
<1>1. CASE T = S
  BY <1>1, SameGroupsUntouched DEF AccountsKept
<1>2. CASE T = [S EXCEPT !.groups = Erase(@, gid)]
  <2>1. T.users = S.users /\ T.groups = Erase(S.groups, gid)
    BY <1>2 DEF State
  <2>. HIDE DEF T
  <2>2. Untouched(S, T)
    BY <2>1, SameGroupsUntouched DEF Erase, Restrict, AccountsKept
  <2>. QED
    BY <2>2 DEF T
<1>3. CASE gid \in DOMAIN S.groups /\ T = SetGroup(S, gid, WithoutMember(S.groups[gid], uid))
  <2>. DEFINE old == S.groups[gid]
              grp == WithoutMember(old, uid)
  <2>1. old \in GroupRecord
    BY <1>3, StateFields, GetMap
  <2>2. grp.files = old.files /\ grp.members \subseteq old.members
    <3>. HIDE DEF old
    <3>. QED
      BY <2>1 DEF GroupRecord, WithoutMember
  <2>. HIDE DEF grp
  <2>3. Untouched(S, SetGroup(S, gid, grp))
    BY <1>3, <2>2, EditedGroup DEF Untouched
  <2>. QED
    BY <1>3, <2>3 DEF grp
<1>. QED
  BY <1>1, <1>2, <1>3 DEF leave_group, Fail, Done

\* Accepting an applicant admits nobody else, and only for the owner.
LEMMA accept_requestKeeps ==
    ASSUME NEW S \in State, NEW gid, NEW owner, NEW uid
    PROVE  LET T == accept_request(S, gid, owner, uid).state
           IN  /\ AccountsKept(S, T) /\ ContentKept(S, T)
               /\ \A g \in DOMAIN S.groups \cap DOMAIN T.groups :
                    \A u \in T.groups[g].members \ S.groups[g].members :
                       g = gid /\ u = uid /\ S.groups[g].owner = owner
                       /\ u \in S.groups[g].pending
<1>. DEFINE T == accept_request(S, gid, owner, uid).state
<1>1. CASE T = S
  BY <1>1 DEF AccountsKept, ContentKept, FilesKept
<1>2. CASE gid \in DOMAIN S.groups /\ S.groups[gid].owner = owner
           /\ uid \in S.groups[gid].pending
  <2>. DEFINE old == S.groups[gid]
              grp == [old EXCEPT !.pending = @ \ {uid}, !.members = @ \cup {uid}]
  <2>1. old \in GroupRecord
    BY <1>2, StateFields, GetMap
  <2>2. grp.files = old.files /\ grp.members = old.members \cup {uid}
    <3>. HIDE DEF old
    <3>. QED
      BY <2>1 DEF GroupRecord
  <2>3. T = SetGroup(S, gid, grp)
    BY <1>2 DEF accept_request, Done
  <2>. HIDE DEF grp, T
  <2>4. T.groups = Put(S.groups, gid, grp)
    BY <2>3 DEF SetGroup, State
  <2>5. AccountsKept(S, T) /\ ContentKept(S, T)
    BY <1>2, <2>2, <2>3, EditedGroup
  <2>6. ASSUME NEW g \in DOMAIN S.groups \cap DOMAIN T.groups,
               NEW u \in T.groups[g].members \ S.groups[g].members
        PROVE  g = gid /\ u = uid
    BY <2>2, <2>4, <2>6 DEF Put
  <2>. QED
    BY <1>2, <2>5, <2>6 DEF T
<1>. QED
  BY <1>1, <1>2 DEF accept_request, Fail

\* The methods on files.
LEMMA SeederContent ==
    ASSUME NEW meta \in FileMeta, NEW uid, NEW addr, NEW bits
    PROVE  /\ WithSeeder(meta, uid, addr, bits).content = meta.content
           /\ WithoutSeeder(meta, uid).content = meta.content
  BY DEF WithSeeder, WithoutSeeder, FileMeta

\* The file record a known file name leads to.
LEMMA KnownFile ==
    ASSUME NEW S \in State, NEW gid, NEW file, IsFile(S, gid, file)
    PROVE  gid \in DOMAIN S.groups /\ S.groups[gid].files[file] \in FileMeta
<1>1. gid \in DOMAIN S.groups /\ file \in DOMAIN S.groups[gid].files
  BY DEF IsFile
<1>2. S.groups[gid] \in GroupRecord
  BY <1>1, StateFields, GetMap
<1>3. S.groups[gid].files \in Maps(File, FileMeta)
  BY <1>2 DEF GroupRecord
<1>. QED
  BY <1>1, <1>3, GetMap

LEMMA add_fileKeeps ==
    ASSUME NEW S \in State, NEW gid, NEW uid, NEW addr, NEW file, NEW content
    PROVE  Untouched(S, add_file(S, gid, uid, addr, file, content).state)
<1>. DEFINE T == add_file(S, gid, uid, addr, file, content).state
            old == S.groups[gid].files[file]
            new == [content |-> content, seeders |-> EmptyMap]
<1>1. CASE T = S
  BY <1>1, SameGroupsUntouched DEF AccountsKept
<1>2. CASE /\ gid \in DOMAIN S.groups /\ ~IsFile(S, gid, file)
           /\ T = SetFile(S, gid, file, WithSeeder(new, uid, addr, Piece))
  <2>1. file \notin DOMAIN S.groups[gid].files
    BY <1>2 DEF IsFile
  <2>. QED
    BY <1>2, <2>1, SetFileKeeps
<1>3. CASE /\ IsFile(S, gid, file)
           /\ T = SetFile(S, gid, file, WithSeeder(old, uid, addr, Piece))
  <2>1. gid \in DOMAIN S.groups /\ WithSeeder(old, uid, addr, Piece).content = old.content
    BY <1>3, KnownFile, SeederContent
  <2>. QED
    BY <1>3, <2>1, SetFileKeeps
<1>. QED
  BY <1>1, <1>2, <1>3 DEF add_file, Fail, Done

LEMMA stop_shareKeeps ==
    ASSUME NEW S \in State, NEW gid, NEW uid, NEW file
    PROVE  Untouched(S, stop_share(S, gid, uid, file).state)
<1>. DEFINE T == stop_share(S, gid, uid, file).state
            old == S.groups[gid].files[file]
<1>1. CASE T = S
  BY <1>1, SameGroupsUntouched DEF AccountsKept
<1>2. CASE IsFile(S, gid, file) /\ T = SetFile(S, gid, file, WithoutSeeder(old, uid))
  <2>1. gid \in DOMAIN S.groups /\ WithoutSeeder(old, uid).content = old.content
    BY <1>2, KnownFile, SeederContent
  <2>. QED
    BY <1>2, <2>1, SetFileKeeps
<1>. QED
  BY <1>1, <1>2 DEF stop_share, Fail, Done

LEMMA update_bitfieldKeeps ==
    ASSUME NEW S \in State, NEW gid, NEW uid, NEW addr, NEW file, NEW bits
    PROVE  Untouched(S, update_bitfield(S, gid, uid, addr, file, bits).state)
<1>. DEFINE T == update_bitfield(S, gid, uid, addr, file, bits).state
            old == S.groups[gid].files[file]
<1>1. CASE T = S
  BY <1>1, SameGroupsUntouched DEF AccountsKept
<1>2. CASE IsFile(S, gid, file) /\ T = SetFile(S, gid, file, WithSeeder(old, uid, addr, bits))
  <2>1. gid \in DOMAIN S.groups /\ WithSeeder(old, uid, addr, bits).content = old.content
    BY <1>2, KnownFile, SeederContent
  <2>. QED
    BY <1>2, <2>1, SetFileKeeps
<1>. QED
  BY <1>1, <1>2 DEF update_bitfield, Fail, Done

\* No operation changes an account or the content of a file name, and none but
\* accept_request admits a user to a group that was there.
THEOREM ExecuteKeeps ==
    ASSUME NEW S \in State, NEW op \in Op
    PROVE  /\ AccountsKept(S, Execute(S, op).state)
           /\ ContentKept(S, Execute(S, op).state)
           /\ op.type # "ACCEPT_REQUEST" => NobodyAdmitted(S, Execute(S, op).state)
<1>1. CASE op.type = "CREATE_USER"
  BY <1>1, create_userKeeps DEF Execute, Untouched
<1>2. CASE op.type = "CREATE_GROUP"
  BY <1>2, create_groupKeeps DEF Execute, Untouched
<1>3. CASE op.type = "JOIN_GROUP"
  BY <1>3, join_groupKeeps DEF Execute, Untouched
<1>4. CASE op.type = "LEAVE_GROUP"
  BY <1>4, leave_groupKeeps DEF Execute, Untouched
<1>5. CASE op.type = "ACCEPT_REQUEST"
  BY <1>5, accept_requestKeeps DEF Execute
<1>6. CASE op.type = "UPLOAD_FILE"
  BY <1>6, add_fileKeeps DEF Execute, Untouched
<1>7. CASE op.type = "STOP_SHARE"
  BY <1>7, stop_shareKeeps DEF Execute, Untouched
<1>8. CASE op.type = "HAVE_PIECES"
  BY <1>8, update_bitfieldKeeps DEF Execute, Untouched
<1>. QED
  BY <1>1, <1>2, <1>3, <1>4, <1>5, <1>6, <1>7, <1>8 DEF Op

----------------------------------------------------------------------------
(* Sessions *)

\* A login puts its user online and touches nothing else.
LEMMA loginKeeps ==
    ASSUME NEW S \in State, NEW uid, NEW pwd, NEW addr
    PROVE  LET T == login(S, uid, pwd, addr).state
           IN  /\ T.groups = S.groups
               /\ \A u \in DOMAIN S.users : S.users[u].online => T.users[u].online
<1>. DEFINE T == login(S, uid, pwd, addr).state
            rec == [S.users[uid] EXCEPT !.online = TRUE, !.addr = addr]
<1>1. CASE T = S
  BY <1>1
<1>2. CASE uid \in DOMAIN S.users /\ T = SetUser(S, uid, rec)
  <2>1. T.groups = S.groups /\ T.users = Put(S.users, uid, rec)
    BY <1>2 DEF SetUser, State
  <2>2. rec.online = TRUE
    <3>1. S.users[uid] \in UserRecord
      BY <1>2, StateFields, GetMap
    <3>. QED
      BY <3>1 DEF UserRecord
  <2>. HIDE DEF rec, T
  <2>3. \A u \in DOMAIN S.users : S.users[u].online => T.users[u].online
    BY <2>1, <2>2 DEF Put
  <2>. QED
    BY <2>1, <2>3 DEF T
<1>. QED
  BY <1>1, <1>2 DEF login, Fail, Done

\* A logout leaves its user in no seeder list, and everything but sessions and
\* seeder lists as it was.
LEMMA logoutKeeps ==
    ASSUME NEW S \in State, NEW uid \in DOMAIN S.users
    PROVE  LET T == logout(S, uid).state
           IN  /\ ContentKept(S, T) /\ NobodyAdmitted(S, T)
               /\ \A u \in DOMAIN S.users \ {uid} : T.users[u] = S.users[u]
               /\ uid \notin SeedersOf(T)
<1>. DEFINE T == logout(S, uid).state
            rec == [S.users[uid] EXCEPT !.online = FALSE]
            after(g) == [S.groups[g] EXCEPT !.files =
                           [f \in DOMAIN S.groups[g].files |->
                              WithoutSeeder(S.groups[g].files[f], uid)]]
<1>1. T.users = Put(S.users, uid, rec) /\ T.groups = EvictSeeder(S.groups, uid)
  BY DEF logout, Done
<1>2. DOMAIN T.groups = DOMAIN S.groups /\ \A g \in DOMAIN S.groups : T.groups[g] = after(g)
  BY <1>1 DEF EvictSeeder
<1>3. ASSUME NEW g \in DOMAIN S.groups
      PROVE  /\ T.groups[g].members = S.groups[g].members
             /\ DOMAIN T.groups[g].files = DOMAIN S.groups[g].files
             /\ \A f \in DOMAIN S.groups[g].files :
                  T.groups[g].files[f] = WithoutSeeder(S.groups[g].files[f], uid)
  <2>1. S.groups[g] \in GroupRecord
    BY <1>3, StateFields, GetMap
  <2>2. /\ after(g).members = S.groups[g].members
        /\ after(g).files = [f \in DOMAIN S.groups[g].files |->
                               WithoutSeeder(S.groups[g].files[f], uid)]
    BY <2>1 DEF GroupRecord
  <2>. HIDE DEF after, T
  <2>. QED
    BY <1>2, <2>2
<1>4. ASSUME NEW g \in DOMAIN S.groups, NEW f \in DOMAIN S.groups[g].files
      PROVE  /\ WithoutSeeder(S.groups[g].files[f], uid).content = S.groups[g].files[f].content
             /\ uid \notin DOMAIN WithoutSeeder(S.groups[g].files[f], uid).seeders
  <2>1. S.groups[g].files[f] \in FileMeta
    BY <1>4, KnownFile DEF IsFile
  <2>. QED
    BY <2>1 DEF WithoutSeeder, FileMeta, Erase, Restrict
<1>. HIDE DEF T
<1>5. ContentKept(S, T) /\ NobodyAdmitted(S, T)
  BY <1>2, <1>3, <1>4 DEF ContentKept, FilesKept, NobodyAdmitted
<1>6. uid \notin SeedersOf(T)
  BY <1>2, <1>3, <1>4 DEF SeedersOf
<1>7. \A u \in DOMAIN S.users \ {uid} : T.users[u] = S.users[u]
  BY <1>1 DEF Put
<1>. QED
  BY <1>5, <1>6, <1>7 DEF T

----------------------------------------------------------------------------
(* Agreement with a replica, one group and one file at a time *)

MetaAgrees(meta, other) ==
    /\ meta.content = other.content
    /\ IsRestriction(meta.seeders, other.seeders)

GroupAgrees(grp, other) ==
    /\ grp.owner = other.owner
    /\ grp.members = other.members
    /\ grp.pending = other.pending
    /\ SameFiles(grp.files, other.files)

LEMMA AgreeSplit ==
    ASSUME NEW S, NEW R
    PROVE  Agree(S, R) <=>
              /\ SameAccounts(S, R)
              /\ DOMAIN S.groups = DOMAIN R.groups
              /\ \A g \in DOMAIN S.groups : GroupAgrees(S.groups[g], R.groups[g])
  BY DEF Agree, SameGroups, GroupAgrees

\* What agreement says of a group id and of a file name.
LEMMA AgreeLookup ==
    ASSUME NEW S \in State, NEW R \in State, Agree(S, R)
    PROVE  /\ DOMAIN S.users = DOMAIN R.users
           /\ \A g : g \in DOMAIN S.groups <=> g \in DOMAIN R.groups
           /\ \A g \in DOMAIN S.groups :
                /\ S.groups[g] \in GroupRecord /\ R.groups[g] \in GroupRecord
                /\ GroupAgrees(S.groups[g], R.groups[g])
           /\ \A g, f : IsFile(S, g, f) =>
                /\ IsFile(R, g, f)
                /\ S.groups[g].files[f] \in FileMeta /\ R.groups[g].files[f] \in FileMeta
                /\ MetaAgrees(S.groups[g].files[f], R.groups[g].files[f])
           /\ \A g, f : IsFile(R, g, f) => IsFile(S, g, f)
<1>1. /\ DOMAIN S.users = DOMAIN R.users
      /\ DOMAIN S.groups = DOMAIN R.groups
      /\ \A g \in DOMAIN S.groups : GroupAgrees(S.groups[g], R.groups[g])
  BY AgreeSplit DEF SameAccounts
<1>2. \A g \in DOMAIN S.groups : S.groups[g] \in GroupRecord /\ R.groups[g] \in GroupRecord
  BY <1>1, StateFields, GetMap
<1>3. ASSUME NEW g, NEW f
      PROVE  IsFile(S, g, f) <=> IsFile(R, g, f)
  BY <1>1 DEF IsFile, GroupAgrees, SameFiles
<1>4. ASSUME NEW g, NEW f, IsFile(S, g, f)
      PROVE  MetaAgrees(S.groups[g].files[f], R.groups[g].files[f])
  BY <1>1, <1>4 DEF IsFile, GroupAgrees, SameFiles, MetaAgrees
<1>. QED
  BY <1>1, <1>2, <1>3, <1>4, KnownFile

\* Both replace a group, or add one, by groups that agree.
LEMMA SetGroupAgrees ==
    ASSUME NEW S \in State, NEW R \in State, Agree(S, R),
           NEW gid, NEW grp, NEW other, GroupAgrees(grp, other)
    PROVE  Agree(SetGroup(S, gid, grp), SetGroup(R, gid, other))
<1>. DEFINE T == SetGroup(S, gid, grp)
            Q == SetGroup(R, gid, other)
<1>1. /\ T.users = S.users /\ T.groups = Put(S.groups, gid, grp)
      /\ Q.users = R.users /\ Q.groups = Put(R.groups, gid, other)
  BY DEF SetGroup, State
<1>2. /\ DOMAIN T.groups = DOMAIN S.groups \cup {gid} /\ T.groups[gid] = grp
      /\ \A g \in DOMAIN S.groups \ {gid} : T.groups[g] = S.groups[g]
  BY <1>1 DEF Put
<1>3. /\ DOMAIN Q.groups = DOMAIN R.groups \cup {gid} /\ Q.groups[gid] = other
      /\ \A g \in DOMAIN R.groups \ {gid} : Q.groups[g] = R.groups[g]
  BY <1>1 DEF Put
<1>. HIDE DEF T, Q
<1>4. SameAccounts(T, Q)
  BY <1>1, AgreeSplit DEF SameAccounts
<1>5. ASSUME NEW g \in DOMAIN T.groups
      PROVE  GroupAgrees(T.groups[g], Q.groups[g])
  <2>1. CASE g = gid
    BY <1>2, <1>3, <2>1
  <2>2. CASE g # gid
    BY <1>2, <1>3, <2>2, AgreeSplit
  <2>. QED
    BY <2>1, <2>2
<1>6. Agree(T, Q)
  BY <1>2, <1>3, <1>4, <1>5, AgreeSplit
<1>. QED
  BY <1>6 DEF T, Q

\* Both replace a file, or add one, by files that agree.
LEMMA SetFileAgrees ==
    ASSUME NEW S \in State, NEW R \in State, Agree(S, R),
           NEW gid \in DOMAIN S.groups, NEW file, NEW meta, NEW other,
           MetaAgrees(meta, other)
    PROVE  Agree(SetFile(S, gid, file, meta), SetFile(R, gid, file, other))
<1>. DEFINE G == S.groups[gid]
            H == R.groups[gid]
            grp == [G EXCEPT !.files = Put(@, file, meta)]
            oth == [H EXCEPT !.files = Put(@, file, other)]
<1>1. G \in GroupRecord /\ H \in GroupRecord /\ GroupAgrees(G, H)
  BY AgreeLookup
<1>2. /\ grp.owner = G.owner /\ grp.members = G.members /\ grp.pending = G.pending
      /\ grp.files = Put(G.files, file, meta)
      /\ oth.owner = H.owner /\ oth.members = H.members /\ oth.pending = H.pending
      /\ oth.files = Put(H.files, file, other)
  <2>. HIDE DEF G, H
  <2>. QED
    BY <1>1 DEF GroupRecord
<1>3. SetFile(S, gid, file, meta) = SetGroup(S, gid, grp)
      /\ SetFile(R, gid, file, other) = SetGroup(R, gid, oth)
  BY DEF SetFile
<1>. HIDE DEF G, H, grp, oth
<1>4. SameFiles(grp.files, oth.files)
  <2>1. /\ DOMAIN grp.files = DOMAIN G.files \cup {file} /\ grp.files[file] = meta
        /\ \A f \in DOMAIN G.files \ {file} : grp.files[f] = G.files[f]
    BY <1>2 DEF Put
  <2>2. /\ DOMAIN oth.files = DOMAIN H.files \cup {file} /\ oth.files[file] = other
        /\ \A f \in DOMAIN H.files \ {file} : oth.files[f] = H.files[f]
    BY <1>2 DEF Put
  <2>3. SameFiles(G.files, H.files)
    BY <1>1 DEF GroupAgrees
  <2>4. ASSUME NEW f \in DOMAIN grp.files
        PROVE  MetaAgrees(grp.files[f], oth.files[f])
    <3>1. CASE f = file
      BY <2>1, <2>2, <3>1
    <3>2. CASE f # file
      BY <2>1, <2>2, <2>3, <3>2 DEF SameFiles, MetaAgrees
    <3>. QED
      BY <3>1, <3>2
  <2>. QED
    BY <2>1, <2>2, <2>3, <2>4 DEF SameFiles, MetaAgrees
<1>5. GroupAgrees(grp, oth)
  BY <1>1, <1>2, <1>4 DEF GroupAgrees
<1>. QED
  BY <1>3, <1>5, SetGroupAgrees

\* Registering a seeder, or dropping one, in files that agree.
LEMMA SeederAgrees ==
    ASSUME NEW meta \in FileMeta, NEW other \in FileMeta, MetaAgrees(meta, other),
           NEW uid, NEW addr, NEW bits
    PROVE  /\ MetaAgrees(WithSeeder(meta, uid, addr, bits), WithSeeder(other, uid, addr, bits))
           /\ MetaAgrees(WithoutSeeder(meta, uid), WithoutSeeder(other, uid))
           /\ MetaAgrees(WithoutSeeder(meta, uid), other)
<1>. DEFINE ref == [addr |-> addr, bits |-> bits]
<1>1. /\ WithSeeder(meta, uid, addr, bits).seeders = Put(meta.seeders, uid, ref)
      /\ WithSeeder(other, uid, addr, bits).seeders = Put(other.seeders, uid, ref)
      /\ WithoutSeeder(meta, uid).seeders = Erase(meta.seeders, uid)
      /\ WithoutSeeder(other, uid).seeders = Erase(other.seeders, uid)
  BY DEF WithSeeder, WithoutSeeder, FileMeta
<1>. HIDE DEF ref
<1>2. IsRestriction(meta.seeders, other.seeders)
  BY DEF MetaAgrees
<1>3. IsRestriction(Put(meta.seeders, uid, ref), Put(other.seeders, uid, ref))
  BY <1>2 DEF IsRestriction, Put
<1>4. /\ IsRestriction(Erase(meta.seeders, uid), Erase(other.seeders, uid))
      /\ IsRestriction(Erase(meta.seeders, uid), other.seeders)
  BY <1>2 DEF IsRestriction, Erase, Restrict
<1>. QED
  BY <1>1, <1>3, <1>4, SeederContent DEF MetaAgrees

----------------------------------------------------------------------------
(* What an operation does to a replica that agrees *)

\* A success at one tracker is a success at the other, and they agree again.
Replays(mine, theirs) ==
    mine.status = "OK" => theirs.status = "OK" /\ Agree(mine.state, theirs.state)

LEMMA create_userReplays ==
    ASSUME NEW S \in State, NEW R \in State, Agree(S, R), NEW uid, NEW pwd
    PROVE  Replays(create_user(S, uid, pwd), create_user(R, uid, pwd))
<1>. DEFINE rec == [password |-> hash_password(pwd), online |-> FALSE, addr |-> Nil]
<1>1. CASE uid \in DOMAIN S.users
  BY <1>1 DEF create_user, Fail, Replays
<1>2. CASE uid \notin DOMAIN S.users
  <2>1. uid \notin DOMAIN R.users
    BY <1>2, AgreeLookup
  <2>2. /\ create_user(S, uid, pwd) = Done(SetUser(S, uid, rec))
        /\ create_user(R, uid, pwd) = Done(SetUser(R, uid, rec))
    BY <1>2, <2>1 DEF create_user
  <2>. HIDE DEF rec
  <2>3. /\ SetUser(S, uid, rec).users = Put(S.users, uid, rec)
        /\ SetUser(R, uid, rec).users = Put(R.users, uid, rec)
        /\ SetUser(S, uid, rec).groups = S.groups
        /\ SetUser(R, uid, rec).groups = R.groups
    BY DEF SetUser, State
  <2>4. SameAccounts(SetUser(S, uid, rec), SetUser(R, uid, rec))
    BY <2>3, AgreeSplit DEF SameAccounts, Put
  <2>5. Agree(SetUser(S, uid, rec), SetUser(R, uid, rec))
    BY <2>3, <2>4, AgreeSplit
  <2>. QED
    BY <2>2, <2>5 DEF Replays, Done
<1>. QED
  BY <1>1, <1>2

LEMMA create_groupReplays ==
    ASSUME NEW S \in State, NEW R \in State, Agree(S, R), NEW gid, NEW owner
    PROVE  Replays(create_group(S, gid, owner), create_group(R, gid, owner))
<1>. DEFINE grp == [owner |-> owner, members |-> {owner}, pending |-> {}, files |-> EmptyMap]
<1>1. CASE owner \notin DOMAIN S.users \/ gid \in DOMAIN S.groups
  BY <1>1 DEF create_group, Fail, Replays
<1>2. CASE owner \in DOMAIN S.users /\ gid \notin DOMAIN S.groups
  <2>1. owner \in DOMAIN R.users /\ gid \notin DOMAIN R.groups
    BY <1>2, AgreeLookup
  <2>2. /\ create_group(S, gid, owner) = Done(SetGroup(S, gid, grp))
        /\ create_group(R, gid, owner) = Done(SetGroup(R, gid, grp))
    BY <1>2, <2>1 DEF create_group
  <2>3. GroupAgrees(grp, grp)
    BY DEF GroupAgrees, SameFiles, IsRestriction, EmptyMap
  <2>. HIDE DEF grp
  <2>4. Agree(SetGroup(S, gid, grp), SetGroup(R, gid, grp))
    BY <2>3, SetGroupAgrees
  <2>. QED
    BY <2>2, <2>4 DEF Replays, Done
<1>. QED
  BY <1>1, <1>2

LEMMA join_groupReplays ==
    ASSUME NEW S \in State, NEW R \in State, Agree(S, R), NEW gid, NEW uid
    PROVE  Replays(join_group(S, gid, uid), join_group(R, gid, uid))
<1>. DEFINE G == S.groups[gid]
            H == R.groups[gid]
            grp == [G EXCEPT !.pending = @ \cup {uid}]
            oth == [H EXCEPT !.pending = @ \cup {uid}]
<1>1. CASE /\ gid \in DOMAIN S.groups /\ uid \in DOMAIN S.users
           /\ uid \notin G.members \cup G.pending
  <2>1. /\ G \in GroupRecord /\ H \in GroupRecord /\ GroupAgrees(G, H)
        /\ gid \in DOMAIN R.groups /\ uid \in DOMAIN R.users
    BY <1>1, AgreeLookup
  <2>2. uid \notin H.members \cup H.pending
    BY <1>1, <2>1 DEF GroupAgrees
  <2>3. /\ join_group(S, gid, uid) = Done(SetGroup(S, gid, grp))
        /\ join_group(R, gid, uid) = Done(SetGroup(R, gid, oth))
    BY <1>1, <2>1, <2>2 DEF join_group
  <2>4. GroupAgrees(grp, oth)
    <3>. HIDE DEF G, H
    <3>. QED
      BY <2>1 DEF GroupAgrees, GroupRecord
  <2>. HIDE DEF grp, oth
  <2>5. Agree(SetGroup(S, gid, grp), SetGroup(R, gid, oth))
    BY <2>4, SetGroupAgrees
  <2>. QED
    BY <2>3, <2>5 DEF Replays, Done
<1>2. CASE ~(/\ gid \in DOMAIN S.groups /\ uid \in DOMAIN S.users
             /\ uid \notin G.members \cup G.pending)
  BY <1>2 DEF join_group, Fail, Replays
<1>. QED
  BY <1>1, <1>2

LEMMA accept_requestReplays ==
    ASSUME NEW S \in State, NEW R \in State, Agree(S, R), NEW gid, NEW owner, NEW uid
    PROVE  Replays(accept_request(S, gid, owner, uid), accept_request(R, gid, owner, uid))
<1>. DEFINE G == S.groups[gid]
            H == R.groups[gid]
            grp == [G EXCEPT !.pending = @ \ {uid}, !.members = @ \cup {uid}]
            oth == [H EXCEPT !.pending = @ \ {uid}, !.members = @ \cup {uid}]
<1>1. CASE gid \in DOMAIN S.groups /\ G.owner = owner /\ uid \in G.pending
  <2>1. /\ G \in GroupRecord /\ H \in GroupRecord /\ GroupAgrees(G, H)
        /\ gid \in DOMAIN R.groups
    BY <1>1, AgreeLookup
  <2>2. H.owner = owner /\ uid \in H.pending
    BY <1>1, <2>1 DEF GroupAgrees
  <2>3. /\ accept_request(S, gid, owner, uid) = Done(SetGroup(S, gid, grp))
        /\ accept_request(R, gid, owner, uid) = Done(SetGroup(R, gid, oth))
    BY <1>1, <2>1, <2>2 DEF accept_request
  <2>4. GroupAgrees(grp, oth)
    <3>. HIDE DEF G, H
    <3>. QED
      BY <2>1 DEF GroupAgrees, GroupRecord
  <2>. HIDE DEF grp, oth
  <2>5. Agree(SetGroup(S, gid, grp), SetGroup(R, gid, oth))
    BY <2>4, SetGroupAgrees
  <2>. QED
    BY <2>3, <2>5 DEF Replays, Done
<1>2. CASE ~(gid \in DOMAIN S.groups /\ G.owner = owner /\ uid \in G.pending)
  BY <1>2 DEF accept_request, Fail, Replays
<1>. QED
  BY <1>1, <1>2

\* The heir is the same at both, since the members are.
LEMMA leave_groupReplays ==
    ASSUME NEW S \in State, NEW R \in State, Agree(S, R), NEW gid, NEW uid
    PROVE  Replays(leave_group(S, gid, uid), leave_group(R, gid, uid))
<1>. DEFINE G == S.groups[gid]
            H == R.groups[gid]
<1>1. CASE gid \notin DOMAIN S.groups \/ uid \notin G.members
  BY <1>1 DEF leave_group, Fail, Replays
<1>2. CASE gid \in DOMAIN S.groups /\ uid \in G.members
  <2>1. /\ G \in GroupRecord /\ H \in GroupRecord /\ GroupAgrees(G, H)
        /\ gid \in DOMAIN R.groups
    BY <1>2, AgreeLookup
  <2>2. H.owner = G.owner /\ H.members = G.members
    BY <2>1 DEF GroupAgrees
  <2>3. CASE uid = G.owner /\ G.members = {uid}
    <3>. DEFINE T == [S EXCEPT !.groups = Erase(@, gid)]
                Q == [R EXCEPT !.groups = Erase(@, gid)]
    <3>1. leave_group(S, gid, uid) = Done(T) /\ leave_group(R, gid, uid) = Done(Q)
      BY <1>2, <2>1, <2>2, <2>3 DEF leave_group
    <3>2. /\ T.users = S.users /\ T.groups = Erase(S.groups, gid)
          /\ Q.users = R.users /\ Q.groups = Erase(R.groups, gid)
      BY DEF State
    <3>. HIDE DEF T, Q
    <3>3. SameAccounts(T, Q)
      BY <3>2, AgreeSplit DEF SameAccounts
    <3>4. /\ DOMAIN T.groups = DOMAIN Q.groups
          /\ \A g \in DOMAIN T.groups : GroupAgrees(T.groups[g], Q.groups[g])
      BY <3>2, AgreeSplit DEF Erase, Restrict
    <3>5. Agree(T, Q)
      BY <3>3, <3>4, AgreeSplit
    <3>. QED
      BY <3>1, <3>5 DEF Replays, Done
  <2>4. CASE ~(uid = G.owner /\ G.members = {uid})
    <3>. DEFINE grp == WithoutMember(G, uid)
                oth == WithoutMember(H, uid)
    <3>1. /\ leave_group(S, gid, uid) = Done(SetGroup(S, gid, grp))
          /\ leave_group(R, gid, uid) = Done(SetGroup(R, gid, oth))
      BY <1>2, <2>1, <2>2, <2>4 DEF leave_group
    <3>2. GroupAgrees(grp, oth)
      <4>. HIDE DEF G, H
      <4>. QED
        BY <2>1 DEF GroupAgrees, GroupRecord, WithoutMember
    <3>. HIDE DEF grp, oth
    <3>3. Agree(SetGroup(S, gid, grp), SetGroup(R, gid, oth))
      BY <3>2, SetGroupAgrees
    <3>. QED
      BY <3>1, <3>3 DEF Replays, Done
  <2>. QED
    BY <2>3, <2>4
<1>. QED
  BY <1>1, <1>2

LEMMA add_fileReplays ==
    ASSUME NEW S \in State, NEW R \in State, Agree(S, R),
           NEW gid, NEW uid, NEW addr, NEW file, NEW content \in Content
    PROVE  Replays(add_file(S, gid, uid, addr, file, content),
                   add_file(R, gid, uid, addr, file, content))
<1>. DEFINE old == S.groups[gid].files[file]
            their == R.groups[gid].files[file]
            fresh == [content |-> content, seeders |-> EmptyMap]
<1>1. CASE gid \notin DOMAIN S.groups \/ uid \notin S.groups[gid].members
  BY <1>1 DEF add_file, Fail, Replays
<1>2. CASE gid \in DOMAIN S.groups /\ uid \in S.groups[gid].members
  <2>1. gid \in DOMAIN R.groups /\ uid \in R.groups[gid].members
    BY <1>2, AgreeLookup DEF GroupAgrees
  <2>2. CASE ~IsFile(S, gid, file)
    <3>. DEFINE meta == WithSeeder(fresh, uid, addr, Piece)
    <3>1. ~IsFile(R, gid, file)
      BY <2>2, AgreeLookup
    <3>2. /\ add_file(S, gid, uid, addr, file, content) = Done(SetFile(S, gid, file, meta))
          /\ add_file(R, gid, uid, addr, file, content) = Done(SetFile(R, gid, file, meta))
      BY <1>2, <2>1, <2>2, <3>1 DEF add_file
    <3>. HIDE DEF meta
    <3>3. MetaAgrees(meta, meta)
      BY DEF MetaAgrees, IsRestriction
    <3>4. Agree(SetFile(S, gid, file, meta), SetFile(R, gid, file, meta))
      BY <1>2, <3>3, SetFileAgrees
    <3>. QED
      BY <3>2, <3>4 DEF Replays, Done
  <2>3. CASE IsFile(S, gid, file) /\ old.content # content
    BY <1>2, <2>3 DEF add_file, Fail, Replays
  <2>4. CASE IsFile(S, gid, file) /\ old.content = content
    <3>. DEFINE meta == WithSeeder(old, uid, addr, Piece)
                oth == WithSeeder(their, uid, addr, Piece)
    <3>1. /\ IsFile(R, gid, file) /\ MetaAgrees(old, their)
          /\ old \in FileMeta /\ their \in FileMeta
      BY <2>4, AgreeLookup
    <3>2. their.content = content
      BY <2>4, <3>1 DEF MetaAgrees
    <3>3. /\ add_file(S, gid, uid, addr, file, content) = Done(SetFile(S, gid, file, meta))
          /\ add_file(R, gid, uid, addr, file, content) = Done(SetFile(R, gid, file, oth))
      BY <1>2, <2>1, <2>4, <3>1, <3>2 DEF add_file
    <3>4. MetaAgrees(meta, oth)
      BY <3>1, SeederAgrees
    <3>. HIDE DEF meta, oth
    <3>5. Agree(SetFile(S, gid, file, meta), SetFile(R, gid, file, oth))
      BY <1>2, <3>4, SetFileAgrees
    <3>. QED
      BY <3>3, <3>5 DEF Replays, Done
  <2>. QED
    BY <2>2, <2>3, <2>4
<1>. QED
  BY <1>1, <1>2

\* The replica lists every seeder the tracker lists, so the one that stops is there.
LEMMA stop_shareReplays ==
    ASSUME NEW S \in State, NEW R \in State, Agree(S, R), NEW gid, NEW uid, NEW file
    PROVE  Replays(stop_share(S, gid, uid, file), stop_share(R, gid, uid, file))
<1>. DEFINE old == S.groups[gid].files[file]
            their == R.groups[gid].files[file]
<1>1. CASE ~IsFile(S, gid, file) \/ uid \notin DOMAIN old.seeders
  BY <1>1 DEF stop_share, Fail, Replays
<1>2. CASE IsFile(S, gid, file) /\ uid \in DOMAIN old.seeders
  <2>. DEFINE meta == WithoutSeeder(old, uid)
              oth == WithoutSeeder(their, uid)
  <2>1. /\ IsFile(R, gid, file) /\ MetaAgrees(old, their)
        /\ old \in FileMeta /\ their \in FileMeta
    BY <1>2, AgreeLookup
  <2>2. uid \in DOMAIN their.seeders
    BY <1>2, <2>1 DEF MetaAgrees, IsRestriction
  <2>3. /\ stop_share(S, gid, uid, file) = Done(SetFile(S, gid, file, meta))
        /\ stop_share(R, gid, uid, file) = Done(SetFile(R, gid, file, oth))
    BY <1>2, <2>1, <2>2 DEF stop_share
  <2>4. MetaAgrees(meta, oth)
    BY <2>1, SeederAgrees
  <2>5. gid \in DOMAIN S.groups
    BY <1>2 DEF IsFile
  <2>. HIDE DEF meta, oth
  <2>6. Agree(SetFile(S, gid, file, meta), SetFile(R, gid, file, oth))
    BY <2>4, <2>5, SetFileAgrees
  <2>. QED
    BY <2>3, <2>6 DEF Replays, Done
<1>. QED
  BY <1>1, <1>2

LEMMA update_bitfieldReplays ==
    ASSUME NEW S \in State, NEW R \in State, Agree(S, R),
           NEW gid, NEW uid, NEW addr, NEW file, NEW bits
    PROVE  Replays(update_bitfield(S, gid, uid, addr, file, bits),
                   update_bitfield(R, gid, uid, addr, file, bits))
<1>. DEFINE old == S.groups[gid].files[file]
            their == R.groups[gid].files[file]
<1>1. CASE ~IsFile(S, gid, file) \/ uid \notin S.groups[gid].members
  BY <1>1 DEF update_bitfield, Fail, Replays
<1>2. CASE IsFile(S, gid, file) /\ uid \in S.groups[gid].members
  <2>. DEFINE meta == WithSeeder(old, uid, addr, bits)
              oth == WithSeeder(their, uid, addr, bits)
  <2>1. gid \in DOMAIN S.groups
    BY <1>2 DEF IsFile
  <2>2. /\ IsFile(R, gid, file) /\ MetaAgrees(old, their)
        /\ old \in FileMeta /\ their \in FileMeta
        /\ gid \in DOMAIN R.groups /\ uid \in R.groups[gid].members
    BY <1>2, <2>1, AgreeLookup DEF GroupAgrees
  <2>3. /\ update_bitfield(S, gid, uid, addr, file, bits) = Done(SetFile(S, gid, file, meta))
        /\ update_bitfield(R, gid, uid, addr, file, bits) = Done(SetFile(R, gid, file, oth))
    BY <1>2, <2>1, <2>2 DEF update_bitfield
  <2>4. MetaAgrees(meta, oth)
    BY <2>2, SeederAgrees
  <2>. HIDE DEF meta, oth
  <2>5. Agree(SetFile(S, gid, file, meta), SetFile(R, gid, file, oth))
    BY <2>1, <2>4, SetFileAgrees
  <2>. QED
    BY <2>3, <2>5 DEF Replays, Done
<1>. QED
  BY <1>1, <1>2

\* An operation that a tracker executed succeeds at a tracker that agrees with it,
\* and they agree afterwards, although logouts make their seeder lists differ.
THEOREM ExecuteReplays ==
    ASSUME NEW S \in State, NEW R \in State, Agree(S, R), NEW op \in Op,
           Execute(S, op).status = "OK"
    PROVE  /\ apply_remote(R, op).ok
           /\ Agree(Execute(S, op).state, apply_remote(R, op).state)
<1>1. Replays(Execute(S, op), Execute(R, op))
  <2>1. CASE op.type = "CREATE_USER"
    BY <2>1, create_userReplays DEF Execute
  <2>2. CASE op.type = "CREATE_GROUP"
    BY <2>2, create_groupReplays DEF Execute
  <2>3. CASE op.type = "JOIN_GROUP"
    BY <2>3, join_groupReplays DEF Execute
  <2>4. CASE op.type = "LEAVE_GROUP"
    BY <2>4, leave_groupReplays DEF Execute
  <2>5. CASE op.type = "ACCEPT_REQUEST"
    BY <2>5, accept_requestReplays DEF Execute
  <2>6. CASE op.type = "UPLOAD_FILE"
    <3>1. op.content \in Content
      BY <2>6 DEF Op
    <3>. QED
      BY <2>6, <3>1, add_fileReplays DEF Execute
  <2>7. CASE op.type = "STOP_SHARE"
    BY <2>7, stop_shareReplays DEF Execute
  <2>8. CASE op.type = "HAVE_PIECES"
    BY <2>8, update_bitfieldReplays DEF Execute
  <2>. QED
    BY <2>1, <2>2, <2>3, <2>4, <2>5, <2>6, <2>7, <2>8 DEF Op
<1>2. "OK" \in Benign(op.type)
  BY DEF Benign, Op
<1>. QED
  BY <1>1, <1>2 DEF Replays, apply_remote

----------------------------------------------------------------------------
(* What is not replicated *)

\* A login changes nothing that is replicated.
LEMMA LoginAgrees ==
    ASSUME NEW S \in State, NEW R, Agree(S, R), NEW uid, NEW pwd, NEW addr
    PROVE  Agree(login(S, uid, pwd, addr).state, R)
<1>1. CASE uid \notin DOMAIN S.users \/ S.users[uid].password # hash_password(pwd)
  BY <1>1 DEF login, Fail
<1>2. CASE uid \in DOMAIN S.users /\ S.users[uid].password = hash_password(pwd)
  <2>. DEFINE old == S.users[uid]
              rec == [old EXCEPT !.online = TRUE, !.addr = addr]
              T == SetUser(S, uid, rec)
  <2>1. old \in UserRecord
    BY <1>2, StateFields, GetMap
  <2>2. rec.password = old.password
    <3>. HIDE DEF old
    <3>. QED
      BY <2>1 DEF UserRecord
  <2>3. login(S, uid, pwd, addr).state = T
    BY <1>2 DEF login, Done
  <2>. HIDE DEF rec
  <2>4. T.groups = S.groups /\ T.users = Put(S.users, uid, rec)
    BY DEF SetUser, State
  <2>. HIDE DEF T
  <2>5. SameAccounts(T, R)
    BY <1>2, <2>2, <2>4, AgreeSplit DEF SameAccounts, Put
  <2>. QED
    BY <2>3, <2>4, <2>5, AgreeSplit
<1>. QED
  BY <1>1, <1>2

\* A logout takes entries out of seeder lists, which the replica may have more of.
LEMMA LogoutAgrees ==
    ASSUME NEW S \in State, NEW R \in State, Agree(S, R), NEW uid
    PROVE  Agree(logout(S, uid).state, R)
<1>1. CASE uid \notin DOMAIN S.users
  BY <1>1 DEF logout, Fail
<1>2. CASE uid \in DOMAIN S.users
  <2>. DEFINE old == S.users[uid]
              rec == [old EXCEPT !.online = FALSE]
              T == [users |-> Put(S.users, uid, rec), groups |-> EvictSeeder(S.groups, uid)]
  <2>1. old \in UserRecord
    BY <1>2, StateFields, GetMap
  <2>2. rec.password = old.password
    <3>. HIDE DEF old
    <3>. QED
      BY <2>1 DEF UserRecord
  <2>3. logout(S, uid).state = T
    BY <1>2 DEF logout, Done
  <2>. HIDE DEF rec
  <2>4. T.groups = EvictSeeder(S.groups, uid) /\ T.users = Put(S.users, uid, rec)
    OBVIOUS
  <2>. HIDE DEF T
  <2>5. SameAccounts(T, R)
    BY <1>2, <2>2, <2>4, AgreeSplit DEF SameAccounts, Put
  <2>6. DOMAIN T.groups = DOMAIN R.groups
    BY <2>4, AgreeSplit DEF EvictSeeder
  <2>7. ASSUME NEW g \in DOMAIN T.groups
        PROVE  GroupAgrees(T.groups[g], R.groups[g])
    <3>. DEFINE G == S.groups[g]
                files == [f \in DOMAIN G.files |-> WithoutSeeder(G.files[f], uid)]
    <3>1. g \in DOMAIN S.groups /\ T.groups[g] = [G EXCEPT !.files = files]
      BY <2>4 DEF EvictSeeder
    <3>2. G \in GroupRecord /\ GroupAgrees(G, R.groups[g])
      BY <3>1, AgreeLookup
    <3>3. /\ T.groups[g].files = files
          /\ T.groups[g].owner = G.owner /\ T.groups[g].members = G.members
          /\ T.groups[g].pending = G.pending
      <4>. HIDE DEF G, files
      <4>. QED
        BY <3>1, <3>2 DEF GroupRecord
    <3>4. ASSUME NEW f \in DOMAIN G.files
          PROVE  MetaAgrees(files[f], R.groups[g].files[f])
      <4>1. IsFile(S, g, f)
        BY <3>1 DEF IsFile
      <4>2. /\ G.files[f] \in FileMeta /\ R.groups[g].files[f] \in FileMeta
            /\ MetaAgrees(G.files[f], R.groups[g].files[f])
        BY <4>1, AgreeLookup
      <4>3. files[f] = WithoutSeeder(G.files[f], uid)
        OBVIOUS
      <4>. QED
        BY <4>2, <4>3, SeederAgrees
    <3>5. DOMAIN files = DOMAIN R.groups[g].files
      BY <3>2 DEF GroupAgrees, SameFiles
    <3>6. SameFiles(files, R.groups[g].files)
      <4>1. DOMAIN files = DOMAIN G.files
        OBVIOUS
      <4>. HIDE DEF files
      <4>. QED
        BY <3>4, <3>5, <4>1 DEF SameFiles, MetaAgrees
    <3>. HIDE DEF G, files
    <3>. QED
      BY <3>2, <3>3, <3>6 DEF GroupAgrees
  <2>. QED
    BY <2>3, <2>5, <2>6, <2>7, AgreeSplit
<1>. QED
  BY <1>1, <1>2

=============================================================================
