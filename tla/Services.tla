------------------------------ MODULE Services ------------------------------
(***************************************************************************)
(* SpaceService and VersionService: a call is a chain of lookups and        *)
(* manager calls, each in a transaction of its own.  Several clients run    *)
(* such chains at the same time; a chain may stop half-way with an          *)
(* exception, and what it did stays.                                        *)
(*                                                                         *)
(* A step is one manager call or one lookup, atomic as in IdCache.  A call  *)
(* that throws before it changed anything is a stuttering step and left     *)
(* out.  Names of indexes and their settings are not modelled: a request    *)
(* is the sequence of the indexes it asks for.                              *)
(***************************************************************************)
EXTENDS IdCache, Sequences

CONSTANTS
    Clients,
    NoName,      \* the name in the record of a client that runs no call
    MaxExtra,    \* bound: indexes under the key "indexes" of createSpace
    MaxUpdates   \* bound: indexes named in a call of updateSpace

ASSUME ServicesAssumption == MaxExtra \in Nat /\ MaxUpdates \in Nat

VARIABLES
    call,    \* client -> its call: where it is and what it has found
    alone    \* history: client -> no other client wrote since its call began

serviceVars == <<vars, call, alone>>

(* pc is the next step: "idle", or how createSpace ended ("exists",         *)
(* "created"), or one of the steps below.                                   *)
NoCall == [pc |-> "idle", name |-> NoName, uid |-> 0, space |-> 0, version |-> 0,
           index |-> 0, dflt |-> FALSE, todo |-> <<>>]

(* What createSpace may be asked for: the dense index always, the sparse    *)
(* one, and others by name, of which the first is the default again.        *)
Wanted ==
    {<<"default">> \o sparse \o [k \in 1..m |-> IF k = 1 THEN "default" ELSE "other"] :
        sparse \in {<<>>, <<"default">>}, m \in 0..MaxExtra}

(* What updateSpace may be asked for: indexes it finds or does not find (a  *)
(* request that names none changes nothing).                                *)
Updates == UNION {[1..m -> {"update", "add"}] : m \in 1..MaxUpdates}

Begin(c, first) ==
    /\ call[c].pc \in {"idle", "exists", "created"}
    /\ call' = [call EXCEPT ![c] = first]
    /\ alone' = [alone EXCEPT ![c] = TRUE]

Continue(c, next) ==
    /\ call' = [call EXCEPT ![c] = next]
    /\ alone' = [d \in Clients |-> \/ call'[d].pc = "idle"
                                   \/ alone[d] /\ (d = c \/ catalogVars' = catalogVars)]

(* After an exception, or at the end. *)
Leave(c) == Continue(c, NoCall)

(* IdCache::getVersionId with its answer; getDefaultVersionId asks for 0.   *)
Resolves(n, requested, v) ==
    /\ \E u \in Uids(n, requested) :
         /\ spaceNameCache' = CachedDefault(n, requested, u)
         /\ ResolveVersion(<<n, u>>, v)
    /\ UNCHANGED <<catalogVars, indexCaches, spaceIdCache>>

Unresolved(n, requested) ==
    /\ \/ Uids(n, requested) = {} /\ UNCHANGED <<spaceNameCache, versionCaches>>
       \/ \E u \in Uids(n, requested) :
            /\ spaceNameCache' = CachedDefault(n, requested, u)
            /\ NoVersion(<<n, u>>)
    /\ UNCHANGED <<catalogVars, indexCaches, spaceIdCache>>

(* SpaceManager::getSpaceByName, the first step of most calls. *)
FindSpace(c, n, pc, todo) ==
    /\ \E s \in SpacesNamed(n) :
         Begin(c, [NoCall EXCEPT !.pc = pc, !.name = n, !.space = s, !.todo = todo])
    /\ UNCHANGED vars

----------------------------------------------------------------------------
(* createSpace.  An exception in the check counts as "no such space".       *)

CheckName(c, n, wanted) ==
    \/ /\ \E v \in VersionId : Resolves(n, 0, v)
       /\ Begin(c, [NoCall EXCEPT !.pc = "exists", !.name = n])
    \/ /\ spaceSeq < MaxSpace   \* bound: no call begins that could not insert its row
       /\ Unresolved(n, 0)
       /\ Begin(c, [NoCall EXCEPT !.pc = "addSpace", !.name = n, !.todo = wanted])

CreateRow(c) ==
    LET self == call[c] IN
    /\ self.pc = "addSpace"
    /\ addSpace(self.name)
    /\ Continue(c, [self EXCEPT !.pc = "addFirstVersion", !.space = NextId(space, spaceSeq)])

CreateFirstVersion(c) ==
    LET self == call[c] IN
    /\ self.pc = "addFirstVersion"
    /\ \E t \in Times : addVersion(self.space, TRUE, t)
    /\ Continue(c, [self EXCEPT !.pc = "addIndex", !.version = NextId(version, versionSeq)])

(* The call with the first index of todo done: the last one ends createSpace. *)
NeverLast(self) == [self EXCEPT !.todo = Tail(@)]   \* faulty variant
IndexDone(self) ==
    [self EXCEPT !.todo = Tail(@), !.pc = IF Len(self.todo) = 1 THEN "created" ELSE @]

CreateIndex(c) ==
    LET self == call[c] IN
    /\ self.pc = "addIndex"
    /\ \E t \in Times : addVectorIndex(self.version, Head(self.todo) = "default", t)
    /\ Continue(c, IndexDone(self))

(* An unknown metric: the space and the indexes made so far stay. *)
RejectIndex(c) ==
    /\ call[c].pc = "addIndex"
    /\ UNCHANGED vars
    /\ Leave(c)

createSpace(c) ==
    \/ \E n \in Names, wanted \in Wanted : CheckName(c, n, wanted)
    \/ CreateRow(c)
    \/ CreateFirstVersion(c)
    \/ CreateIndex(c)
    \/ RejectIndex(c)

----------------------------------------------------------------------------
(* SpaceService::deleteSpace and VersionService::createVersion. *)

RemoveSpace(c) ==
    LET s == call[c].space IN
    /\ call[c].pc = "deleteSpace"
    /\ \/ deleteSpace(s)
       \/ s \notin DOMAIN space /\ UNCHANGED vars
    /\ Leave(c)

deleteSpaceNamed(c) ==
    \/ \E n \in Names : FindSpace(c, n, "deleteSpace", <<>>)
    \/ RemoveSpace(c)

(* The space may be gone by now: nothing checks the foreign key. *)
AddNewVersion(c) ==
    /\ call[c].pc = "addVersion"
    /\ \E t \in Times : addVersion(call[c].space, TRUE, t)
    /\ Leave(c)

createVersion(c) ==
    \/ /\ versionSeq < MaxVersion   \* bound, as in CheckName
       /\ \E n \in Names : FindSpace(c, n, "addVersion", <<>>)
    \/ AddNewVersion(c)

----------------------------------------------------------------------------
(* VersionService::deleteByVersionId; number 0 is the default version. *)

FindVersion(c, n, requested) ==
    \/ \E v \in VersionId :
         /\ Resolves(n, requested, v)
         /\ Begin(c, [NoCall EXCEPT !.pc = "deleteVersion", !.name = n,
                                    !.uid = requested, !.version = v])
    \/ Unresolved(n, requested) /\ Begin(c, NoCall)

RemoveVersion(c) ==
    LET v == call[c].version IN
    /\ call[c].pc = "deleteVersion"
    /\ \/ deleteVersion(v)
       \/ v \notin DOMAIN version /\ clean
    /\ Leave(c)

deleteByVersionId(c) ==
    \/ \E n \in Names, requested \in 0..MaxVersion : FindVersion(c, n, requested)
    \/ RemoveVersion(c)

----------------------------------------------------------------------------
(* SpaceService::updateSpace. *)

(* Refused when the version has vectors: those are in VectorStore, so here  *)
(* a call may be refused or not.                                            *)
FindDefault(c) ==
    LET self == call[c] IN
    /\ self.pc = "findDefault"
    /\ \/ \E v \in VersionId :
            /\ Resolves(self.name, 0, v)
            /\ Continue(c, [self EXCEPT !.pc = "update", !.version = v]) \/ Leave(c)
       \/ Unresolved(self.name, 0) /\ Leave(c)

(* The default flag of an index in the object a query makes of its row. *)
UnreadFlag(i) == FALSE   \* faulty variant: the column is not read
ReadFlag(i) == index[i].dflt

ReadIndex(c) ==
    LET self == call[c] IN
    /\ self.pc = "update" /\ self.todo # <<>> /\ Head(self.todo) = "update"
    /\ UNCHANGED vars
    /\ \E i \in IndexesOf(self.version) :
         Continue(c, [self EXCEPT !.pc = "writeIndex", !.index = i, !.dflt = ReadFlag(i)])

(* getVectorIndexByName returns a pointer into a vector it has destroyed:   *)
(* what is written back is the row as it was read, or the object's id is    *)
(* garbage by now and no row is written.                                    *)
WriteIndex(c) ==
    LET self == call[c] IN
    /\ self.pc = "writeIndex"
    /\ \/ /\ \E t \in Times :
               /\ self.index \in DOMAIN index => t = index[self.index].created
               /\ UpdateVectorIndex(self.index, self.version, self.dflt, t)
          /\ UNCHANGED cacheVars
       \/ UNCHANGED vars
    /\ Continue(c, [self EXCEPT !.pc = "update", !.index = 0, !.dflt = FALSE, !.todo = Tail(@)])

AddIndex(c) ==
    LET self == call[c] IN
    /\ self.pc = "update" /\ self.todo # <<>> /\ Head(self.todo) = "add"
    /\ \E t \in Times : addVectorIndex(self.version, FALSE, t)
    /\ Continue(c, [self EXCEPT !.todo = Tail(@)])

(* An index that is not found, or an unknown metric. *)
RejectUpdate(c) ==
    /\ call[c].pc \in {"update", "writeIndex"} /\ call[c].todo # <<>>
    /\ UNCHANGED vars
    /\ Leave(c)

(* SpaceManager::updateSpace writes back the name that was read. *)
WriteSpace(c) ==
    LET self == call[c] IN
    /\ self.pc = "update" /\ self.todo = <<>>
    /\ \/ UpdateSpace(self.space, self.name) /\ UNCHANGED cacheVars
       \/ self.space \notin DOMAIN space /\ UNCHANGED vars
    /\ Leave(c)

updateSpace(c) ==
    \/ \E n \in Names, todo \in Updates : FindSpace(c, n, "findDefault", todo)
    \/ FindDefault(c)
    \/ ReadIndex(c)
    \/ WriteIndex(c)
    \/ AddIndex(c)
    \/ RejectUpdate(c)
    \/ WriteSpace(c)

----------------------------------------------------------------------------

ServicesInit ==
    /\ Init
    /\ call = [c \in Clients |-> NoCall]
    /\ alone = [c \in Clients |-> TRUE]

ServicesNext ==
    \E c \in Clients :
        \/ createSpace(c)
        \/ deleteSpaceNamed(c)
        \/ createVersion(c)
        \/ deleteByVersionId(c)
        \/ updateSpace(c)

ServicesSpec == ServicesInit /\ [][ServicesNext]_serviceVars

----------------------------------------------------------------------------
(* Properties. *)

Steps == {"addSpace", "addFirstVersion", "addIndex", "deleteSpace", "addVersion",
          "deleteVersion", "findDefault", "update", "writeIndex"}

(* Every call is a record of the given shape, and createSpace only waits to *)
(* add an index while there is one left to add.                             *)
ServicesTypeOK ==
    /\ CacheTypeOK
    /\ call \in [Clients ->
            [pc : Steps \cup {"idle", "exists", "created"}, name : Names \cup {NoName},
             uid : 0..MaxVersion, space : 0..MaxSpace, version : 0..MaxVersion,
             index : 0..MaxIndex, dflt : BOOLEAN,
             todo : Seq({"default", "other", "update", "add"})]]
    /\ alone \in [Clients -> BOOLEAN]
    /\ \A c \in Clients : call[c].pc = "addIndex" => call[c].todo # <<>>

(* What a call found under a name is, for as long as the call runs, still   *)
(* what it was asked for, or gone: no step of another client (deletion,     *)
(* re-creation under the same name or number) makes the ids it holds point  *)
(* to the rows of another space, version or number.                         *)
FoundStillNamed ==
    \A c \in Clients :
        LET self == call[c] IN
        /\ self.space \in DOMAIN space => space[self.space] = self.name
        /\ self.version \in DOMAIN version =>
             LET row == version[self.version] IN
             /\ self.uid # 0 => row.uid = self.uid
             /\ self.space # 0 /\ self.pc \in {"addIndex", "created"} => row.space = self.space
             /\ row.space \in DOMAIN space => space[row.space] = self.name
        /\ self.index \in DOMAIN index => index[self.index].version = self.version

(* When createSpace returned and nobody else wrote meanwhile, the name      *)
(* resolves, to one space only; and if the call made the space, its version *)
(* has a default index.  So neither a stale cache entry nor the leavings of *)
(* an earlier call that failed half-way make createSpace report success     *)
(* without effect.                                                          *)
CreatedResolves ==
    \A c \in Clients :
        LET self == call[c]
            defaults == {v \in VersionsNamed(self.name) : version[v].dflt}
        IN  alone[c] =>
                /\ self.pc = "exists" => defaults # {}
                /\ self.pc = "created" =>
                     /\ defaults = {self.version}
                     /\ DefaultIndexes(self.version) # {}

(* A service call that nobody else's writes overlap never leaves a version  *)
(* that had a default index without one: updateSpace writes the flag of     *)
(* every index it touches back from the row it read.                        *)
DefaultIndexKept ==
    [][\A c \in Clients : alone[c] /\ call'[c] # call[c] =>
         \A v \in VersionId :
             DefaultIndexes(v) # {} /\ IndexesOf(v)' # {} => DefaultIndexes(v)' # {}]_serviceVars
=============================================================================
