--------------------------- MODULE TypedClientProofs ---------------------------
(***************************************************************************)
(* What the requests of the typed client guarantee, for any number of      *)
(* users, objects and changes: lemmas for a module that composes the       *)
(* client with something else.                                             *)
(***************************************************************************)
EXTENDS TypedClient, TLAPS

Held == [key : Keys, object : Object]

(***************************************************************************)
(* A copy that has the version of the stored object is the stored object,  *)
(* and no version is ahead of the server.                                  *)
(***************************************************************************)
CopiesCurrent ==
    /\ \A k \in Keys : objects[k] # None => objects[k].rv <= revision
    /\ \A u \in Users : held[u] # None =>
          LET k == held[u].key
          IN  /\ k[1] = Namespace[u]
              /\ held[u].object.rv <= revision
              /\ objects[k] # None /\ objects[k].rv = held[u].object.rv
                    => objects[k] = held[u].object

ClientInv ==
    /\ objects \in [Keys -> Object \cup {None}]
    /\ revision \in 1 .. MaxRevision
    /\ held \in [Users -> Held \cup {None}]
    /\ CopiesCurrent
    /\ SpecAndStatusApart

LEMMA StampType ==
    ASSUME ClientInv, revision < MaxRevision, NEW method \in Methods
    PROVE  Stamp(method) \in Content /\ Stamp(method).by = method /\ revision + 1 \in 1 .. MaxRevision
<1>. QED BY ClientAssumption DEF ClientInv, Stamp, Content

LEMMA ClientInitInv == ASSUME ClientInit PROVE ClientInv
<1>1. [rv |-> 1, labelled |-> TRUE, spec |-> [by |-> "Create", n |-> 1], status |-> None] \in Object
  BY ClientAssumption DEF Object, Content, Methods
<1>2. objects \in [Keys -> Object \cup {None}]
  BY <1>1 DEF ClientInit
<1>3. revision \in 1 .. MaxRevision /\ held \in [Users -> Held \cup {None}]
  BY ClientAssumption DEF ClientInit
<1>4. CopiesCurrent
  BY DEF ClientInit, CopiesCurrent
<1>5. SpecAndStatusApart
  BY DEF ClientInit, SpecAndStatusApart
<1>. QED BY <1>2, <1>3, <1>4, <1>5 DEF ClientInv

(***************************************************************************)
(* A change that gives one key a new object with a version of its own, and *)
(* leaves the copies of the users as they are.                             *)
(***************************************************************************)
LEMMA ChangeInv ==
    ASSUME ClientInv, NEW k \in Keys, NEW new \in Object,
           new.rv = revision + 1,
           new.spec.by \in {"Create", "Update", "Patch"},
           new.status # None => new.status.by \in {"UpdateStatus", "PatchStatus"},
           Change([objects EXCEPT ![k] = new])
    PROVE  /\ objects' \in [Keys -> Object \cup {None}]
           /\ revision' \in 1 .. MaxRevision /\ revision' = revision + 1
           /\ objects'[k] = new
           /\ \A other \in Keys \ {k} : objects'[other] = objects[other]
           /\ SpecAndStatusApart'
           /\ \A other \in Keys : objects'[other] # None => objects'[other].rv <= revision'
           /\ UNCHANGED held => ClientInv'
<1>1. objects' = [objects EXCEPT ![k] = new] /\ revision' = revision + 1 /\ revision < MaxRevision
  BY DEF Change
<1>2. objects' \in [Keys -> Object \cup {None}] /\ objects'[k] = new
      /\ \A other \in Keys \ {k} : objects'[other] = objects[other]
  BY <1>1 DEF ClientInv
<1>3. revision' \in 1 .. MaxRevision
  BY <1>1, ClientAssumption DEF ClientInv
<1>4. SpecAndStatusApart'
  BY <1>2 DEF ClientInv, SpecAndStatusApart
<1>5. \A other \in Keys : objects[other] # None => objects[other].rv \in 1 .. MaxRevision
  BY DEF ClientInv, Object
<1>6. \A other \in Keys : objects'[other] # None => objects'[other].rv <= revision'
  BY <1>1, <1>2, <1>5 DEF ClientInv, CopiesCurrent
<1>7. ASSUME UNCHANGED held PROVE ClientInv'
  <2>1. ASSUME NEW u \in Users, held[u] # None
        PROVE  /\ held[u].key[1] = Namespace[u]
               /\ held[u].object.rv <= revision'
               /\ objects'[held[u].key] # None /\ objects'[held[u].key].rv = held[u].object.rv
                     => objects'[held[u].key] = held[u].object
    <3>1. held[u].key \in Keys /\ held[u].object.rv \in 1 .. MaxRevision
      BY <2>1 DEF ClientInv, Held, Object
    <3>2. held[u].object.rv <= revision /\ held[u].key[1] = Namespace[u]
      BY <2>1 DEF ClientInv, CopiesCurrent
    <3>3. CASE held[u].key = k
      BY <1>1, <1>2, <3>1, <3>2, <3>3 DEF ClientInv
    <3>4. CASE held[u].key # k
      BY <1>1, <1>2, <2>1, <3>1, <3>2, <3>4 DEF ClientInv, CopiesCurrent
    <3>. QED BY <3>3, <3>4
  <2>2. CopiesCurrent'
    BY <1>6, <1>7, <2>1 DEF CopiesCurrent
  <2>. QED BY <1>2, <1>3, <1>4, <1>7, <2>2 DEF ClientInv
<1>. QED BY <1>1, <1>2, <1>3, <1>4, <1>6, <1>7

(***************************************************************************)
(* What an update leaves: the answer is the copy, so it is current again.  *)
(***************************************************************************)
LEMMA AnswerInv ==
    ASSUME ClientInv, NEW u \in Users, held[u] # None, NEW new \in Object,
           new.rv = revision + 1,
           new.spec.by \in {"Create", "Update", "Patch"},
           new.status # None => new.status.by \in {"UpdateStatus", "PatchStatus"},
           Change([objects EXCEPT ![held[u].key] = new]),
           TakeAnswer(u)
    PROVE  ClientInv'
<1>. DEFINE k == held[u].key
<1>1. held[u] \in Held /\ k \in Keys
  BY DEF ClientInv, Held
<1>2. /\ objects' \in [Keys -> Object \cup {None}]
      /\ revision' \in 1 .. MaxRevision /\ revision' = revision + 1
      /\ objects'[k] = new
      /\ \A other \in Keys \ {k} : objects'[other] = objects[other]
      /\ SpecAndStatusApart'
      /\ \A other \in Keys : objects'[other] # None => objects'[other].rv <= revision'
  BY <1>1, ChangeInv
<1>3. held' = [held EXCEPT ![u] = [held[u] EXCEPT !.object = new]]
  BY <1>2 DEF TakeAnswer
<1>4. [held[u] EXCEPT !.object = new] = [key |-> k, object |-> new]
  BY <1>1 DEF Held
<1>5. held'[u] = [key |-> k, object |-> new] /\ held' \in [Users -> Held \cup {None}]
  BY <1>1, <1>3, <1>4 DEF ClientInv, Held
<1>6. ASSUME NEW v \in Users, held'[v] # None
      PROVE  /\ held'[v].key[1] = Namespace[v]
             /\ held'[v].object.rv <= revision'
             /\ objects'[held'[v].key] # None /\ objects'[held'[v].key].rv = held'[v].object.rv
                   => objects'[held'[v].key] = held'[v].object
  <2>1. CASE v = u
    BY <1>2, <1>5, <2>1 DEF ClientInv, CopiesCurrent
  <2>2. CASE v # u
    <3>1. held'[v] = held[v] /\ held[v] # None
      BY <1>3, <1>6, <2>2 DEF ClientInv
    <3>2. held[v].key \in Keys /\ held[v].object.rv \in 1 .. MaxRevision
      BY <3>1 DEF ClientInv, Held, Object
    <3>3. held[v].object.rv <= revision /\ held[v].key[1] = Namespace[v]
      BY <3>1 DEF ClientInv, CopiesCurrent
    <3>4. CASE held[v].key = k
      BY <1>2, <3>1, <3>2, <3>3, <3>4 DEF ClientInv
    <3>5. CASE held[v].key # k
      BY <1>2, <3>1, <3>2, <3>3, <3>5 DEF ClientInv, CopiesCurrent
    <3>. QED BY <3>4, <3>5
  <2>. QED BY <2>1, <2>2
<1>7. CopiesCurrent'
  BY <1>2, <1>6 DEF CopiesCurrent
<1>. QED BY <1>2, <1>5, <1>7 DEF ClientInv

(***************************************************************************)
(* The put of a copy, to the object or to its status.                      *)
(***************************************************************************)
LEMMA EditedType ==
    ASSUME ClientInv, NEW u \in Users, held[u] # None, revision < MaxRevision,
           NEW method \in Methods, NEW labelled \in BOOLEAN
    PROVE  /\ Edited(u, method, labelled) \in Object
           /\ Edited(u, method, labelled).rv = held[u].object.rv
           /\ Edited(u, method, labelled).spec = Stamp(method)
           /\ Edited(u, method, labelled).status = Stamp(method)
<1>1. held[u].object \in Object
  BY DEF ClientInv, Held
<1>. QED BY <1>1, StampType DEF Edited, Object

LEMMA PutChange ==
    ASSUME ClientInv, NEW u \in Users, held[u] # None,
           NEW method \in Methods, NEW labelled \in BOOLEAN,
           NEW request,
           request.namespace = Namespace[u], request.name = held[u].key[2],
           held[u].key[1] = Namespace[u],
           request.body = Edited(u, method, labelled),
           Handle(request)
    PROVE  /\ revision < MaxRevision
           /\ KeyOf(request) = held[u].key
           /\ objects[held[u].key] # None /\ objects[held[u].key] = held[u].object
           /\ Change([objects EXCEPT ![held[u].key] = Replaced(held[u].object, request)])
<1>1. revision < MaxRevision
  BY DEF Handle, Change
<1>2. held[u].key \in Keys /\ held[u].key \in STRING \X STRING
  BY ClientAssumption DEF ClientInv, Held
<1>3. KeyOf(request) = held[u].key
  BY <1>2 DEF KeyOf
<1>4. request.body.rv = held[u].object.rv /\ held[u].object.rv \in 1 .. MaxRevision
  BY <1>1, EditedType DEF ClientInv, Held, Object
<1>5. objects[held[u].key] # None /\ objects[held[u].key].rv = held[u].object.rv
  BY <1>3, <1>4 DEF Handle, Accepts
<1>6. objects[held[u].key] = held[u].object
  BY <1>5 DEF ClientInv, CopiesCurrent
<1>7. Change([objects EXCEPT ![held[u].key] = Replaced(held[u].object, request)])
  BY <1>2, <1>3, <1>6 DEF Handle, ClientInv
<1>. QED BY <1>1, <1>3, <1>5, <1>6, <1>7

LEMMA UpdateInv ==
    ASSUME ClientInv, NEW u \in Users, Update(u)
    PROVE  ClientInv' /\ held[u] = [key |-> held[u].key, object |-> objects[held[u].key]]
           /\ \A k \in Keys : k # held[u].key => objects'[k] = objects[k]
<1>1. held[u] # None /\ held[u] \in Held /\ held[u].key[1] = Namespace[u] /\ TakeAnswer(u)
  BY DEF Update, ClientInv, CopiesCurrent
<1>2. PICK labelled \in BOOLEAN :
        Handle(Put(Namespace[u], held[u].key[2], Edited(u, "Update", labelled)))
  BY DEF Update
<1>. DEFINE request == Put(Namespace[u], held[u].key[2], Edited(u, "Update", labelled))
            new == Replaced(held[u].object, request)
<1>3. /\ request.namespace = Namespace[u] /\ request.name = held[u].key[2]
      /\ request.body = Edited(u, "Update", labelled) /\ request.subresource = ""
  BY DEF Put
<1>4. /\ revision < MaxRevision
      /\ objects[held[u].key] # None /\ objects[held[u].key] = held[u].object
      /\ Change([objects EXCEPT ![held[u].key] = new])
  BY <1>1, <1>2, <1>3, PutChange DEF Methods
<1>5. /\ request.body \in Object /\ request.body.spec = Stamp("Update")
  BY <1>1, <1>3, <1>4, EditedType DEF Methods
<1>6. Stamp("Update").by = "Update" /\ revision + 1 \in 1 .. MaxRevision
  BY <1>4, StampType DEF Methods
<1>7. held[u].object \in Object /\ held[u].key \in Keys
  BY <1>1 DEF Held
<1>8. new = [request.body EXCEPT !.status = held[u].object.status, !.rv = revision + 1]
  BY <1>3 DEF Replaced
<1>9. /\ new \in Object /\ new.rv = revision + 1
      /\ new.spec = Stamp("Update") /\ new.status = held[u].object.status
  BY <1>5, <1>6, <1>7, <1>8 DEF Object
<1>10. held[u].object # None /\ held[u].object.status # None
          => held[u].object.status.by \in {"UpdateStatus", "PatchStatus"}
  BY <1>4, <1>7 DEF ClientInv, SpecAndStatusApart
<1>11. ClientInv'
  BY <1>1, <1>4, <1>6, <1>9, <1>10, AnswerInv
<1>12. \A k \in Keys : k # held[u].key => objects'[k] = objects[k]
  BY <1>4, <1>7 DEF Change, ClientInv
<1>. QED BY <1>1, <1>4, <1>11, <1>12 DEF Held

LEMMA UpdateStatusInv ==
    ASSUME ClientInv, NEW u \in Users, UpdateStatus(u)
    PROVE  ClientInv' /\ held[u] = [key |-> held[u].key, object |-> objects[held[u].key]]
           /\ \A k \in Keys : k # held[u].key => objects'[k] = objects[k]
<1>1. held[u] # None /\ held[u] \in Held /\ held[u].key[1] = Namespace[u] /\ TakeAnswer(u)
  BY DEF UpdateStatus, ClientInv, CopiesCurrent
<1>2. PICK labelled \in BOOLEAN :
        Handle(PutStatus(Namespace[u], held[u].key[2], Edited(u, "UpdateStatus", labelled)))
  BY DEF UpdateStatus
<1>. DEFINE request == PutStatus(Namespace[u], held[u].key[2], Edited(u, "UpdateStatus", labelled))
            new == Replaced(held[u].object, request)
<1>3. /\ request.namespace = Namespace[u] /\ request.name = held[u].key[2]
      /\ request.body = Edited(u, "UpdateStatus", labelled) /\ request.subresource = "status"
  BY DEF PutStatus
<1>4. /\ revision < MaxRevision
      /\ objects[held[u].key] # None /\ objects[held[u].key] = held[u].object
      /\ Change([objects EXCEPT ![held[u].key] = new])
  BY <1>1, <1>2, <1>3, PutChange DEF Methods
<1>5. request.body.status = Stamp("UpdateStatus")
  BY <1>1, <1>3, <1>4, EditedType DEF Methods
<1>6. /\ Stamp("UpdateStatus") \in Content /\ Stamp("UpdateStatus").by = "UpdateStatus"
      /\ revision + 1 \in 1 .. MaxRevision
  BY <1>4, StampType DEF Methods
<1>7. held[u].object \in Object /\ held[u].key \in Keys
  BY <1>1 DEF Held
<1>8. new = [held[u].object EXCEPT !.status = request.body.status, !.rv = revision + 1]
  BY <1>3 DEF Replaced
<1>9. /\ new \in Object /\ new.rv = revision + 1
      /\ new.spec = held[u].object.spec /\ new.status = Stamp("UpdateStatus")
  BY <1>5, <1>6, <1>7, <1>8 DEF Object
<1>10. held[u].object.spec.by \in {"Create", "Update", "Patch"}
  BY <1>4, <1>7 DEF ClientInv, SpecAndStatusApart
<1>11. ClientInv'
  BY <1>1, <1>4, <1>6, <1>9, <1>10, AnswerInv
<1>12. \A k \in Keys : k # held[u].key => objects'[k] = objects[k]
  BY <1>4, <1>7 DEF Change, ClientInv
<1>. QED BY <1>1, <1>4, <1>11, <1>12 DEF Held

(***************************************************************************)
(* The other methods touch no copy.  None of them leaves a spec or status  *)
(* that an update made where there was another one.                        *)
(***************************************************************************)
NoUpdate ==
    \A k \in Keys : objects[k] # None /\ objects'[k] # None =>
        /\ objects'[k].spec = objects[k].spec \/ objects'[k].spec.by # "Update"
        /\ objects'[k].status = objects[k].status \/ objects'[k].status.by # "UpdateStatus"

LEMMA CreateInv == ASSUME ClientInv, NEW u \in Users, CreateObject(u) PROVE ClientInv' /\ NoUpdate
<1>1. PICK k \in Keys, labelled \in BOOLEAN :
        /\ objects[k] = None
        /\ Change([objects EXCEPT ![k] = [rv |-> revision + 1, labelled |-> labelled,
                                          spec |-> Stamp("Create"), status |-> None]])
  BY DEF CreateObject
<1>. DEFINE new == [rv |-> revision + 1, labelled |-> labelled, spec |-> Stamp("Create"), status |-> None]
<1>2. /\ Stamp("Create") \in Content /\ Stamp("Create").by = "Create"
      /\ revision + 1 \in 1 .. MaxRevision
  BY <1>1, StampType DEF Methods, Change
<1>3. new \in Object
  BY <1>2 DEF Object
<1>4. UNCHANGED held
  BY DEF CreateObject
<1>5. ClientInv' /\ \A other \in Keys \ {k} : objects'[other] = objects[other]
  BY <1>1, <1>2, <1>3, <1>4, ChangeInv
<1>. QED BY <1>1, <1>5 DEF NoUpdate

LEMMA PatchInv == ASSUME ClientInv, NEW u \in Users, Patch(u) PROVE ClientInv' /\ NoUpdate
<1>1. PICK k \in Keys :
        /\ objects[k] # None
        /\ \/ Change([objects EXCEPT ![k].spec = Stamp("Patch"), ![k].rv = revision + 1])
           \/ Change([objects EXCEPT ![k].status = Stamp("PatchStatus"), ![k].rv = revision + 1])
  BY DEF Patch
<1>2. UNCHANGED held /\ revision < MaxRevision /\ objects[k] \in Object
  BY <1>1 DEF Patch, Change, ClientInv
<1>3. /\ objects[k].spec.by \in {"Create", "Update", "Patch"}
      /\ objects[k].status # None => objects[k].status.by \in {"UpdateStatus", "PatchStatus"}
  BY <1>1 DEF ClientInv, SpecAndStatusApart
<1>4. /\ Stamp("Patch") \in Content /\ Stamp("Patch").by = "Patch"
      /\ Stamp("PatchStatus") \in Content /\ Stamp("PatchStatus").by = "PatchStatus"
      /\ revision + 1 \in 1 .. MaxRevision
  BY <1>2, StampType DEF Methods
<1>5. CASE Change([objects EXCEPT ![k].spec = Stamp("Patch"), ![k].rv = revision + 1])
  <2>. DEFINE new == [objects[k] EXCEPT !.spec = Stamp("Patch"), !.rv = revision + 1]
  <2>1. /\ new \in Object /\ new.rv = revision + 1
        /\ new.spec = Stamp("Patch") /\ new.status = objects[k].status
    BY <1>2, <1>4 DEF Object
  <2>2. [objects EXCEPT ![k].spec = Stamp("Patch"), ![k].rv = revision + 1] = [objects EXCEPT ![k] = new]
    BY DEF ClientInv
  <2>3. Change([objects EXCEPT ![k] = new])
    BY <1>5, <2>2
  <2>4. /\ new.spec.by \in {"Create", "Update", "Patch"}
        /\ new.status # None => new.status.by \in {"UpdateStatus", "PatchStatus"}
    BY <1>3, <1>4, <2>1
  <2>5. ClientInv' /\ objects'[k] = new /\ \A other \in Keys \ {k} : objects'[other] = objects[other]
    <3>. HIDE DEF new
    <3>. QED BY <1>2, <2>1, <2>3, <2>4, ChangeInv
  <2>. QED BY <1>4, <2>1, <2>5 DEF NoUpdate
<1>6. CASE Change([objects EXCEPT ![k].status = Stamp("PatchStatus"), ![k].rv = revision + 1])
  <2>. DEFINE new == [objects[k] EXCEPT !.status = Stamp("PatchStatus"), !.rv = revision + 1]
  <2>1. /\ new \in Object /\ new.rv = revision + 1
        /\ new.spec = objects[k].spec /\ new.status = Stamp("PatchStatus")
    BY <1>2, <1>4 DEF Object
  <2>2. [objects EXCEPT ![k].status = Stamp("PatchStatus"), ![k].rv = revision + 1]
          = [objects EXCEPT ![k] = new]
    BY DEF ClientInv
  <2>3. Change([objects EXCEPT ![k] = new])
    BY <1>6, <2>2
  <2>4. /\ new.spec.by \in {"Create", "Update", "Patch"}
        /\ new.status # None => new.status.by \in {"UpdateStatus", "PatchStatus"}
    BY <1>3, <1>4, <2>1
  <2>5. ClientInv' /\ objects'[k] = new /\ \A other \in Keys \ {k} : objects'[other] = objects[other]
    <3>. HIDE DEF new
    <3>. QED BY <1>2, <2>1, <2>3, <2>4, ChangeInv
  <2>. QED BY <1>4, <2>1, <2>5 DEF NoUpdate
<1>. QED BY <1>1, <1>5, <1>6

LEMMA RemoveInv ==
    ASSUME ClientInv, UNCHANGED held, NEW gone \in SUBSET Keys,
           Change([k \in Keys |-> IF k \in gone THEN None ELSE objects[k]])
    PROVE  ClientInv' /\ NoUpdate
<1>1. /\ objects' = [k \in Keys |-> IF k \in gone THEN None ELSE objects[k]]
      /\ revision' = revision + 1 /\ revision < MaxRevision
  BY DEF Change
<1>2. objects' \in [Keys -> Object \cup {None}]
  BY <1>1 DEF ClientInv
<1>3. revision' \in 1 .. MaxRevision
  BY <1>1, ClientAssumption DEF ClientInv
<1>4. \A k \in Keys : objects'[k] = None \/ objects'[k] = objects[k]
  BY <1>1
<1>5. SpecAndStatusApart' /\ NoUpdate
  BY <1>4 DEF ClientInv, SpecAndStatusApart, NoUpdate
<1>6. CopiesCurrent'
  <2>1. \A k \in Keys : objects'[k] # None => objects'[k].rv <= revision'
    <3>1. ASSUME NEW k \in Keys, objects'[k] # None PROVE objects'[k].rv <= revision'
      <4>1. objects'[k] = objects[k] /\ objects[k] \in Object
        BY <1>4, <3>1 DEF ClientInv
      <4>2. objects[k].rv <= revision
        BY <3>1, <4>1 DEF ClientInv, CopiesCurrent
      <4>. QED BY <1>1, <4>1, <4>2 DEF ClientInv, Object
    <3>. QED BY <3>1
  <2>2. ASSUME NEW u \in Users, held[u] # None
        PROVE  /\ held[u].key[1] = Namespace[u]
               /\ held[u].object.rv <= revision'
               /\ objects'[held[u].key] # None /\ objects'[held[u].key].rv = held[u].object.rv
                     => objects'[held[u].key] = held[u].object
    <3>1. held[u].key \in Keys /\ held[u].object.rv \in 1 .. MaxRevision
      BY <2>2 DEF ClientInv, Held, Object
    <3>2. held[u].object.rv <= revision /\ held[u].key[1] = Namespace[u]
      BY <2>2 DEF ClientInv, CopiesCurrent
    <3>3. objects'[held[u].key] # None => objects'[held[u].key] = objects[held[u].key]
      BY <1>4, <3>1
    <3>. QED BY <1>1, <2>2, <3>1, <3>2, <3>3 DEF ClientInv, CopiesCurrent
  <2>. QED BY <2>1, <2>2 DEF CopiesCurrent
<1>. QED BY <1>2, <1>3, <1>5, <1>6 DEF ClientInv

LEMMA DeleteInv ==
    ASSUME ClientInv, NEW u \in Users, DeleteObject(u) \/ DeleteAll(u)
    PROVE  ClientInv' /\ NoUpdate
<1>1. CASE DeleteObject(u)
  <2>1. PICK k \in Keys : Change([objects EXCEPT ![k] = None])
    BY <1>1 DEF DeleteObject
  <2>2. [objects EXCEPT ![k] = None] = [j \in Keys |-> IF j \in {k} THEN None ELSE objects[j]]
    BY DEF ClientInv
  <2>. QED BY <1>1, <2>1, <2>2, RemoveInv DEF DeleteObject
<1>2. CASE DeleteAll(u)
  <2>1. PICK selector \in {{TRUE}, BOOLEAN} :
          Change([k \in Keys |->
              IF k \in Selected(DeleteCollection(Namespace[u], selector)) THEN None ELSE objects[k]])
    BY <1>2 DEF DeleteAll
  <2>2. Selected(DeleteCollection(Namespace[u], selector)) \in SUBSET Keys
    BY DEF Selected
  <2>. QED BY <1>2, <2>1, <2>2, RemoveInv DEF DeleteAll
<1>. QED BY <1>1, <1>2

LEMMA GetInv ==
    ASSUME ClientInv, NEW u \in Users, GetObject(u)
    PROVE  ClientInv' /\ UNCHANGED objects
<1>1. PICK k \in Keys :
        /\ KeyOf(Get(Namespace[u], k[2])) \in Keys
        /\ objects[KeyOf(Get(Namespace[u], k[2]))] # None
        /\ held' = [held EXCEPT ![u] = [key |-> KeyOf(Get(Namespace[u], k[2])),
                                        object |-> objects[KeyOf(Get(Namespace[u], k[2]))]]]
  BY DEF GetObject
<1>. DEFINE j == KeyOf(Get(Namespace[u], k[2]))
<1>2. UNCHANGED <<objects, revision>>
  BY DEF GetObject
<1>3. j \in Keys /\ objects[j] \in Object /\ j[1] = Namespace[u] /\ objects[j].rv <= revision
  BY <1>1 DEF ClientInv, CopiesCurrent, KeyOf, Get
<1>4. held'[u] = [key |-> j, object |-> objects[j]] /\ \A v \in Users \ {u} : held'[v] = held[v]
  BY <1>1 DEF ClientInv
<1>5. held' \in [Users -> Held \cup {None}]
  BY <1>1, <1>3 DEF ClientInv, Held
<1>6. CopiesCurrent'
  <2>. HIDE DEF j
  <2>. QED BY <1>2, <1>3, <1>4 DEF ClientInv, CopiesCurrent
<1>7. SpecAndStatusApart'
  BY <1>2 DEF ClientInv, SpecAndStatusApart
<1>. QED BY <1>2, <1>5, <1>6, <1>7 DEF ClientInv

(***************************************************************************)
(* All methods together.                                                   *)
(***************************************************************************)
ReplacesOnlyWhatIsRead ==
    \A k \in Keys :
        /\ Replaces(k)
        /\ \/ objects'[k].spec # objects[k].spec /\ objects'[k].spec.by = "Update"
           \/ objects'[k].status # objects[k].status /\ objects'[k].status.by = "UpdateStatus"
        => ReadBefore(k)

LEMMA ClientStep ==
    ASSUME ClientInv, (\E u \in Users : Use(u) \/ GetObject(u)) \/ UNCHANGED clientVars
    PROVE  ClientInv' /\ ReplacesOnlyWhatIsRead
<1>1. ASSUME NEW u \in Users, Update(u) \/ UpdateStatus(u)
      PROVE  ClientInv' /\ ReplacesOnlyWhatIsRead
  <2>1. /\ ClientInv' /\ held[u] = [key |-> held[u].key, object |-> objects[held[u].key]]
        /\ \A k \in Keys : k # held[u].key => objects'[k] = objects[k]
    BY <1>1, UpdateInv, UpdateStatusInv
  <2>. QED BY <2>1 DEF ReplacesOnlyWhatIsRead, Replaces, ReadBefore
<1>2. ASSUME NEW u \in Users, CreateObject(u) \/ Patch(u) \/ DeleteObject(u) \/ DeleteAll(u)
      PROVE  ClientInv' /\ ReplacesOnlyWhatIsRead
  <2>1. ClientInv' /\ NoUpdate
    BY <1>2, CreateInv, PatchInv, DeleteInv
  <2>. QED BY <2>1 DEF NoUpdate, ReplacesOnlyWhatIsRead, Replaces
<1>3. ASSUME NEW u \in Users, GetObject(u) PROVE ClientInv' /\ ReplacesOnlyWhatIsRead
  BY <1>3, GetInv DEF ReplacesOnlyWhatIsRead, Replaces
<1>4. CASE UNCHANGED clientVars
  BY <1>4 DEF clientVars, ClientInv, CopiesCurrent, SpecAndStatusApart, ReplacesOnlyWhatIsRead, Replaces
<1>. QED BY <1>1, <1>2, <1>3, <1>4 DEF Use
================================================================================
