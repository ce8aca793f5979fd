----------------------------- MODULE TypedClient -----------------------------
(***************************************************************************)
(* The generated typed client of one kind (pkg/client/clientset/versioned/ *)
(* typed): each method is one REST request, confined to a namespace, which *)
(* the API server answers.  Programs that use it read an object, change    *)
(* their copy and send it back, and others do the same at the same time.   *)
(***************************************************************************)
EXTENDS Naturals

CONSTANTS
    None,
    Keys,        \* the objects that may exist, each a pair of namespace and name
    Users,       \* the goroutines that use the client
    Namespace,   \* Namespace[u]: the namespace of the client u was given
    Existing,    \* the objects there from the start
    MaxRevision  \* how far the server's revision goes

All == ""        \* v1.NamespaceAll

ASSUME ClientAssumption ==
    /\ Keys \subseteq STRING \X STRING
    /\ Namespace \in [Users -> STRING \ {All}]
    /\ Existing \subseteq Keys
    /\ MaxRevision \in Nat \ {0}

\* A spec or a status names the request that made it, so that each is told apart.
Methods == {"Create", "Update", "UpdateStatus", "Patch", "PatchStatus"}
Content == [by : Methods, n : 1 .. MaxRevision]
Object == [rv : 1 .. MaxRevision, labelled : BOOLEAN, spec : Content, status : Content \cup {None}]

VARIABLES
    objects,     \* API server: key |-> the object, or None
    revision,    \* API server: the revision of the latest change
    held         \* user |-> the object it has read with its key, or None

clientVars == <<objects, revision, held>>

ClientTypeOK ==
    /\ objects \in [Keys -> Object \cup {None}]
    /\ revision \in 1 .. MaxRevision
    /\ \A u \in Users : held[u] # None =>
          /\ held[u].key \in {k \in Keys : k[1] = Namespace[u]}
          /\ held[u].object \in Object

ClientInit ==
    /\ objects = [k \in Keys |->
          IF k \in Existing
            THEN [rv |-> 1, labelled |-> TRUE, spec |-> [by |-> "Create", n |-> 1], status |-> None]
            ELSE None]
    /\ revision = 1
    /\ held = [u \in Users |-> None]

(***************************************************************************)
(* The requests.  A selector is a set of label values.                     *)
(***************************************************************************)
Get(ns, name) == [namespace |-> ns, name |-> name]
List(ns, selector) == [namespace |-> ns, selector |-> selector]
Watch(ns, selector) == [namespace |-> ns, selector |-> selector]
Put_NoVersion(ns, name, object) ==   \* mutant
    [namespace |-> ns, name |-> name, subresource |-> "", body |-> [object EXCEPT !.rv = 0]]
Put(ns, name, object) == [namespace |-> ns, name |-> name, subresource |-> "", body |-> object]
PutStatus_NoSubResource(ns, name, object) == Put(ns, name, object)   \* mutant
PutStatus(ns, name, object) ==
    [namespace |-> ns, name |-> name, subresource |-> "status", body |-> object]
DeleteCollection(ns, selector) == [namespace |-> ns, selector |-> selector]

(***************************************************************************)
(* The API server.                                                         *)
(***************************************************************************)
Selects(request, k, object) ==
    /\ object # None
    /\ request.namespace \in {All, k[1]}
    /\ object.labelled \in request.selector
Selected(request) == {k \in Keys : Selects(request, k, objects[k])}

KeyOf(request) == <<request.namespace, request.name>>

Change(new) ==
    /\ revision < MaxRevision
    /\ revision' = revision + 1
    /\ objects' = new

\* A put that carries a version is refused unless the server has that version.
Replaced(old, request) ==
    IF request.subresource = "status"
      THEN [old EXCEPT !.status = request.body.status, !.rv = revision + 1]
      ELSE [request.body EXCEPT !.status = old.status, !.rv = revision + 1]

Accepts(request) ==
    /\ KeyOf(request) \in Keys
    /\ objects[KeyOf(request)] # None
    /\ request.body.rv \in {0, objects[KeyOf(request)].rv}

Handle(request) ==
    /\ Accepts(request)
    /\ Change([objects EXCEPT ![KeyOf(request)] = Replaced(@, request)])

(***************************************************************************)
(* What users do with the client.                                          *)
(***************************************************************************)
Stamp(method) == [by |-> method, n |-> revision + 1]

\* A read after the last change the bound allows would lead nowhere.
GetObject(u) ==
    /\ revision < MaxRevision
    /\ \E k \in Keys :
          LET request == Get(Namespace[u], k[2])
          IN  /\ KeyOf(request) \in Keys
              /\ objects[KeyOf(request)] # None
              /\ held' = [held EXCEPT ![u] =
                     [key |-> KeyOf(request), object |-> objects[KeyOf(request)]]]
    /\ UNCHANGED <<objects, revision>>

CreateObject(u) ==
    /\ \E k \in Keys, labelled \in BOOLEAN :
          /\ k[1] = Namespace[u] /\ objects[k] = None
          /\ Change([objects EXCEPT ![k] =
                 [rv |-> revision + 1, labelled |-> labelled,
                  spec |-> Stamp("Create"), status |-> None]])
    /\ UNCHANGED held

\* The copy a user sends back has whatever it wrote there, in both parts.
Edited(u, method, labelled) ==
    [held[u].object EXCEPT !.spec = Stamp(method), !.status = Stamp(method), !.labelled = labelled]

\* Both updates return the object as the server has it now.
TakeAnswer(u) == held' = [held EXCEPT ![u].object = objects'[held[u].key]]

Update(u) ==
    /\ held[u] # None
    /\ \E labelled \in BOOLEAN :
          Handle(Put(Namespace[u], held[u].key[2], Edited(u, "Update", labelled)))
    /\ TakeAnswer(u)

UpdateStatus(u) ==
    /\ held[u] # None
    /\ \E labelled \in BOOLEAN :
          Handle(PutStatus(Namespace[u], held[u].key[2], Edited(u, "UpdateStatus", labelled)))
    /\ TakeAnswer(u)

\* A patch carries no version and changes the part it is sent to.
Patch(u) ==
    /\ \E k \in Keys :
          /\ k[1] = Namespace[u] /\ objects[k] # None
          /\ \/ Change([objects EXCEPT ![k].spec = Stamp("Patch"), ![k].rv = revision + 1])
             \/ Change([objects EXCEPT ![k].status = Stamp("PatchStatus"), ![k].rv = revision + 1])
    /\ UNCHANGED held

DeleteObject(u) ==
    /\ \E k \in Keys :
          /\ k[1] = Namespace[u] /\ objects[k] # None
          /\ Change([objects EXCEPT ![k] = None])
    /\ UNCHANGED held

DeleteAll(u) ==
    /\ \E selector \in {{TRUE}, BOOLEAN} :
          LET gone == Selected(DeleteCollection(Namespace[u], selector))
          IN  /\ gone # {}
              /\ Change([k \in Keys |-> IF k \in gone THEN None ELSE objects[k]])
    /\ UNCHANGED held

Use(u) ==
    \/ CreateObject(u) \/ Update(u) \/ UpdateStatus(u)
    \/ Patch(u) \/ DeleteObject(u) \/ DeleteAll(u)

(***************************************************************************)
(* A status is made by UpdateStatus or a patch of the status, and a spec   *)
(* by the other methods, although the object sent carries both (Update and *)
(* UpdateStatus of the typed client).                                      *)
(***************************************************************************)
SpecAndStatusApart ==
    \A k \in Keys : objects[k] # None =>
        /\ objects[k].spec.by \in {"Create", "Update", "Patch"}
        /\ objects[k].status # None => objects[k].status.by \in {"UpdateStatus", "PatchStatus"}

(***************************************************************************)
(* An update replaces only what its sender has read: no change made by     *)
(* somebody else in between is lost (the object goes out with the          *)
(* resourceVersion it came with).                                          *)
(***************************************************************************)
ReadBefore(k) == \E u \in Users : held[u] = [key |-> k, object |-> objects[k]]
Replaces(k) == objects[k] # None /\ objects'[k] # None /\ objects'[k] # objects[k]
NoLostUpdate ==
    [][\A k \in Keys :
          /\ Replaces(k)
          /\ \/ objects'[k].spec # objects[k].spec /\ objects'[k].spec.by = "Update"
             \/ objects'[k].status # objects[k].status /\ objects'[k].status.by = "UpdateStatus"
          => ReadBefore(k)]_clientVars
==============================================================================
