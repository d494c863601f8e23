----------------------------- MODULE Revalidate ----------------------------
(***************************************************************************)
(* One master behind conditional requests: what an ETag stands for while   *)
(* the master is edited, the server restarts and requests overlap.         *)
(* info_json() and image() of app.rs resolve the source once, take its     *)
(* version from it, and answer 304 or the bytes read through that source   *)
(* later on.  LocalFile keeps an open handle and the stat made when it was *)
(* opened; ObjectRoot has fetched the whole object with its metadata.      *)
(*                                                                         *)
(* One client with a private cache stands for every cache downstream.  The *)
(* editors of the master are outside the program.                          *)
(***************************************************************************)
EXTENDS Naturals, FiniteSets, Sequences

CONSTANTS Requests,     (* requests that may overlap                       *)
          Contents,     (* what a master may hold                          *)
          SizeOf,       (* byte length of each content                     *)
          LimitValues,  (* published limits a restart may choose from      *)
          Binaries,     (* CARGO_PKG_VERSIONs a restart may choose from    *)
          Kinds,        (* "info", "image" of a given size, "max": what    *)
                        (* requests ask for                                *)
          Stores,       (* "local", "object": the kinds of SourceRoot      *)
          MaxClock,     (* bound: seconds                                  *)
          MaxFiles,     (* bound: files (inodes) or objects ever written,  *)
                        (* and versions written over                       *)
          MaxAnswers    (* bound: answers that differ                      *)

ASSUME RevalidateAssumption == /\ \A c \in Contents : SizeOf[c] \in Nat
                               /\ MaxClock \in Nat /\ MaxFiles \in Nat \ {0}
                               /\ MaxAnswers \in Nat
                               /\ Kinds \subseteq {"info", "image", "max"}
                               /\ Stores \subseteq {"local", "object"}

VARIABLES
  store,     (* the kind of root the server was started with               *)
  clock,     (* the second the file system stamps writes with              *)
  files,     (* every inode or object ever written, [content, mtime]       *)
  path,      (* the one the identifier names, 0 when unpublished           *)
  overwritten,   (* history: versions of files since written over in place *)
  limits,    (* --max-width and so on                                      *)
  binary,    (* the running version                                        *)
  pending,   (* the handler of each request                                *)
  cache,     (* the client's stored answer of each kind                    *)
  answers    (* every answer given so far                                  *)

(* What only time and the masters' editors change.                         *)
root == <<store, clock, files, path, overwritten>>

vars == <<root, limits, binary, pending, cache, answers>>

None == [etag |-> <<>>]
Idle == [stage |-> "idle"]

Init == /\ store \in Stores
        /\ clock = 0
        /\ \E c \in Contents : files = <<[content |-> c, mtime |-> 0]>>
        /\ path = 1
        /\ overwritten = {}
        /\ limits \in LimitValues
        /\ binary \in Binaries
        /\ pending = [r \in Requests |-> Idle]
        /\ cache = [k \in Kinds |-> None]
        /\ answers = {}

----------------------------------------------------------------------------
Versions == [mtime : 0..MaxClock, tag : Contents \cup {"-"}, len : Nat]

(* source_version(): mtime in whole seconds and length; an object also has *)
(* the store's own ETag, which tells contents apart.                       *)
Version(file) == [mtime |-> file.mtime,
                  tag |-> IF store = "local" THEN "-" ELSE file.content,
                  len |-> SizeOf[file.content]]

(* Bugs: the binary version is left out, or the length is.                 *)
ETagNoBinary(kind, version) == <<kind, version>>
ETagNoLength(kind, version) == <<kind, [version EXCEPT !.len = 0], binary>>

(* etag_for: source version, canonical URI of the kind, binary version.    *)
ETag(kind, version) == <<kind, version, binary>>

(* What an answer shows: pixels rendered by this binary, or the document   *)
(* describing the master with the limits of this process.  An image of     *)
(* size max is as large as those limits allow, and max is what its         *)
(* canonical path keeps.                                                   *)
Document(kind, content) ==
  [content |-> content, by |-> binary, limits |-> IF kind = "image" THEN "any" ELSE limits]

----------------------------------------------------------------------------
(* A request leaves the client with the validator it has cached, if any.   *)
Send(r, kind) == /\ pending[r] = Idle
                 /\ pending' = [pending EXCEPT ![r] =
                       [stage |-> "sent", kind |-> kind, cached |-> cache[kind]]]
                 /\ UNCHANGED <<root, limits, binary, cache, answers>>

(* SourceRoot::resolve: open and stat the same handle, or GET the object.  *)
Resolve(r) == /\ pending[r].stage = "sent"
              /\ path # 0
              /\ pending' = [pending EXCEPT ![r] =
                    [stage |-> "resolved", kind |-> @.kind, cached |-> @.cached,
                     file |-> path, version |-> Version(files[path]),
                     content |-> files[path].content]]
              /\ UNCHANGED <<root, limits, binary, cache, answers>>

ResolveMissing(r) == /\ pending[r].stage = "sent"
                     /\ path = 0
                     /\ pending' = [pending EXCEPT ![r] = Idle]
                     /\ UNCHANGED <<root, limits, binary, cache, answers>>

(* A bug: the path is opened again for the bytes.                          *)
ReadReopened(p) == IF path = 0 THEN p.content ELSE files[path].content

(* The bytes a resolved source yields: the object as fetched, or what the  *)
(* open handle reads now.                                                  *)
Read(p) == IF store = "object" THEN p.content ELSE files[p.file].content

(* 304 for the validator the client sent, or 200 with the bytes read now.  *)
Answer(r) ==
  LET p == pending[r]
      etag == ETag(p.kind, p.version)
      fresh == Document(p.kind, Read(p))
      matches == p.cached.etag = etag
  IN  /\ p.stage = "resolved"
      /\ answers' = answers \cup
           {[etag |-> etag,
             shown |-> IF matches THEN p.cached.document ELSE fresh,
             resolved |-> Document(p.kind, p.content)]}
      /\ Cardinality(answers') <= MaxAnswers
      /\ cache' = IF matches THEN cache
                  ELSE [cache EXCEPT ![p.kind] = [etag |-> etag, document |-> fresh]]
      /\ pending' = [pending EXCEPT ![r] = Idle]
      /\ UNCHANGED <<root, limits, binary>>

(* A restart drops every handler; the client's cache outlives it.          *)
Restart(l, b) == /\ limits' = l
                 /\ binary' = b
                 /\ pending' = [r \in Requests |-> Idle]
                 /\ UNCHANGED <<root, cache, answers>>

----------------------------------------------------------------------------
Tick == /\ clock < MaxClock
        /\ clock' = clock + 1
        /\ UNCHANGED <<store, files, path, overwritten, limits, binary, pending, cache, answers>>

(* The stamps a write may leave: an object's is the store's, a file's may  *)
(* also be carried over from where it was copied or moved from.            *)
Stamps == IF store = "local" THEN 0..clock ELSE {clock}

(* How a master changes: a new file is renamed over the old one, or the    *)
(* file is written in place, where handles open on it read the new bytes.  *)
(* An object is always put whole.                                          *)
FileEdit(c) ==
  \E stamp \in Stamps :
    LET new == [content |-> c, mtime |-> stamp]
    IN  /\ Len(files) + Cardinality(overwritten) < MaxFiles
        /\ \/ /\ files' = Append(files, new)
              /\ path' = Len(files) + 1
              /\ UNCHANGED overwritten
           \/ /\ store = "local"
              /\ path # 0
              /\ files' = [files EXCEPT ![path] = new]
              /\ overwritten' = overwritten \cup {Version(files[path])}
              /\ UNCHANGED path

Edit(c) == /\ FileEdit(c)
           /\ UNCHANGED <<store, clock, limits, binary, pending, cache, answers>>

Unpublish == /\ path' = 0
             /\ path # 0
             /\ UNCHANGED <<store, clock, files, overwritten, limits, binary, pending, cache, answers>>

Next == \/ \E r \in Requests : \/ \E kind \in Kinds : Send(r, kind)
                               \/ Resolve(r)
                               \/ ResolveMissing(r)
                               \/ Answer(r)
        \/ \E l \in LimitValues, b \in Binaries : Restart(l, b)
        \/ \E c \in Contents : Edit(c)
        \/ Unpublish
        \/ Tick

Spec == Init /\ [][Next]_vars

----------------------------------------------------------------------------
(* Types, and that a handler past resolve holds a file that exists; an     *)
(* ETag in a cache names its kind, a version and a binary.                 *)
TypeOK == /\ store \in Stores
          /\ clock \in 0..MaxClock
          /\ Len(files) \in 1..MaxFiles
          /\ path \in 0..Len(files)
          /\ overwritten \subseteq Versions
          /\ limits \in LimitValues /\ binary \in Binaries
          /\ \A r \in Requests : /\ pending[r].stage \in {"idle", "sent", "resolved"}
                                 /\ pending[r].stage = "resolved" =>
                                      pending[r].file \in DOMAIN files
          /\ \A k \in Kinds : cache[k] = None \/ cache[k].etag \in {k} \X Versions \X Binaries

(* A version tells what it names: no two masters ever written share it,    *)
(* and no file of that version was written over under its readers.         *)
Tells(version) ==
  /\ version \notin overwritten
  /\ \A i, j \in DOMAIN files :
        Version(files[i]) = version /\ Version(files[j]) = version
          => files[i].content = files[j].content

VersionOf(etag) == etag[2]

(* The ETag is as strong as the version in it: two answers under one ETag  *)
(* show the same document, across renames, writes in place, overlapping    *)
(* requests and restarts, unless source_version() itself cannot tell, for  *)
(* two masters of one second and one length or a file written in place.    *)
StrongETag == \A a, b \in answers :
                a.etag = b.etag /\ Tells(VersionOf(a.etag)) => a.shown = b.shown

(* A 200 never mixes versions, and a 304 never confirms an outdated copy:  *)
(* each answer shows the master as it was when that request resolved it,   *)
(* however it is renamed over or unpublished before the bytes are read,    *)
(* under the same reservation.                                             *)
AnswerIsTheResolvedVersion ==
  \A a \in answers : Tells(VersionOf(a.etag)) => a.shown = a.resolved
=============================================================================
