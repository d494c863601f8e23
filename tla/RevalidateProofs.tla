------------------------- MODULE RevalidateProofs ---------------------------
(***************************************************************************)
(* For any contents, clock, binaries and clients, and however masters are  *)
(* edited: an ETag tells the contents it was ever sent with apart as far   *)
(* as the source version in it does, and answers show what was resolved    *)
(* for them.  Documents that also depend on the limits (info.json, size    *)
(* max) need those to stay.                                                *)
(***************************************************************************)
EXTENDS Revalidate, FiniteSetTheorems, TLAPS

(* Answers do not depend on limits that a restart changes.                 *)
LimitsStay == Kinds \subseteq {"image"} \/ \A l, m \in LimitValues : l = m

Rendered(k, content, b, l) ==
  [content |-> content, by |-> b, limits |-> IF k = "image" THEN "any" ELSE l]

(* A validator stands for a rendering of the i-th file as it is now.       *)
StandsFor(etag, document, k, i, b, l) ==
  /\ etag = <<k, Version(files[i]), b>>
  /\ document = Rendered(k, files[i].content, b, l)

(* A validator stands for a rendering of a file ever written, unless that  *)
(* file has been written over.                                             *)
Stands(etag, document) ==
  \/ VersionOf(etag) \in overwritten
  \/ \E k \in Kinds, i \in DOMAIN files, b \in Binaries, l \in LimitValues :
        StandsFor(etag, document, k, i, b, l)

Held(c) == c = None \/ Stands(c.etag, c.document)

Typed == /\ store \in Stores
         /\ limits \in LimitValues
         /\ binary \in Binaries
         /\ files \in Seq([content : Contents, mtime : Nat])
         /\ clock \in Nat
         /\ path \in 0..Len(files)
         /\ pending = [r \in Requests |-> pending[r]]
         /\ cache = [k \in Kinds |-> cache[k]]

(* What a handler holds of the file it resolved, likewise.                 *)
Resolved(p) == /\ p.file \in DOMAIN files
               /\ \/ p.version \in overwritten
                  \/ /\ p.version = Version(files[p.file])
                     /\ p.content = files[p.file].content

Waiting(p) == \/ p = Idle
              \/ p.stage = "sent" /\ p.kind \in Kinds /\ Held(p.cached)
              \/ p.stage = "resolved" /\ p.kind \in Kinds /\ Held(p.cached) /\ Resolved(p)

IInv == /\ Typed
        /\ \A r \in Requests : Waiting(pending[r])
        /\ \A k \in Kinds : Held(cache[k])
        /\ \A a \in answers : Stands(a.etag, a.shown) /\ Stands(a.etag, a.resolved)

(* Nothing has been answered under the first file's version.               *)
LEMMA InitIInv == Init => IInv
<1>. SUFFICES ASSUME Init
              PROVE  IInv
  OBVIOUS
<1>1. PICK c \in Contents : files = <<[content |-> c, mtime |-> 0]>>
  BY DEF Init
<1>2. Typed
  BY <1>1 DEF Init, Typed
<1>. QED
  BY <1>2 DEF Init, IInv, Waiting, Held

----------------------------------------------------------------------------
(* What validators stand for follows from the files and the store alone,   *)
(* and is only ever widened: files stay, or are written over.              *)
FilesGoOn ==
  /\ store' = store
  /\ overwritten \subseteq overwritten'
  /\ \A i \in DOMAIN files :
        /\ i \in DOMAIN files'
        /\ files'[i] = files[i] \/ Version(files[i]) \in overwritten'

(* So it stays with validators, and with what clients and handlers hold.   *)
LEMMA StillStands ==
  ASSUME FilesGoOn
  PROVE  /\ \A file : Version(file)' = Version(file)
         /\ \A e, d : Stands(e, d) => Stands(e, d)'
         /\ \A q : Held(q) => Held(q)'
         /\ \A q : Waiting(q) => Waiting(q)'
<1>1. \A file : Version(file)' = Version(file)
  BY DEF Version, FilesGoOn
<1>2. ASSUME NEW e, NEW d, Stands(e, d)
      PROVE  Stands(e, d)'
  <2>1. CASE VersionOf(e) \in overwritten
    BY <2>1 DEF Stands, VersionOf, FilesGoOn
  <2>2. CASE VersionOf(e) \notin overwritten
    <3>1. PICK k \in Kinds, i \in DOMAIN files, b \in Binaries, l \in LimitValues :
            StandsFor(e, d, k, i, b, l)
      BY <1>2, <2>2 DEF Stands
    <3>2. VersionOf(e) = Version(files[i])
      BY <3>1 DEF StandsFor, VersionOf
    <3>3. CASE Version(files[i]) \in overwritten'
      BY <3>2, <3>3 DEF Stands, VersionOf
    <3>4. CASE files'[i] = files[i]
      <4>1. StandsFor(e, d, k, i, b, l)' /\ i \in DOMAIN files'
        BY <1>1, <3>1, <3>4 DEF StandsFor, FilesGoOn
      <4>. QED
        BY <4>1 DEF Stands
    <3>. QED
      BY <3>3, <3>4 DEF FilesGoOn
  <2>. QED
    BY <2>1, <2>2
<1>3. \A q : Held(q) => Held(q)'
  BY <1>2 DEF Held
<1>4. \A q : Resolved(q) => Resolved(q)'
  BY <1>1 DEF Resolved, FilesGoOn
<1>5. \A q : Waiting(q) => Waiting(q)'
  BY <1>3, <1>4 DEF Waiting
<1>. QED
  BY <1>1, <1>2, <1>3, <1>5

(* Where nothing is edited nothing is lost.                                *)
LEMMA RootGoesOn == UNCHANGED root => FilesGoOn
BY DEF root, FilesGoOn

(* A step of the clock, of the server's operator, or one that only frees a *)
(* handler.                                                                *)
LEMMA QuietSteps ==
  ASSUME IInv,
         \/ Tick \/ Unpublish
         \/ \E l \in LimitValues, b \in Binaries : Restart(l, b)
         \/ \E r \in Requests : ResolveMissing(r)
  PROVE  IInv'
<1>1. /\ files' = files /\ store' = store /\ overwritten' = overwritten
      /\ cache' = cache /\ answers' = answers
      /\ clock' \in Nat /\ binary' \in Binaries /\ path' \in 0..Len(files)
      /\ limits' \in LimitValues
      /\ pending' = [r \in Requests |-> pending'[r]]
      /\ \A r \in Requests : pending'[r] \in {pending[r], Idle}
  BY DEF Tick, Unpublish, Restart, ResolveMissing, root, IInv, Typed
<1>2. FilesGoOn
  BY <1>1 DEF FilesGoOn
<1>3. Typed'
  BY <1>1 DEF IInv, Typed
<1>4. \A r \in Requests : Waiting(pending[r])'
  <2>1. \A r \in Requests : Waiting(pending'[r])
    BY <1>1 DEF IInv, Waiting
  <2>. QED
    BY <1>2, <2>1, StillStands
<1>5. /\ \A k \in Kinds : Held(cache[k])'
      /\ \A a \in answers' : Stands(a.etag, a.shown)' /\ Stands(a.etag, a.resolved)'
  BY <1>1, <1>2, StillStands DEF IInv
<1>. QED
  BY <1>3, <1>4, <1>5 DEF IInv

(* A request carries what is cached, and holds what it resolved.           *)
LEMMA SendResolve ==
  ASSUME IInv, NEW r \in Requests,
         Resolve(r) \/ \E k \in Kinds : Send(r, k)
  PROVE  IInv'
<1>1. /\ UNCHANGED root /\ cache' = cache /\ answers' = answers
      /\ binary' = binary /\ limits' = limits
      /\ pending' = [pending EXCEPT ![r] = pending'[r]]
  BY DEF Resolve, Send, IInv, Typed
<1>2. Waiting(pending'[r])
  <2>1. CASE Resolve(r)
    BY <2>1 DEF Resolve, IInv, Typed, Waiting, Resolved, Idle
  <2>2. CASE \E k \in Kinds : Send(r, k)
    BY <2>2 DEF Send, IInv, Typed, Waiting
  <2>. QED
    BY <2>1, <2>2
<1>3. FilesGoOn
  BY <1>1, RootGoesOn
<1>4. Typed'
  BY <1>1 DEF root, IInv, Typed
<1>5. \A q \in Requests : Waiting(pending'[q])
  BY <1>1, <1>2 DEF IInv, Typed
<1>6. \A q \in Requests : Waiting(pending[q])'
  BY <1>3, <1>5, StillStands
<1>7. /\ \A k \in Kinds : Held(cache[k])'
      /\ \A a \in answers' : Stands(a.etag, a.shown)' /\ Stands(a.etag, a.resolved)'
  BY <1>1, <1>3, StillStands DEF IInv
<1>. QED
  BY <1>4, <1>6, <1>7 DEF IInv

(* What two documents under one ETag have in common.                       *)
AlikeUnder(etag, d, e) == /\ d.content = e.content /\ d.by = e.by
                          /\ etag[1] = "image" \/ LimitsStay => d = e

(* One validator stands for one rendering, where its version tells.        *)
LEMMA OneRendering ==
  ASSUME NEW e, NEW d1, NEW d2, Stands(e, d1), Stands(e, d2), Tells(VersionOf(e))
  PROVE  AlikeUnder(e, d1, d2)
<1>1. PICK k \in Kinds, i \in DOMAIN files, u \in Binaries, l \in LimitValues :
        StandsFor(e, d1, k, i, u, l)
  BY DEF Stands, Tells
<1>2. PICK q \in Kinds, j \in DOMAIN files, v \in Binaries, m \in LimitValues :
        StandsFor(e, d2, q, j, v, m)
  BY DEF Stands, Tells
<1>3. /\ e[1] = k /\ VersionOf(e) = Version(files[i]) /\ e[3] = u
      /\ e[1] = q /\ VersionOf(e) = Version(files[j]) /\ e[3] = v
  BY <1>1, <1>2 DEF StandsFor, VersionOf
<1>4. files[i].content = files[j].content
  BY <1>3 DEF Tells
<1>5. d1 = Rendered(k, files[i].content, u, l) /\ d2 = Rendered(k, files[i].content, u, m)
  BY <1>1, <1>2, <1>3, <1>4 DEF StandsFor
<1>6. k = "image" \/ LimitsStay => (k = "image" \/ l = m)
  BY DEF LimitsStay
<1>. QED
  BY <1>3, <1>5, <1>6 DEF Rendered, AlikeUnder

(* An answer, 200 or 304, shows something its ETag stands for; and so is   *)
(* what was resolved for it.                                               *)
LEMMA AnswerStep ==
  ASSUME IInv, NEW r \in Requests, Answer(r)
  PROVE  IInv'
<1>. DEFINE p == pending[r]
            etag == ETag(p.kind, p.version)
            fresh == Document(p.kind, Read(p))
            resolved == Document(p.kind, p.content)
            shown == IF p.cached.etag = etag THEN p.cached.document ELSE fresh
<1>1. p.kind \in Kinds /\ Held(p.cached) /\ Resolved(p)
  <2>1. p.stage = "resolved" /\ Waiting(p)
    BY DEF Answer, IInv
  <2>2. p # Idle
    BY <2>1 DEF Idle
  <2>. HIDE DEF p
  <2>. QED
    BY <2>1, <2>2 DEF Waiting
<1>2. VersionOf(etag) = p.version
  BY DEF VersionOf, ETag
<1>3. Stands(etag, resolved) /\ Stands(etag, fresh)
  <2>1. CASE p.version \in overwritten
    BY <1>2, <2>1 DEF Stands
  <2>2. CASE p.version \notin overwritten
    <3>1. /\ p.file \in DOMAIN files
          /\ p.version = Version(files[p.file]) /\ p.content = files[p.file].content
      BY <1>1, <2>2 DEF Resolved
    <3>2. Read(p) = files[p.file].content
      BY <3>1 DEF Read
    <3>3. /\ StandsFor(etag, resolved, p.kind, p.file, binary, limits)
          /\ StandsFor(etag, fresh, p.kind, p.file, binary, limits)
      BY <3>1, <3>2 DEF StandsFor, Rendered, ETag, Document
    <3>4. binary \in Binaries /\ limits \in LimitValues
      BY DEF IInv, Typed
    <3>. HIDE DEF p, etag, resolved, fresh
    <3>. QED
      BY <1>1, <3>1, <3>3, <3>4 DEF Stands
  <2>. QED
    BY <2>1, <2>2
<1>4. ASSUME p.cached.etag = etag
      PROVE  Stands(etag, p.cached.document)
  <2>1. p.cached # None
    BY <1>4 DEF None, ETag
  <2>. HIDE DEF p, etag
  <2>. QED
    BY <1>1, <1>4, <2>1 DEF Held
<1>5. Stands(etag, shown)
  BY <1>3, <1>4
<1>6. /\ UNCHANGED root /\ binary' = binary /\ limits' = limits
      /\ pending' = [pending EXCEPT ![r] = Idle]
  BY DEF Answer
<1>7. answers' = answers \cup {[etag |-> etag, shown |-> shown, resolved |-> resolved]}
  BY DEF Answer
<1>8. cache' = cache \/ cache' = [cache EXCEPT ![p.kind] = [etag |-> etag, document |-> fresh]]
  BY DEF Answer
<1>. HIDE DEF p, etag, resolved, fresh, shown
<1>9. FilesGoOn
  BY <1>6, RootGoesOn
<1>10. Typed'
  <2>1. cache' = [k \in Kinds |-> cache'[k]]
    BY <1>8 DEF IInv, Typed
  <2>2. pending' = [q \in Requests |-> pending'[q]]
    BY <1>6 DEF IInv, Typed
  <2>. QED
    BY <1>6, <2>1, <2>2 DEF root, IInv, Typed
<1>11. \A q \in Requests : Waiting(pending[q])'
  <2>1. \A q \in Requests : Waiting(pending'[q])
    BY <1>6 DEF IInv, Typed, Waiting
  <2>. QED
    BY <1>9, <2>1, StillStands
<1>12. \A k \in Kinds : Held(cache'[k])
  BY <1>1, <1>3, <1>8 DEF IInv, Typed, Held
<1>13. \A k \in Kinds : Held(cache[k])'
  BY <1>9, <1>12, StillStands
<1>14. \A a \in answers' : Stands(a.etag, a.shown) /\ Stands(a.etag, a.resolved)
  BY <1>3, <1>5, <1>7 DEF IInv
<1>15. \A a \in answers' : Stands(a.etag, a.shown)' /\ Stands(a.etag, a.resolved)'
  BY <1>9, <1>14, StillStands
<1>. QED
  BY <1>10, <1>11, <1>13, <1>15 DEF IInv

(* An edit adds a file, or writes over one and says so.                    *)
LEMMA EditStep ==
  ASSUME IInv, NEW c \in Contents, Edit(c)
  PROVE  IInv'
<1>1. PICK stamp \in Stamps :
        \/ /\ files' = Append(files, [content |-> c, mtime |-> stamp])
           /\ path' = Len(files) + 1 /\ overwritten' = overwritten
        \/ /\ path # 0 /\ path' = path
           /\ files' = [files EXCEPT ![path] = [content |-> c, mtime |-> stamp]]
           /\ overwritten' = overwritten \cup {Version(files[path])}
  BY DEF Edit, FileEdit
<1>. DEFINE new == [content |-> c, mtime |-> stamp]
<1>2. /\ files \in Seq([content : Contents, mtime : Nat]) /\ path \in 0..Len(files)
      /\ new \in [content : Contents, mtime : Nat]
  BY DEF IInv, Typed, Stamps
<1>3. /\ store' = store /\ clock' = clock /\ binary' = binary /\ pending' = pending
      /\ limits' = limits /\ cache' = cache /\ answers' = answers
  BY DEF Edit
<1>. HIDE DEF new
<1>4. /\ FilesGoOn
      /\ files' \in Seq([content : Contents, mtime : Nat]) /\ path' \in 0..Len(files')
  <2>1. CASE files' = Append(files, new) /\ path' = Len(files) + 1 /\ overwritten' = overwritten
    BY <1>2, <1>3, <2>1 DEF FilesGoOn
  <2>2. CASE /\ path # 0 /\ path' = path /\ files' = [files EXCEPT ![path] = new]
             /\ overwritten' = overwritten \cup {Version(files[path])}
    BY <1>2, <1>3, <2>2 DEF FilesGoOn
  <2>. QED
    BY <1>1, <2>1, <2>2 DEF new
<1>5. Typed'
  BY <1>3, <1>4 DEF IInv, Typed
<1>. QED
  BY <1>3, <1>4, <1>5, StillStands DEF IInv

(* Every step keeps the invariant.                                         *)
LEMMA StepIInv == IInv /\ [Next]_vars => IInv'
<1>. SUFFICES ASSUME IInv, [Next]_vars
              PROVE  IInv'
  OBVIOUS
<1>1. CASE UNCHANGED vars
  <2>1. /\ UNCHANGED root /\ binary' = binary /\ pending' = pending
        /\ limits' = limits /\ cache' = cache /\ answers' = answers
    BY <1>1 DEF vars
  <2>2. FilesGoOn
    BY <2>1, RootGoesOn
  <2>3. Typed'
    BY <2>1 DEF root, IInv, Typed
  <2>. QED
    BY <2>1, <2>2, <2>3, StillStands DEF IInv
<1>. QED
  BY <1>1, QuietSteps, SendResolve, AnswerStep, EditStep DEF Next

----------------------------------------------------------------------------
(* Two answers under one ETag show one document, across edits, restarts    *)
(* and any number of requests that overlap, wherever the version in it     *)
(* tells: for images of a given size whatever limits and binary a restart  *)
(* brings, for everything else while the limits stay.                      *)
THEOREM ETagsAreStrong == ASSUME LimitsStay PROVE Spec => []StrongETag
<1>1. IInv => StrongETag
  <2>. SUFFICES ASSUME IInv, NEW a \in answers, NEW b \in answers, a.etag = b.etag,
                       Tells(VersionOf(a.etag))
                PROVE  a.shown = b.shown
    BY DEF StrongETag
  <2>1. Stands(a.etag, a.shown) /\ Stands(a.etag, b.shown)
    BY DEF IInv
  <2>. QED
    BY <2>1, OneRendering DEF AlikeUnder
<1>. QED
  BY InitIInv, StepIInv, <1>1, PTL DEF Spec

(* Every answer shows the master as its request resolved it, likewise.     *)
THEOREM AnswersAreResolved == ASSUME LimitsStay PROVE Spec => []AnswerIsTheResolvedVersion
<1>1. IInv => AnswerIsTheResolvedVersion
  BY OneRendering DEF IInv, AnswerIsTheResolvedVersion, AlikeUnder
<1>. QED
  BY InitIInv, StepIInv, <1>1, PTL DEF Spec

(* What no choice of limits, kinds and edits can break: whoever holds two  *)
(* answers under one ETag whose version tells holds one master rendered by *)
(* one binary, and the master resolved for both.                           *)
OneMasterPerTag ==
  \A a, b \in answers :
    a.etag = b.etag /\ Tells(VersionOf(a.etag))
      => /\ a.shown.content = b.shown.content /\ a.shown.by = b.shown.by
         /\ a.shown.content = b.resolved.content

(* New limits may leave an old document under its tag (the etag_relimit    *)
(* run), but never the document of another master.                         *)
THEOREM TagsTellMasters == Spec => []OneMasterPerTag
<1>1. IInv => OneMasterPerTag
  <2>. SUFFICES ASSUME IInv, NEW a \in answers, NEW b \in answers, a.etag = b.etag,
                       Tells(VersionOf(a.etag))
                PROVE  /\ a.shown.content = b.shown.content /\ a.shown.by = b.shown.by
                       /\ a.shown.content = b.resolved.content
    BY DEF OneMasterPerTag
  <2>1. Stands(a.etag, a.shown) /\ Stands(a.etag, b.shown) /\ Stands(a.etag, b.resolved)
    BY DEF IInv
  <2>. QED
    BY <2>1, OneRendering DEF AlikeUnder
<1>. QED
  BY InitIInv, StepIInv, <1>1, PTL DEF Spec

(* An object store's ETag and whole objects leave no version that does not *)
(* tell: the reservation is about local masters.                           *)
THEOREM ObjectVersionsTell ==
  ASSUME Stores \subseteq {"object"}
  PROVE  Spec => [](\A v : Tells(v))
<1>. DEFINE NoneOver == store = "object" /\ overwritten = {}
<1>1. Init => NoneOver
  BY DEF Init
<1>2. NoneOver /\ [Next]_vars => NoneOver'
  BY DEF Next, vars, root, Send, Resolve, ResolveMissing, Answer, Restart, Edit, FileEdit,
         Unpublish, Tick
<1>3. NoneOver => \A v : Tells(v)
  BY DEF Tells, Version
<1>. QED
  BY <1>1, <1>2, <1>3, PTL DEF Spec

----------------------------------------------------------------------------
(* Types, however masters are edited: what TypeOK says, and what a handler *)
(* keeps from one step to the next.                                        *)
Stored(k, c) == c = None \/ c.etag \in {k} \X Versions \X Binaries

Handling(p) == \/ p = Idle
               \/ p.stage = "sent" /\ p.kind \in Kinds
               \/ /\ p.stage = "resolved" /\ p.kind \in Kinds
                  /\ p.file \in DOMAIN files /\ p.version \in Versions

Kept == /\ store \in Stores
        /\ clock \in 0..MaxClock
        /\ files \in Seq([content : Contents, mtime : 0..MaxClock]) /\ Len(files) \in 1..MaxFiles
        /\ path \in 0..Len(files)
        /\ overwritten \subseteq Versions /\ IsFiniteSet(overwritten)
        /\ limits \in LimitValues /\ binary \in Binaries
        /\ pending = [r \in Requests |-> pending[r]]
        /\ \A r \in Requests : Handling(pending[r])
        /\ cache = [k \in Kinds |-> cache[k]]
        /\ \A k \in Kinds : Stored(k, cache[k])

(* A version is made of a stamp, a tag and a length.                       *)
LEMMA VersionIs ==
  ASSUME NEW f \in [content : Contents, mtime : 0..MaxClock]
  PROVE  Version(f) \in Versions
<1>1. SizeOf[f.content] \in Nat
  BY RevalidateAssumption
<1>. QED
  BY <1>1 DEF Version, Versions

(* What an edit does to the files ever written: one more, or one changed.  *)
LEMMA FilesKept ==
  ASSUME Kept, NEW c \in Contents, Edit(c)
  PROVE  /\ files' \in Seq([content : Contents, mtime : 0..MaxClock]) /\ Len(files') \in 1..MaxFiles
         /\ path' \in 0..Len(files')
         /\ overwritten' \subseteq Versions /\ IsFiniteSet(overwritten')
         /\ DOMAIN files \subseteq DOMAIN files'
<1>1. PICK stamp \in Stamps :
        /\ Len(files) + Cardinality(overwritten) < MaxFiles
        /\ \/ /\ files' = Append(files, [content |-> c, mtime |-> stamp])
              /\ path' = Len(files) + 1 /\ overwritten' = overwritten
           \/ /\ path # 0 /\ path' = path
              /\ files' = [files EXCEPT ![path] = [content |-> c, mtime |-> stamp]]
              /\ overwritten' = overwritten \cup {Version(files[path])}
  BY DEF Edit, FileEdit
<1>. DEFINE new == [content |-> c, mtime |-> stamp]
<1>2. /\ files \in Seq([content : Contents, mtime : 0..MaxClock]) /\ path \in 0..Len(files)
      /\ Len(files) \in 1..MaxFiles
      /\ overwritten \subseteq Versions /\ IsFiniteSet(overwritten)
  BY DEF Kept
<1>3. new \in [content : Contents, mtime : 0..MaxClock]
  <2>1. stamp \in 0..MaxClock
    BY RevalidateAssumption DEF Kept, Stamps
  <2>. QED
    BY <2>1
<1>. HIDE DEF new
<1>4. CASE files' = Append(files, new) /\ path' = Len(files) + 1 /\ overwritten' = overwritten
  <2>1. Cardinality(overwritten) \in Nat
    BY <1>2, FS_CardinalityType
  <2>2. Len(files) + 1 <= MaxFiles
    BY <1>1, <1>2, <2>1, RevalidateAssumption
  <2>3. /\ files' \in Seq([content : Contents, mtime : 0..MaxClock]) /\ Len(files') = Len(files) + 1
        /\ DOMAIN files \subseteq DOMAIN files'
    BY <1>2, <1>3, <1>4
  <2>. QED
    BY <1>2, <1>4, <2>2, <2>3, RevalidateAssumption
<1>5. CASE /\ path # 0 /\ path' = path /\ files' = [files EXCEPT ![path] = new]
           /\ overwritten' = overwritten \cup {Version(files[path])}
  <2>1. /\ files' \in Seq([content : Contents, mtime : 0..MaxClock]) /\ Len(files') = Len(files)
        /\ DOMAIN files' = DOMAIN files
    BY <1>2, <1>3, <1>5
  <2>2. Version(files[path]) \in Versions
    <3>1. path \in DOMAIN files
      BY <1>2, <1>5
    <3>2. \A S : files \in Seq(S) /\ path \in DOMAIN files => files[path] \in S
      OBVIOUS
    <3>3. files[path] \in [content : Contents, mtime : 0..MaxClock]
      BY <1>2, <3>1, <3>2, Zenon
    <3>. QED
      BY <3>3, VersionIs
  <2>3. IsFiniteSet(overwritten')
    BY <1>2, <1>5, FS_AddElement
  <2>. QED
    BY <1>2, <1>5, <2>1, <2>2, <2>3
<1>. QED
  BY <1>1, <1>4, <1>5 DEF new

(* Each step keeps the types.                                              *)
LEMMA StepKept == Kept /\ [Next]_vars => Kept'
<1>. SUFFICES ASSUME Kept, [Next]_vars PROVE Kept'
  OBVIOUS
<1>. USE DEF root
<1>1. CASE UNCHANGED vars
  BY <1>1 DEF vars, Kept, Handling, Stored
<1>2. ASSUME NEW r \in Requests, NEW k \in Kinds, Send(r, k) PROVE Kept'
  BY <1>2 DEF Send, Kept, Handling, Stored, Idle
<1>3. ASSUME NEW r \in Requests, Resolve(r) PROVE Kept'
  <2>1. pending[r].kind \in Kinds
    BY <1>3 DEF Resolve, Kept, Handling, Idle
  <2>2. path \in DOMAIN files /\ files[path] \in [content : Contents, mtime : 0..MaxClock]
    <3>1. path # 0 /\ files \in Seq([content : Contents, mtime : 0..MaxClock]) /\ path \in 0..Len(files)
      BY <1>3 DEF Resolve, Kept
    <3>2. Len(files) \in Nat /\ DOMAIN files = 1..Len(files)
      BY <3>1
    <3>3. path \in DOMAIN files
      BY <3>1, <3>2
    <3>4. \A S : files \in Seq(S) /\ path \in DOMAIN files => files[path] \in S
      OBVIOUS
    <3>. QED
      BY <3>1, <3>3, <3>4, Zenon
  <2>3. Version(files[path]) \in Versions
    BY <2>2, VersionIs
  <2>. QED
    BY <1>3, <2>1, <2>2, <2>3 DEF Resolve, Kept, Handling, Stored
<1>4. ASSUME NEW r \in Requests, ResolveMissing(r) PROVE Kept'
  BY <1>4 DEF ResolveMissing, Kept, Handling, Stored
<1>5. ASSUME NEW r \in Requests, Answer(r) PROVE Kept'
  <2>. DEFINE p == pending[r]
              etag == ETag(p.kind, p.version)
  <2>1. p.kind \in Kinds /\ etag \in {p.kind} \X Versions \X Binaries
    BY <1>5 DEF Answer, Kept, Handling, Idle, ETag
  <2>2. PICK d : \/ cache' = cache
                 \/ cache' = [cache EXCEPT ![p.kind] = [etag |-> etag, document |-> d]]
    BY <1>5 DEF Answer
  <2>3. /\ cache' = [k \in Kinds |-> cache'[k]]
        /\ \A k \in Kinds : Stored(k, cache'[k])
    <3>. HIDE DEF p, etag
    <3>1. cache = [k \in Kinds |-> cache[k]] /\ \A k \in Kinds : Stored(k, cache[k])
      BY DEF Kept
    <3>2. CASE cache' = cache
      BY <3>1, <3>2
    <3>3. CASE cache' = [cache EXCEPT ![p.kind] = [etag |-> etag, document |-> d]]
      <4>1. Stored(p.kind, [etag |-> etag, document |-> d])
        BY <2>1 DEF Stored
      <4>. QED
        BY <3>1, <3>3, <4>1
    <3>. QED
      BY <2>2, <3>2, <3>3
  <2>4. /\ pending' = [pending EXCEPT ![r] = Idle]
        /\ UNCHANGED <<root, limits, binary>>
    BY <1>5 DEF Answer
  <2>. HIDE DEF p, etag
  <2>. QED
    BY <2>3, <2>4 DEF Kept, Handling, Stored
<1>6. ASSUME NEW l \in LimitValues, NEW b \in Binaries, Restart(l, b) PROVE Kept'
  BY <1>6 DEF Restart, Kept, Handling, Stored
<1>7. ASSUME NEW c \in Contents, Edit(c) PROVE Kept'
  BY <1>7, FilesKept DEF Edit, Kept, Handling, Stored
<1>8. CASE Unpublish
  BY <1>8 DEF Unpublish, Kept, Handling, Stored
<1>9. CASE Tick
  BY <1>9, RevalidateAssumption DEF Tick, Kept, Handling, Stored
<1>. QED
  BY <1>1, <1>2, <1>3, <1>4, <1>5, <1>6, <1>7, <1>8, <1>9 DEF Next

(* A handler past resolve holds a file that exists, and every ETag in a    *)
(* cache names its kind, a version and a binary, also where masters are    *)
(* written in place and requests ask for anything.                         *)
THEOREM TypeCorrect == Spec => []TypeOK
<1>1. Init => Kept
  <2>. SUFFICES ASSUME Init PROVE Kept
    OBVIOUS
  <2>1. PICK c \in Contents : files = <<[content |-> c, mtime |-> 0]>>
    BY DEF Init
  <2>2. /\ files \in Seq([content : Contents, mtime : 0..MaxClock]) /\ Len(files) = 1
    BY <2>1, RevalidateAssumption
  <2>3. IsFiniteSet(overwritten)
    BY FS_EmptySet DEF Init
  <2>. QED
    BY <2>2, <2>3, RevalidateAssumption DEF Init, Kept, Handling, Stored
<1>2. Kept => TypeOK
  BY DEF Kept, Handling, Stored, TypeOK, Idle
<1>. QED
  BY <1>1, <1>2, StepKept, PTL DEF Spec
=============================================================================
