---------------------------- MODULE SessionCache ----------------------------
(***************************************************************************)
(* ONNXMLIRTorch (src/Runtime/python/onnxmlirtorch) compiles a torch model  *)
(* once per tuple of input shapes.  Sessions are kept in a SessionCache; the*)
(* files model<tag>.onnx and model<tag>.so stay in a temporary directory.   *)
(* A session is identified with the tag it was compiled under, and the tags *)
(* start at 0, as they do for an object built without a compile_tag.        *)
(***************************************************************************)
EXTENDS Integers, FiniteSets, SequencesExt

CONSTANTS
  Shapes,
  NoShape,
  Capacity,   \* config.cache_size
  MayFail,    \* whether exporting or compiling may raise
  MaxTag      \* bound on the compilations

ASSUME SessionCacheAssumption ==
  /\ NoShape \notin Shapes
  /\ Capacity \in Nat \ {0}
  /\ MayFail \in BOOLEAN
  /\ MaxTag \in Nat

VARIABLES
  cache,     \* shapes in the cache to the tag of their session
  access,    \* access_order
  tag,       \* the last tag used
  onnx, so,  \* tags of the files in the working directory
  built,     \* history: the shape a tag was compiled for
  ran,       \* the shape last run and the tag of the session that ran it
  pc, shape

vars == <<cache, access, tag, onnx, so, built, ran, pc, shape>>
files == <<onnx, so>>

Tags == 1..MaxTag

TypeOK ==
  /\ DOMAIN cache \subseteq Shapes
  /\ \A s \in DOMAIN cache : cache[s] \in Tags
  /\ access \in Seq(Shapes)
  /\ tag \in 0..MaxTag
  /\ onnx \subseteq Tags
  /\ so \subseteq Tags
  /\ built \in [Tags -> Shapes \cup {NoShape}]
  /\ ran \in (Shapes \cup {NoShape}) \X (0..MaxTag)
  /\ pc \in {"idle", "export", "compile", "put"}
  /\ shape \in Shapes \cup {NoShape}

Init ==
  /\ cache = << >>
  /\ access = << >>
  /\ tag = 0
  /\ onnx = {}
  /\ so = {}
  /\ built = [a \in Tags |-> NoShape]
  /\ ran = <<NoShape, 0>>
  /\ pc = "idle"
  /\ shape = NoShape

Without(f, s) == [x \in DOMAIN f \ {s} |-> f[x]]

\* The place of the first s in q: where list.remove takes it out.
Places(q, s) == {k \in DOMAIN q : q[k] = s /\ \A j \in DOMAIN q : j < k => q[j] # s}

-----------------------------------------------------------------------------
(* forward finds a session for the shapes of its inputs: SessionCache.get.   *)
Hit(s) ==
  /\ pc = "idle"
  /\ s \in DOMAIN cache
  /\ \E k \in Places(access, s) : access' = Append(RemoveAt(access, k), s)
  /\ ran' = <<s, cache[s]>>
  /\ UNCHANGED <<cache, tag, files, built, pc, shape>>

(* SessionCache.victim: a full cache gives up the entry at the end of        *)
(* access_order; the index is that entry's tag, or else the cache's size.    *)
Full == Cardinality(DOMAIN cache) >= Capacity
Victim == access[Len(access)]
FileIndex == IF Full THEN cache[Victim] ELSE Cardinality(DOMAIN cache)

(* Slip: the new files get the name of the index instead of a fresh tag.     *)
NextTagIsIndex == FileIndex + 1
NextTag == tag + 1

(* No session yet: make room, remove the files of the index, take a tag.     *)
Miss(s) ==
  /\ pc = "idle"
  /\ s \notin DOMAIN cache
  /\ tag < MaxTag
  /\ IF Full
     THEN /\ cache' = Without(cache, Victim)
          /\ access' = Front(access)
     ELSE UNCHANGED <<cache, access>>
  /\ onnx' = onnx \ {FileIndex}
  /\ so' = so \ {FileIndex}
  /\ tag' = NextTag
  /\ shape' = s
  /\ pc' = "export"
  /\ UNCHANGED <<built, ran>>

Raise ==
  /\ MayFail
  /\ pc' = "idle"
  /\ shape' = NoShape

(* torch.onnx.export                                                         *)
Export ==
  /\ pc = "export"
  /\ \/ /\ onnx' = onnx \cup {tag}
        /\ built' = [built EXCEPT ![tag] = shape]
        /\ pc' = "compile"
        /\ UNCHANGED shape
     \/ Raise /\ UNCHANGED <<onnx, built>>
  /\ UNCHANGED <<cache, access, tag, so, ran>>

(* InferenceSession: the compiler writes the library, the runtime opens it.  *)
CompileAndHook ==
  /\ pc = "compile"
  /\ \/ so' = so \cup {tag} /\ pc' = "put" /\ UNCHANGED shape
     \/ Raise /\ so' \in {so, so \cup {tag}}
  /\ UNCHANGED <<cache, access, tag, onnx, built, ran>>

(* SessionCache.put, and the run.                                            *)
Put ==
  /\ pc = "put"
  /\ cache' = [x \in DOMAIN cache \cup {shape} |-> IF x = shape THEN tag ELSE cache[x]]
  /\ access' = Append(access, shape)
  /\ ran' = <<shape, tag>>
  /\ pc' = "idle"
  /\ shape' = NoShape
  /\ UNCHANGED <<tag, files, built>>

(* Slip: the order keeps a key that has left the cache.                      *)
RemoveKeyFromCacheOnly(s) ==
  /\ pc = "idle"
  /\ s \in DOMAIN cache
  /\ cache' = Without(cache, s)
  /\ UNCHANGED <<access, tag, files, built, ran, pc, shape>>

(* SessionCache.remove and SessionCache.clear                                *)
RemoveKey(s) ==
  /\ pc = "idle"
  /\ s \in DOMAIN cache
  /\ cache' = Without(cache, s)
  /\ \E k \in Places(access, s) : access' = RemoveAt(access, k)
  /\ UNCHANGED <<tag, files, built, ran, pc, shape>>

Clear ==
  /\ pc = "idle"
  /\ cache' = << >>
  /\ access' = << >>
  /\ UNCHANGED <<tag, files, built, ran, pc, shape>>

Next ==
  \/ \E s \in Shapes : Hit(s) \/ Miss(s) \/ RemoveKey(s)
  \/ Export \/ CompileAndHook \/ Put \/ Clear

Spec == Init /\ [][Next]_vars

-----------------------------------------------------------------------------
(* Properties                                                                *)

(* The condition put reports an error about, in full: access_order lists the *)
(* keys of the cache, each once, whatever failed in between.                 *)
AccessOrderMatches ==
  /\ ToSet(access) = DOMAIN cache
  /\ Len(access) = Cardinality(DOMAIN cache)

(* The cache never holds more sessions than its capacity.                    *)
WithinCapacity == Cardinality(DOMAIN cache) <= Capacity

(* "The conflict in file name ... has to be avoided": the session that runs  *)
(* an input, and every session in the cache, was built for that shape.       *)
RightSession ==
  /\ ran # <<NoShape, 0>> => built[ran[2]] = ran[1]
  /\ \A s \in DOMAIN cache : built[cache[s]] = s
=============================================================================
