--------------------------- MODULE CallerMetadata ---------------------------
(***************************************************************************)
(* Content an integrator bound into a proof (src/caller_metadata.rs).      *)
(*                                                                         *)
(* The callerMetadata stage commits to a list of entries: key, type, size  *)
(* and a digest of salt and value.  A presenter shows a manifest, which    *)
(* repeats the entries with their salts, and the content of some of them;  *)
(* the proof itself may list the entries again in its unsigned field 19.   *)
(*                                                                         *)
(*   manifest of a presenter   sequence of [key, type, size, salt, digest] *)
(*   field 19 of a proof       the same without the salt, with a locator   *)
(*                                                                         *)
(* Salts and values are sequences of bytes, since what is hashed is the    *)
(* one after the other.  Empty stands for every key or type the limits     *)
(* rule out, and a manifest that cannot be parsed is taken as one without  *)
(* entries, which is refused in the same way.                              *)
(***************************************************************************)
EXTENDS Stages

CONSTANTS
  SaltLens,      \* SALT_LENS, the lengths a salt may have
  MaxEntries     \* MAX_ENTRIES

ASSUME CallerMetadataAssumption == SaltLens \subseteq Nat /\ MaxEntries \in Nat

\* entry_digest: the salt and the value are not kept apart.
EntryDigest(salt, value) == Hash(<<"entry", salt \o value>>)

\* CallerManifest::validate
ManifestOk(m) ==
  /\ Len(m) \in 1 .. MaxEntries
  /\ \A i \in DOMAIN m :
       /\ m[i].key # Empty
       /\ m[i].type # Empty
       /\ Len(m[i].salt) \in SaltLens
       /\ \A j \in DOMAIN m : m[j].key = m[i].key => j = i

\* What the stage signs of the entries: neither salt nor locator.
Committed(m) ==
  [i \in DOMAIN m |-> [key |-> m[i].key, type |-> m[i].type, size |-> m[i].size,
                       digest |-> m[i].digest]]
MetadataBytes(m) == <<"callerMetadata", Committed(m)>>

Keys(m) == {m[i].key : i \in DOMAIN m}

---------------------------------------------------------------------------
(* Field 19 *)

\* manifest_from_proof: field 19 with empty salts.
FieldManifest(field) ==
  [i \in DOMAIN field |-> [key |-> field[i].key, type |-> field[i].type,
                           size |-> field[i].size, salt |-> <<>>, digest |-> field[i].digest]]

\* Mutant of ManifestListed: field 19 beside a stage of the name is believed.
ManifestListedByName(p) ==
  /\ ManifestOk(FieldManifest(p.manifest))
  /\ HasStage(p.stages, "callerMetadata")

\* check_caller_manifest: field 19 repeats what the stage commits to.
ManifestListed(p) ==
  /\ ManifestOk(FieldManifest(p.manifest))
  /\ HasStage(p.stages, "callerMetadata")
  /\ StageByName(p.stages, "callerMetadata").data = Hash(MetadataBytes(p.manifest))

\* The lines verify() adds for a proof with field 19; a locator that looks like a
\* credential is only warned of.
ManifestChecks(p) ==
  IF p.manifest = None THEN {}
  ELSE {Check("caller-manifest", IF ManifestListed(p) THEN "pass" ELSE "fail")}
       \cup IF \E i \in DOMAIN p.manifest : p.manifest[i].locator = "credential"
            THEN {Check("caller-manifest-locator", "warn")} ELSE {}

\* Report::caller_manifest
ExposedManifest(p) ==
  IF Check("caller-manifest", "pass") \in ManifestChecks(p) THEN p.manifest ELSE None

---------------------------------------------------------------------------
(* The presenter's manifest and content                                    *)
(*                                                                         *)
(* What is presented, `in`, is a record:                                   *)
(*   manifest      a manifest or None                                      *)
(*   content       sequence of [key, value, salt]; a value of None could   *)
(*                 not be read, and the salt is None unless the verifying  *)
(*                 party hashed the value itself                           *)
(*   requireKeys, requireAll    the entries whose content must be seen     *)
(*   requireStage  the proof must commit to content at all                 *)

Nothing == [manifest |-> None, content |-> <<>>, requireKeys |-> {}, requireAll |-> FALSE,
            requireStage |-> FALSE]

NeedsContent(in) == in.requireAll \/ in.requireKeys # {}

\* Each content is for one listed key, and none is given twice.
ContentIsListed(in) ==
  \A i \in DOMAIN in.content :
    /\ in.content[i].key \in Keys(in.manifest)
    /\ \A j \in DOMAIN in.content : in.content[j].key = in.content[i].key => j = i

\* The manifest is in order, agrees with field 19 and with the stage, and lists
\* the required keys.
ManifestFits(p, in) ==
  /\ ManifestOk(in.manifest)
  /\ ContentIsListed(in)
  /\ p.manifest # None => Committed(in.manifest) = Committed(p.manifest)
  /\ StageByName(p.stages, "callerMetadata").data = Hash(MetadataBytes(in.manifest))
  /\ in.requireAll \/ in.requireKeys \subseteq Keys(in.manifest)

\* The digest of shown content: the salt is the entry's, or the one the verifying
\* party fed its own hasher with (Content::Hashed).
ShownDigest(e, shown) ==
  EntryDigest(IF shown.salt = None THEN e.salt ELSE shown.salt, shown.value)

\* The content shown for an entry, asked for only where there is some.
ShownFor(e, in) == in.content[CHOOSE i \in DOMAIN in.content : in.content[i].key = e.key]

\* Mutant of EntryState: the length of the value is not compared.
EntryStateDigest(e, in) ==
  CASE e.key \notin Keys(in.content) -> IF in.requireAll \/ e.key \in in.requireKeys
                                        THEN "unresolved" ELSE "by digest"
    [] e.key \in Keys(in.content) /\ ShownFor(e, in).value = None -> "unresolved"
    [] OTHER -> IF ShownDigest(e, ShownFor(e, in)) = e.digest THEN "by content" ELSE "mismatch"

\* How one entry is judged.
EntryState(e, in) ==
  CASE e.key \notin Keys(in.content) -> IF in.requireAll \/ e.key \in in.requireKeys
                                        THEN "unresolved" ELSE "by digest"
    [] e.key \in Keys(in.content) /\ ShownFor(e, in).value = None -> "unresolved"
    [] OTHER -> IF /\ Len(ShownFor(e, in).value) = e.size
                   /\ ShownDigest(e, ShownFor(e, in)) = e.digest
                THEN "by content" ELSE "mismatch"

\* check_caller_metadata: the worst entry decides.
MetadataStatus(p, in) ==
  LET staged == HasStage(p.stages, "callerMetadata")
      states == {EntryState(in.manifest[i], in) : i \in DOMAIN in.manifest}
      given  == in.manifest # None \/ in.content # <<>>
  IN CASE ~staged -> IF in.requireStage \/ NeedsContent(in) \/ given THEN "fail" ELSE "notchecked"
       [] staged /\ in.manifest = None ->
            IF in.content # <<>> \/ NeedsContent(in) THEN "warn" ELSE "notchecked"
       [] OTHER ->
            IF ~ManifestFits(p, in) \/ "mismatch" \in states THEN "fail"
            ELSE IF "unresolved" \in states THEN "warn" ELSE "pass"

\* caller_metadata_check: nothing is said of an ordinary proof that nothing was
\* asked about.
MetadataChecks(p, in) ==
  IF ~HasStage(p.stages, "callerMetadata") /\ in = Nothing THEN {}
  ELSE {Check("caller-metadata", MetadataStatus(p, in))}
=============================================================================
