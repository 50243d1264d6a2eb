------------------------------ MODULE BuildTools ------------------------------
(***************************************************************************)
(* The build of a firmware package: keymanifesttool, headertool and        *)
(* signtool (fw/keymanifesttool, fw/headertool, fw/signtool), with the key *)
(* files they read (crypto/crypto_files.cpp) and the rules that run them   *)
(* (fw/arm).  What a build that succeeds has made is flashed, and          *)
(* FirmwareAuth goes on from there.                                        *)
(*                                                                         *)
(* The package has three signed parts.  Each is made in three files: an    *)
(* object (the unsigned manifest, or an image's header), its signature,    *)
(* and both, one after the other.  A file is kept by what its contents     *)
(* were made of.  Ninja runs the rules of the parts side by side, and goes *)
(* on in a build directory that is not empty.                              *)
(***************************************************************************)
EXTENDS FirmwareAuth

CONSTANTS
  MaxVersion,  \* bound: versions of an image, and of a key
  MaxFaults,   \* bound: writes that fail
  Changing     \* bound: the images edited, and given another key

ASSUME BoundsAssumption ==
  MaxVersion \in Nat /\ MaxFaults \in Nat /\ Changing \subseteq {"L0", "L1"}

VARIABLES
  key,        \* the version in each part's key file, or NoKey or NoBytes
  keys,       \* how many versions of each key there have been
  bin,        \* the version of each image's binary
  file,       \* the files of each part
  done,       \* the rules whose output is up to date
  at,         \* the rule each part's chain is at
  make,       \* the build: "none" yet, "running", "failed", "success"
  package,    \* the signed parts that were put into the package
  faults,     \* writes that failed
  unnoticed,  \* history: one of them since the build directory was empty, in
              \* a tool that exited with EXIT_SUCCESS
  rekeyed,    \* history: a key changed since then
  delivered   \* history: was what has been flashed up to date, was no key changed,
              \* did no write go wrong unnoticed?

auth == <<mem, built, damage, status>>
flags == <<faults, unnoticed, rekeyed>>
workspace == <<key, keys, bin, file, done, at, make, package, flags>>
buildVars == <<auth, workspace, delivered>>

Images == {"L0", "L1"}
Parts == Images \cup {"manifest"}
Rules == {"object", "signature", "signed"}

NoKey == -1
NoBytes == 0
HasKey(p) == key[p] \in 1 .. MaxVersion

Missing == [there |-> FALSE, holds |-> {}]
NoData == [there |-> TRUE, holds |-> {}]
Full(x) == [there |-> TRUE, holds |-> {x}]

NoFiles == [p \in Parts |-> [r \in Rules |-> Missing]]
NoPackage == [p \in Parts |-> Missing]

NextRule(r) ==
  IF r = "object" THEN "signature" ELSE IF r = "signature" THEN "signed" ELSE "end"

\* Mutant: the signature's rule doesn't depend on the object.
FromWithoutSignature(r) == {r, "signed"}

\* The outputs made from r's, r's own among them: the DEPENDS of the rules.
From(r) == IF r = "object" THEN Rules ELSE {r, "signed"}

\* What the object of part p is made of now, and its signature.
Object(p) == IF p = "manifest" THEN <<key["L0"], key["L1"]>> ELSE <<bin[p]>>
SignatureOf(p, o) == [key |-> key[p], of |-> o]
UpToDate(p) == [object |-> {Object(p)}, signature |-> {SignatureOf(p, Object(p))}]

-----------------------------------------------------------------------------
(* A tool's output file *)

\* The ways to save x in file f: what f is afterwards, whether a call that the
\* tools look at has failed, whether one has, and whether the file was written
\* to.  fopen fails, fwrite fails, or fclose does, which no tool looks at: what
\* they write is short enough to be written by fclose only.
Saves(f, x) ==
  {[file |-> Full(x), noticed |-> FALSE, fault |-> FALSE, touched |-> TRUE]} \cup
  (IF faults = MaxFaults THEN {} ELSE
    {[file |-> f, noticed |-> TRUE, fault |-> TRUE, touched |-> FALSE],
     [file |-> NoData, noticed |-> TRUE, fault |-> TRUE, touched |-> TRUE],
     [file |-> NoData, noticed |-> FALSE, fault |-> TRUE, touched |-> TRUE]})

\* Part p's rule r has run, its tool exits with success or failure.  Ninja takes
\* the output for up to date when the command succeeded and the file is newer
\* than its inputs; after a failure it starts no other rule.
Ran(p, r, save, success) ==
  /\ file' = [file EXCEPT ![p][r] = save.file]
  /\ done' = (done \ ({p} \X From(r))) \cup
               (IF success /\ save.touched THEN {<<p, r>>} ELSE {})
  /\ IF success THEN at' = [at EXCEPT ![p] = NextRule(r)] /\ make' = make
     ELSE make' = "failed" /\ at' = at
  /\ faults' = IF save.fault THEN faults + 1 ELSE faults
  /\ unnoticed' = (unnoticed \/ (success /\ save.fault))
  /\ UNCHANGED <<auth, key, keys, bin, package, rekeyed, delivered>>

\* A tool that doesn't find its inputs exits before it opens its output.
NoInput(p, r) ==
  Ran(p, r, [file |-> file[p][r], noticed |-> TRUE, fault |-> FALSE, touched |-> FALSE], FALSE)

IsAt(p, r) == make = "running" /\ at[p] = r

\* The rules of an image run when they have to, those of the manifest always.
Due(p, r) == IsAt(p, r) /\ <<p, r>> \notin done

-----------------------------------------------------------------------------
(* The tools *)

\* headertool: the image's binary is hashed into a header, which is saved.
headertool(p) ==
  /\ p \in Images /\ Due(p, "object")
  /\ \E save \in Saves(file[p].object, Object(p)) :
       Ran(p, "object", save, ~save.noticed)

\* keymanifesttool: generateKeyManifest needs both keys; writeFile looks at no
\* result.
keymanifesttool ==
  /\ Due("manifest", "object")
  /\ IF HasKey("L0") /\ HasKey("L1")
     THEN \E save \in Saves(file["manifest"].object, Object("manifest")) :
            Ran("manifest", "object", save, TRUE)
     ELSE NoInput("manifest", "object")

\* signtool: the key and an object that isn't empty are loaded, the signature is
\* saved, and the result of save_signature is not looked at.
signtool(p) ==
  /\ Due(p, "signature")
  /\ IF ~HasKey(p) \/ file[p].object.holds = {} THEN NoInput(p, "signature")
     ELSE \E o \in file[p].object.holds :
            \E save \in Saves(file[p].signature, SignatureOf(p, o)) :
              Ran(p, "signature", save, TRUE)

\* cat object signature > signed; it looks at the result of every call.
cat(p) ==
  /\ Due(p, "signed")
  /\ IF file[p].object.there /\ file[p].signature.there
     THEN LET both == [object |-> file[p].object.holds,
                       signature |-> file[p].signature.holds]
          IN \E save \in Saves(file[p].signed, both) :
               Ran(p, "signed", save, ~save.fault)
     ELSE \* the shell has emptied the output
          Ran(p, "signed", [file |-> NoData, noticed |-> TRUE, fault |-> FALSE,
                            touched |-> TRUE], FALSE)

-----------------------------------------------------------------------------
(* The rules *)

\* An output that is up to date isn't made again.
Skip(p, r) ==
  /\ IsAt(p, r) /\ <<p, r>> \in done
  /\ at' = [at EXCEPT ![p] = NextRule(r)]
  /\ UNCHANGED <<auth, key, keys, bin, file, done, make, package, flags, delivered>>

\* openssl ... > key: the shell makes an empty file first.  No rule that reads
\* the key waits for this one.
OpenKey(p) ==
  /\ make = "running" /\ key[p] = NoKey
  /\ key' = [key EXCEPT ![p] = NoBytes]
  /\ UNCHANGED <<auth, keys, bin, file, done, at, make, package, flags, delivered>>

\* A new key.
WriteKey(p) ==
  /\ key[p] = NoBytes
  /\ keys' = [keys EXCEPT ![p] = @ + 1]
  /\ key' = [key EXCEPT ![p] = keys'[p]]
  /\ UNCHANGED <<auth, bin, file, done, at, make, package, flags, delivered>>

\* The targets of the manifest are always run.
RunNinja ==
  /\ make # "running" /\ built = NotBuilt
  /\ make' = "running"
  /\ at' = [p \in Parts |-> "object"]
  /\ done' = done \ ({"manifest"} \X Rules)
  /\ package' = NoPackage
  /\ UNCHANGED <<auth, key, keys, bin, file, flags, delivered>>

\* The parts, each followed by its binary, are put one after the other.
MakePackage ==
  /\ make = "running"
  /\ \A p \in Parts : at[p] = "end" /\ HasKey(p)
  /\ make' = "success"
  /\ package' = [p \in Parts |-> file[p].signed]
  /\ UNCHANGED <<auth, key, keys, bin, file, done, at, flags, delivered>>

-----------------------------------------------------------------------------
(* Between builds *)

\* An image's sources are edited.
Edit(p) ==
  /\ make # "running" /\ built = NotBuilt /\ bin[p] < MaxVersion
  /\ bin' = [bin EXCEPT ![p] = @ + 1]
  /\ done' = done \ ({p} \X From("object"))
  /\ make' = "none"
  /\ package' = NoPackage
  /\ UNCHANGED <<auth, key, keys, file, at, flags, delivered>>

\* An image's key is removed, to get another; no rule depends on its file.
NewKey(p) ==
  /\ make # "running" /\ built = NotBuilt
  /\ HasKey(p) /\ keys[p] < MaxVersion
  /\ key' = [key EXCEPT ![p] = NoKey]
  /\ rekeyed' = TRUE
  /\ make' = "none"
  /\ package' = NoPackage
  /\ UNCHANGED <<auth, keys, bin, file, done, at, faults, unnoticed, delivered>>

\* rm -rf build
Clean ==
  /\ make # "running" /\ built = NotBuilt
  /\ file' = NoFiles
  /\ done' = {}
  /\ make' = "none"
  /\ unnoticed' = FALSE /\ rekeyed' = FALSE
  /\ package' = NoPackage
  /\ UNCHANGED <<auth, key, keys, bin, at, faults, delivered>>

-----------------------------------------------------------------------------
(* The package is flashed *)

\* Part p of the package is its object of now, signed with its key of now.
Current(p) == package[p].holds = {UpToDate(p)}

\* The signature of part p verifies with the key the package's manifest has for
\* it, over an object that is right for what follows it; the key of the manifest
\* is the one its caller gives AuthenticateFirmware.
Verified(p) ==
  \E s \in package[p].holds, m \in package["manifest"].holds :
    \E o \in s.object, sig \in s.signature, ks \in m.object :
      /\ sig.of = o
      /\ p \in Images => o = <<bin[p]>> /\ sig.key = ks[IF p = "L0" THEN 1 ELSE 2]
      /\ p = "manifest" => sig.key = key[p]

\* A part is signed with the right key k, or as good as with another.
Signer(p, k) == IF Verified(p) THEN {k} ELSE Keys \ {k}

\* Images of any size and offset.  The build directory is thrown away.
Deliver ==
  /\ make = "success" /\ built = NotBuilt
  /\ \E l0, l1 \in ImageFiles, next \in Offsets, km \in Signer("manifest", ManifestKey),
       k0 \in Signer("L0", L0Key), k1 \in Signer("L1", L1Key) :
       BuildOf(l0, l1, next, km, k0, k1)
  /\ delivered' = [current |-> \A p \in Parts : Current(p),
                   sameKeys |-> ~rekeyed, noticed |-> ~unnoticed]
  /\ key' = [p \in Parts |-> NoKey] /\ keys' = [p \in Parts |-> 0]
  /\ bin' = [p \in Images |-> 1]
  /\ file' = NoFiles /\ done' = {}
  /\ at' = [p \in Parts |-> "object"] /\ make' = "none"
  /\ package' = NoPackage
  /\ faults' = 0 /\ unnoticed' = FALSE /\ rekeyed' = FALSE
  /\ UNCHANGED <<damage, status>>

BuildInit ==
  /\ Init
  /\ key = [p \in Parts |-> NoKey] /\ keys = [p \in Parts |-> 0]
  /\ bin = [p \in Images |-> 1]
  /\ file = NoFiles
  /\ done = {}
  /\ at = [p \in Parts |-> "object"]
  /\ make = "none"
  /\ package = NoPackage
  /\ faults = 0 /\ unnoticed = FALSE /\ rekeyed = FALSE
  /\ delivered = [current |-> FALSE, sameKeys |-> TRUE, noticed |-> TRUE]

BuildNext ==
  \/ keymanifesttool \/ RunNinja \/ MakePackage \/ Clean \/ Deliver
  \/ \E p \in Parts : signtool(p) \/ cat(p) \/ OpenKey(p) \/ WriteKey(p)
  \/ \E p \in Parts, r \in Rules : Skip(p, r)
  \/ \E p \in Images : headertool(p)
  \/ \E p \in Changing : Edit(p) \/ NewKey(p)
  \/ (Damage \/ Authenticate) /\ UNCHANGED <<workspace, delivered>>

BuildSpec == BuildInit /\ [][BuildNext]_buildVars

-----------------------------------------------------------------------------
(* Properties *)

\* A build that succeeds has made the package of the images and keys of now,
\* even one that goes on after builds that failed half way; unless a write went
\* wrong without the tool saying so, or a key changed, since the build directory
\* was empty ("that's better than having outdated targets").
SuccessIsCurrent ==
  make = "success" /\ ~unnoticed /\ ~rekeyed => \A p \in Parts : Current(p)

\* What AuthenticateFirmware accepts, where it is called (by the host tests; no image
\* does, so that a device boots a stale package, too), is the package of the images
\* and keys that were there when it was built: it finds what is left of an earlier
\* build after a write that no tool reports, and the image still signed with a key
\* that has been replaced.  Both together, since the build directory was empty, it
\* doesn't: a manifest that could not be written leaves all of the package old.
AcceptedIsCurrent ==
  status = "SUCCESS" /\ (delivered.sameKeys \/ delivered.noticed) => delivered.current

=============================================================================
