----------------------------- MODULE KadSession -----------------------------
(***************************************************************************)
(* What a node keeps on disk from one run to the next: main of             *)
(* src/kad_node.cpp with the key files of src/KadRSA.h, key.priv and       *)
(* key.pub, of which the node id is the hash, and the list of bootstrap    *)
(* nodes bsp.cfg.  The process may be killed between any two steps, and    *)
(* opening a file for writing cuts it to nothing before the first byte.    *)
(*                                                                         *)
(* Nobody else touches the files, so that a file written to its end holds  *)
(* what was written: ValidateKeys, which may then say no of a generated    *)
(* key only, is not modelled, nor is the deletion of invalid keys.         *)
(***************************************************************************)
EXTENDS FiniteSets

CONSTANTS
    Key,        \* the key pairs that may be generated, each once: the bound
    Peer        \* addresses of bootstrap nodes

ASSUME KeyAssumption == Key \cap {"absent", "torn", "none"} = {}

VARIABLES
    pc,         \* where main is
    temporary,  \* the -temp flag of this run
    rsa,        \* the key pair in memory, as [priv, pub]
    privFile,   \* key.priv: "absent", "torn" or the key whose half it holds
    pubFile,    \* key.pub
    bspLst,     \* the bootstrap list in memory
    bspFile,    \* what LoadBspFromFile finds in bsp.cfg: nothing if it is missing
    generated,  \* history: the keys generated so far
    lost        \* history: a run was killed while bsp.cfg was being written, or
                \* none wrote it yet

sessionVars == <<pc, temporary, rsa, privFile, pubFile, bspLst, bspFile, generated, lost>>
files == <<privFile, pubFile, bspFile>>

NoKey == "none"
\* What LoadBspFromFile makes of the empty line that ends every existing file.
NoAddress == "no address"
NoKeys == [priv |-> NoKey, pub |-> NoKey]
Pair(k) == [priv |-> k, pub |-> k]

SessionInit ==
    /\ pc = "off" /\ temporary = FALSE
    /\ rsa = NoKeys
    /\ privFile = "absent" /\ pubFile = "absent"
    /\ bspLst = {} /\ bspFile = {}
    /\ generated = {} /\ lost = TRUE

-----------------------------------------------------------------------------
(* Identity *)

Start(temp) ==
    /\ pc = "off" /\ pc' = "keys"
    /\ temporary' = temp
    /\ UNCHANGED <<rsa, files, bspLst, generated, lost>>

\* TryLoadKeys wants both files.
PrivSaved == privFile # "absent"                          \* mutant of KeysSaved
KeysSaved == privFile # "absent" /\ pubFile # "absent"

\* A file that is cut short makes BERDecode throw, and nobody catches it: the
\* process ends and the files stay.
Torn == "torn" \in {privFile, pubFile}

TryLoadKeys ==
    /\ pc = "keys" /\ ~temporary /\ KeysSaved
    /\ pc' = IF Torn THEN "off" ELSE "bsp"
    /\ rsa' = IF Torn THEN NoKeys ELSE [priv |-> privFile, pub |-> pubFile]
    /\ UNCHANGED <<temporary, files, bspLst, generated, lost>>

\* new KadRSA()
GenerateKeysSaved(k) ==                                   \* mutant of GenerateKeys
    /\ pc = "keys" /\ (temporary \/ ~KeysSaved)
    /\ k \notin generated /\ generated' = generated \cup {k}
    /\ rsa' = Pair(k)
    /\ pc' = "open_priv"
    /\ UNCHANGED <<temporary, files, bspLst, lost>>
GenerateKeys(k) ==
    /\ pc = "keys" /\ (temporary \/ ~KeysSaved)
    /\ k \notin generated /\ generated' = generated \cup {k}
    /\ rsa' = Pair(k)
    /\ pc' = IF temporary THEN "bsp" ELSE "open_priv"
    /\ UNCHANGED <<temporary, files, bspLst, lost>>

\* SaveKeys: EncodeToFile of one half, then of the other.
SaveKeys ==
    /\ \/ pc = "open_priv"  /\ pc' = "write_priv" /\ privFile' = "torn"   /\ UNCHANGED pubFile
       \/ pc = "write_priv" /\ pc' = "open_pub"   /\ privFile' = rsa.priv /\ UNCHANGED pubFile
       \/ pc = "open_pub"   /\ pc' = "write_pub"  /\ pubFile' = "torn"    /\ UNCHANGED privFile
       \/ pc = "write_pub"  /\ pc' = "bsp"        /\ pubFile' = rsa.pub   /\ UNCHANGED privFile
    /\ UNCHANGED <<temporary, rsa, bspLst, bspFile, generated, lost>>

-----------------------------------------------------------------------------
(* Bootstrap list *)

\* LoadBspFromFile; the user is asked for an address only if there is no file, for
\* the last line of an existing one, empty, always makes an address.
LoadBsp ==
    /\ pc = "bsp"
    /\ bspLst' = bspFile
    /\ pc' = IF bspFile = {} THEN "ask" ELSE "run"
    /\ UNCHANGED <<temporary, rsa, files, generated, lost>>

Ask(p) ==
    /\ pc = "ask" /\ pc' = "run"
    /\ bspLst' = {p}
    /\ UNCHANGED <<temporary, rsa, files, generated, lost>>

\* Leave returns the contacts that are not stale, none perhaps; then the file is
\* not touched ("Not to produce empty file!").
WorthSaving(contacts) == contacts # {}

Leave(contacts) ==
    /\ pc = "run"
    /\ bspLst' = contacts
    /\ pc' = IF WorthSaving(contacts) THEN "open_bsp" ELSE "off"
    /\ rsa' = IF WorthSaving(contacts) THEN rsa ELSE NoKeys
    /\ UNCHANGED <<temporary, files, generated, lost>>

\* SaveBspToFile: the file is cut, then written a line at a time, then closed.
OpenBsp ==
    /\ pc = "open_bsp" /\ pc' = "write_bsp"
    /\ bspFile' = {NoAddress} /\ lost' = TRUE
    /\ UNCHANGED <<temporary, rsa, privFile, pubFile, bspLst, generated>>

WriteBsp(p) ==
    /\ pc = "write_bsp" /\ p \in bspLst \ bspFile
    /\ bspFile' = bspFile \cup {p}
    /\ UNCHANGED <<pc, temporary, rsa, privFile, pubFile, bspLst, generated, lost>>

CloseBsp ==
    /\ pc = "write_bsp" /\ bspLst \subseteq bspFile
    /\ pc' = "off" /\ lost' = FALSE
    /\ rsa' = NoKeys /\ bspLst' = {}
    /\ UNCHANGED <<temporary, files, generated>>

\* The process is killed.
Kill ==
    /\ pc # "off" /\ pc' = "off"
    /\ rsa' = NoKeys /\ bspLst' = {}
    /\ UNCHANGED <<temporary, files, generated, lost>>

SessionNext ==
    \/ \E temp \in BOOLEAN : Start(temp)
    \/ TryLoadKeys
    \/ \E k \in Key : GenerateKeys(k)
    \/ SaveKeys
    \/ LoadBsp
    \/ \E p \in Peer : Ask(p) \/ WriteBsp(p)
    \/ \E contacts \in SUBSET Peer : Leave(contacts)
    \/ OpenBsp \/ CloseBsp
    \/ Kill

SessionSpec == SessionInit /\ [][SessionNext]_sessionVars

-----------------------------------------------------------------------------
(* Properties *)

Running == {"bsp", "ask", "run", "open_bsp", "write_bsp"}
Half == Key \cup {"absent", "torn"}

\* Types; a node that runs has a key pair.
SessionTypeOK ==
    /\ pc \in Running \cup {"off", "keys", "open_priv", "write_priv", "open_pub", "write_pub"}
    /\ temporary \in BOOLEAN
    /\ rsa.priv \in Key \cup {NoKey} /\ rsa.pub \in Key \cup {NoKey}
    /\ pc \in Running => rsa.priv \in Key /\ rsa.pub \in Key
    /\ privFile \in Half /\ pubFile \in Half
    /\ bspLst \subseteq Peer \cup {NoAddress} /\ bspFile \subseteq Peer \cup {NoAddress}
    /\ generated \subseteq Key /\ lost \in BOOLEAN

\* Though a kill can leave any part of SaveKeys done, and the halves are never
\* compared, a node runs with two halves of one key; and unless it is a temporary
\* one, its files will give it the same id at the next start.
IdentityIsSaved ==
    pc \in Running =>
        /\ rsa.priv = rsa.pub
        /\ ~temporary => privFile = rsa.priv /\ pubFile = rsa.pub

\* Nothing, a temporary run included, changes a saved identity.
IdentityPersists ==
    [][privFile = pubFile /\ privFile \in Key => UNCHANGED <<privFile, pubFile>>]_sessionVars

\* "Not to produce empty file!": unless a kill in SaveBspToFile cut it, the list
\* saved by the last Leave that had one serves the next start, which neither asks
\* for an address nor joins by the empty line alone.
BootstrapIsKept ==
    ~lost => /\ pc # "ask"
             /\ pc = "run" => bspLst \cap Peer # {}

\* What a node has saved serves its next start, wherever a kill has hit the last run.
FilesAreKept == IdentityIsSaved /\ BootstrapIsKept
=============================================================================
