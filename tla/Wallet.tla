------------------------------- MODULE Wallet -------------------------------
(* wallet.toml of one device and the programs that add a paired capability to it: *)
(* `ce-fleet pair` in any terminal, the daemon's Pair button, and `ce wallet add`. *)
(* wallet::add loads the file, inserts an entry and writes the file again; nothing *)
(* locks it, and fs::write empties it before it writes.                          *)
EXTENDS Naturals, Functions

CONSTANTS Adder,          \* the pairings whose capability is to be stored
          Alias,          \* wallet keys; numbers, for the order of the BTreeMap
          Slug,           \* for each adder what its peer's label comes to, if any
          NoSlug,         \* a label without a usable character
          ShortId         \* for each adder the first characters of its peer's id

ASSUME WalletAssumption ==
    /\ Alias \subseteq Nat /\ NoSlug \notin Alias
    /\ Slug \in [Adder -> Alias \union {NoSlug}] /\ ShortId \in [Adder -> Alias]

VARIABLES file,           \* "absent", "text" or "garbled"
          entries,        \* what parsing the text gives
          pc,             \* where add stands for each adder
          wallet,         \* the adder's own copy in memory
          overlapped,     \* history: an add began while another was under way
          torn            \* history: a write ended before it was complete

vars == <<file, entries, pc, wallet, overlapped, torn>>

Empty == [x \in {} |-> x]
Wallets == UNION {[S -> Adder] : S \in SUBSET Alias}

TypeOK == /\ file \in {"absent", "text", "garbled"} /\ entries \in Wallets
          /\ file # "text" => entries = Empty
          /\ pc \in [Adder -> {"paired", "loaded", "opened", "stored", "failed"}]
          /\ wallet \in [Adder -> Wallets]
          /\ overlapped \in BOOLEAN /\ torn \in BOOLEAN

WalletAliasNoFallbackBug(a) == Slug[a]

WalletAlias(a) == IF Slug[a] # NoSlug THEN Slug[a] ELSE ShortId[a]

InsertForgetsBug(w, a) == [x \in {WalletAlias(a)} |-> a]      \* a wallet made anew each time

Insert(w, a) == [x \in DOMAIN w \union {WalletAlias(a)} |-> IF x = WalletAlias(a) THEN a ELSE w[x]]

(* What a prefix of the text holds, if it parses at all. *)
UpTo(w, k) == Restrict(w, {x \in DOMAIN w : x <= k})

(* What parses once w's text is written from the start of the file: w, and with it   *)
(* the last entries of a longer text that was there, if w has none of their keys.   *)
Left(k) == {x \in DOMAIN entries : x > k}

WrittenOver(w) ==
    {w} \union {[x \in DOMAIN w \union Left(k) |-> IF x \in DOMAIN w THEN w[x] ELSE entries[x]] :
                   k \in {k \in Alias : Left(k) \intersect DOMAIN w = {}}}

Busy(a) == pc[a] \in {"loaded", "opened"}

-----------------------------------------------------------------------------
Go(a, p) == pc' = [pc EXCEPT ![a] = p]

FailUnnoticedBug(a) == Go(a, "stored")             \* the error of save is dropped

Fail(a) == Go(a, "failed")

TruncateNotBug == UNCHANGED entries /\ file' = IF file = "absent" THEN "text" ELSE file

(* An empty file reads as an empty wallet. *)
Truncate == file' = "text" /\ entries' = Empty

(* No file is an empty wallet, and so is an empty file. *)
Load(a) == /\ pc[a] = "paired" /\ file # "garbled"
           /\ wallet' = [wallet EXCEPT ![a] = Insert(entries, a)]
           /\ Go(a, "loaded")
           /\ overlapped' = (overlapped \/ \E b \in Adder : Busy(b))
           /\ UNCHANGED <<file, entries, torn>>

(* The text does not parse, or the file cannot be read. *)
LoadFails(a) == /\ pc[a] = "paired"
                /\ Fail(a)
                /\ UNCHANGED <<file, entries, wallet, overlapped, torn>>

Open(a) == /\ pc[a] = "loaded"
           /\ Go(a, "opened") /\ Truncate
           /\ UNCHANGED <<wallet, overlapped, torn>>

(* The directory or the file cannot be opened, or the process ends before that. *)
OpenFails(a) == /\ pc[a] = "loaded"
                /\ Fail(a)
                /\ UNCHANGED <<file, entries, wallet, overlapped, torn>>

(* Over an empty file, or over a text that another has written since and whose tail *)
(* remains when it is longer.                                                     *)
Write(a) == /\ pc[a] = "opened"
            /\ Go(a, "stored")
            /\ \/ file' = "text" /\ entries' \in WrittenOver(wallet[a])
               \/ /\ file = "garbled" \/ entries # Empty
                  /\ file' = "garbled" /\ entries' = Empty
            /\ UNCHANGED <<wallet, overlapped, torn>>

(* The disk is full or the process ends, after none of the text or some of it. *)
WriteStops(a) == /\ pc[a] = "opened"
                 /\ Fail(a)
                 /\ \/ UNCHANGED <<file, entries>>
                    \/ file' = "garbled" /\ entries' = Empty
                    \/ \E k \in Alias : file' = "text" /\ entries' \in WrittenOver(UpTo(wallet[a], k))
                 /\ torn' = TRUE
                 /\ UNCHANGED <<wallet, overlapped>>

Init == /\ file = "absent" /\ entries = Empty
        /\ pc = [a \in Adder |-> "paired"] /\ wallet = [a \in Adder |-> Empty]
        /\ overlapped = FALSE /\ torn = FALSE

Add(a) == Load(a) \/ LoadFails(a) \/ Open(a) \/ OpenFails(a) \/ Write(a) \/ WriteStops(a)

Next == \E a \in Adder : Add(a)

Spec == Init /\ [][Next]_vars

-----------------------------------------------------------------------------
Opened == {a \in Adder : pc[a] = "opened"}
Has(a) == WalletAlias(a) \in DOMAIN entries /\ entries[WalletAlias(a)] = a

(* While nobody writes the file, what an owner was told is stored ("Paired.        *)
(* Capability stored in wallet", main.rs) is in it, or was replaced under its       *)
(* alias, as long as adds came one at a time and no write was cut short.          *)
StoredStays == ~overlapped /\ ~torn /\ Opened = {} =>
    \A a \in Adder : pc[a] = "stored" =>
       \E b \in Adder : pc[b] = "stored" /\ WalletAlias(b) = WalletAlias(a) /\ Has(b)

(* Adds that overlap lose entries, but never all of them: once they are done, the  *)
(* file holds one at least, unless it cannot be read.                              *)
LastWriteCounts == ~torn /\ Opened = {} /\ file # "garbled" =>
    ((\E a \in Adder : pc[a] = "stored") => \E a \in Adder : pc[a] = "stored" /\ Has(a))

(* Only adds that overlap, or a write cut short, leave a file that cannot be read, *)
(* which makes every later add fail.                                              *)
ReadableUnlessDisturbed == file = "garbled" => overlapped \/ torn

(* What an owner was told is stored stays, whoever else pairs at the time. *)
StoredAlwaysStays == ~torn /\ Opened = {} => \A a \in Adder : pc[a] = "stored" =>
       \E b \in Adder : pc[b] = "stored" /\ WalletAlias(b) = WalletAlias(a) /\ Has(b)
=============================================================================
