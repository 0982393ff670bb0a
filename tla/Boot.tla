-------------------------------- MODULE Boot --------------------------------
(***************************************************************************)
(* The way of a launch context into the guest: the operator's record       *)
(* formats, the fw_cfg reader, the boot server that owns the device, and   *)
(* the administrator that asks it once.                                    *)
(*                                                                         *)
(* A record is what its bytes decode to: a prefix, a mode byte and three   *)
(* fields of which Zero is the all-zero value.  The device answers every   *)
(* byte read, or stops answering at one place, which the reader's callback *)
(* interface allows and this boot server's own callbacks never do; a       *)
(* directory entry is a selector key, a size, a name and its two reserved  *)
(* bytes.                                                                  *)
(***************************************************************************)
EXTENDS Integers, Sequences

CONSTANTS
  Zero, Values,         \* field values; Zero is none of them
  Fixtures,             \* the public test keys of RFC 8032
  MODE,                 \* TCS_LAUNCH_MODE of this image
  ItemSize,             \* TCS_LAUNCH_BYTES
  MaxFiles,             \* TCS_FWCFG_MAX_FILES
  MinKey, KeyEnd,       \* file selectors: 0x20 up to 0x4000, exclusive
  Devices               \* the devices the guest may find

ASSUME BootAssumption ==
  /\ Zero \notin Values /\ Fixtures \subseteq Values
  /\ MODE \in {"OPERATOR", "FIXTURE"}
  /\ {ItemSize, MaxFiles, MinKey, KeyEnd} \subseteq Nat

(* A record as its bytes decode, and a device.                             *)
Record == [prefix : STRING, mode : STRING, realm : Values \cup {Zero},
           boot : Values \cup {Zero}, key : Values \cup {Zero}]
Entry == [key : Nat, size : Nat, name : STRING, reserved : BOOLEAN]
Stops(count) == {<<"never">>, <<"signature">>, <<"features">>, <<"count">>, <<"item">>}
                  \cup {<<"entry", i>> : i \in 1..count}

ASSUME DevicesAssumption ==
  \A d \in Devices :
    /\ d.qemu \in BOOLEAN /\ d.traditional \in BOOLEAN
    /\ d.entries \in Seq(Entry)
    /\ d.item \in Seq(Record) /\ Len(d.item) = Len(d.entries)
    /\ d.stops \in Stops(Len(d.entries))

ZeroRecord == [prefix |-> "none", mode |-> "OPERATOR", realm |-> Zero, boot |-> Zero, key |-> Zero]
NoLaunch == [realm |-> Zero, boot |-> Zero, key |-> Zero]

-----------------------------------------------------------------------------
(* lib/launch.c.                                                           *)

identity_valid(l, mode) ==
  /\ l.realm # Zero /\ l.key # Zero
  /\ (mode = "FIXTURE") <=> (l.key \in Fixtures)

(* The record of a valid launch; the operator tool writes it.              *)
tcs_launch_encode(l, mode) ==
  IF identity_valid(l, mode) /\ l.boot # Zero
  THEN [prefix |-> "LAUNCH", mode |-> mode, realm |-> l.realm, boot |-> l.boot, key |-> l.key]
  ELSE ZeroRecord

header(r, prefix, mode) == r.prefix = prefix /\ r.mode = mode

Launch(r) == [realm |-> r.realm, boot |-> r.boot, key |-> r.key]

tcs_launch_decode(r, mode) ==
  IF header(r, "LAUNCH", mode) /\ identity_valid(Launch(r), mode) /\ r.boot # Zero
  THEN Launch(r) ELSE NoLaunch

(* The public record has no boot field.                                    *)
tcs_public_encode(l, mode) ==
  IF identity_valid(l, mode)
  THEN [prefix |-> "PUB", mode |-> mode, realm |-> l.realm, boot |-> Zero, key |-> l.key]
  ELSE ZeroRecord

tcs_public_decode(r, mode) ==
  IF header(r, "PUB", mode) /\ identity_valid(Launch(r), mode) THEN Launch(r) ELSE NoLaunch

(* The test-only format of lib/boot.c: any nonzero fields, no mode.        *)
tcs_boot_decode_test(r) ==
  IF r.prefix = "BOOT" /\ Zero \notin {r.realm, r.boot, r.key} THEN Launch(r) ELSE NoLaunch

-----------------------------------------------------------------------------
(* read_item.  Its early returns, in order; the directory is read entry by *)
(* entry, so that whichever of a bad entry and a failed read comes first   *)
(* decides.                                                                *)

(* Mutant: a second item of the same name is not noticed.                  *)
BadEntryMutant(entries, i, name) ==
  LET e == entries[i]
  IN \/ e.key < MinKey \/ e.key >= KeyEnd \/ e.reserved
     \/ \E j \in 1..(i - 1) : entries[j].key = e.key
     \/ e.name = "unnamed"

BadEntry(entries, i, name) ==
  LET e == entries[i]
  IN \/ e.key < MinKey \/ e.key >= KeyEnd \/ e.reserved
     \/ \E j \in 1..(i - 1) : entries[j].key = e.key
     \/ e.name = "unnamed"
     \/ e.name = name /\ \E j \in 1..(i - 1) : entries[j].name = name

read_item(dev, name, length) ==
  LET count == Len(dev.entries)
      stop  == {i \in 1..count : dev.stops = <<"entry", i>> \/ BadEntry(dev.entries, i, name)}
      found == {i \in 1..count : dev.entries[i].name = name}
      failed(place) == dev.stops = place
  IN IF failed(<<"signature">>) THEN "IO"
     ELSE IF ~dev.qemu THEN "DEVICE"
     ELSE IF failed(<<"features">>) THEN "IO"
     ELSE IF ~dev.traditional THEN "FEATURES"
     ELSE IF failed(<<"count">>) THEN "IO"
     ELSE IF count > MaxFiles THEN "DIRECTORY"
     ELSE IF \E i \in stop : failed(<<"entry", i>>) /\ \A j \in stop : i <= j THEN "IO"
     ELSE IF stop # {} THEN "DIRECTORY"
     ELSE IF found = {} THEN "MISSING"
     ELSE IF \E i \in found : dev.entries[i].size # length THEN "LENGTH"
     ELSE IF failed(<<"item">>) THEN "IO"
     ELSE "OK"

(* The output: the item whose selector was found, or zeroes.               *)
tcs_fwcfg_read(dev, name, length) ==
  IF read_item(dev, name, length) = "OK"
  THEN dev.item[(CHOOSE i \in DOMAIN dev.entries : dev.entries[i].name = name)]
  ELSE ZeroRecord

-----------------------------------------------------------------------------
VARIABLES dev, booted, bytes, ready,    \* the boot server
          reply,                        \* what it last answered
          asked, admin                  \* the administrator

LaunchVars == <<dev, booted, bytes, ready, reply, asked, admin>>

LaunchInit ==
  /\ dev \in Devices
  /\ booted = FALSE
  /\ bytes = ZeroRecord /\ ready = FALSE
  /\ reply = <<"none">>
  /\ asked = FALSE /\ admin = NoLaunch

(* init of the boot server, whose priority runs it before any caller.      *)
BootInit ==
  /\ ~booted
  /\ booted' = TRUE
  /\ bytes' = tcs_fwcfg_read(dev, "launch-context", ItemSize)
  /\ ready' = (/\ read_item(dev, "launch-context", ItemSize) = "OK"
               /\ tcs_launch_decode(bytes', MODE) # NoLaunch)
  /\ UNCHANGED <<dev, reply, asked, admin>>

(* The boot server's protected handler.                                    *)
protected(channel, wellFormed) ==
  CASE ~ready \/ channel # 0 -> <<"DENIED">>
    [] ready /\ channel = 0 /\ ~wellFormed -> <<"BAD_MESSAGE">>
    [] OTHER -> <<"DATA", bytes>>

(* init of the administrator: one request, and what it decodes to.         *)
AdminInit ==
  /\ booted /\ ~asked
  /\ asked' = TRUE
  /\ reply' = protected(0, TRUE)
  /\ admin' = IF reply'[1] = "DATA" THEN tcs_launch_decode(reply'[2], MODE) ELSE NoLaunch
  /\ UNCHANGED <<dev, booted, bytes, ready>>

(* Any other message to the boot server.                                   *)
Ask(channel, wellFormed) ==
  /\ booted
  /\ reply' = protected(channel, wellFormed)
  /\ UNCHANGED <<dev, booted, bytes, ready, asked, admin>>

LaunchNext ==
  \/ BootInit
  \/ AdminInit
  \/ \E channel \in {0, 1}, wellFormed \in BOOLEAN : Ask(channel, wellFormed)

LaunchSpec == LaunchInit /\ [][LaunchNext]_LaunchVars

-----------------------------------------------------------------------------
(* The administrator starts only from the one context the host gave: the   *)
(* device listed exactly one item of that name, of full size, in a         *)
(* directory of distinct selectors, all of it was read, and it is byte for *)
(* byte what the operator tool encodes for that launch in this image's     *)
(* mode; a fixture key never passes for an operator's, nor the reverse.    *)
(* Anything else leaves it uninitialised, and a read that failed leaves no *)
(* bytes behind.  The last conjunct is about the formats themselves: no    *)
(* record a device holds passes for one of another mode or format.         *)
ContextExact ==
  /\ admin # NoLaunch =>
       /\ dev.stops = <<"never">>
       /\ \E i \in DOMAIN dev.entries :
            /\ \A j \in DOMAIN dev.entries \ {i} :
                 /\ dev.entries[j].name # "launch-context"
                 /\ dev.entries[j].key # dev.entries[i].key
            /\ dev.entries[i].name = "launch-context" /\ dev.entries[i].size = ItemSize
            /\ dev.item[i] = tcs_launch_encode(admin, MODE)
       /\ (MODE = "FIXTURE") <=> (admin.key \in Fixtures)
  /\ booted /\ bytes # ZeroRecord =>
       /\ \E i \in DOMAIN dev.entries : bytes = dev.item[i]
       /\ dev.stops = <<"never">>
  /\ \A i \in DOMAIN dev.item :
       LET r == dev.item[i]
           modes == {"OPERATOR", "FIXTURE"}
           read == {<<"launch", m>> : m \in {m \in modes : tcs_launch_decode(r, m) # NoLaunch}}
              \cup {<<"public", m>> : m \in {m \in modes : tcs_public_decode(r, m) # NoLaunch}}
              \cup (IF tcs_boot_decode_test(r) # NoLaunch THEN {<<"test">>} ELSE {})
       IN \A x, y \in read : x = y
=============================================================================
