---------------------------- MODULE DenialWire ----------------------------
(***************************************************************************)
(* The version-1 packet protocol between Composer (Android) and the host   *)
(* presenter: the two encoders and decoders, the hello exchange, what each *)
(* side sends once it is ready and what each handler refuses.  The two     *)
(* sides may be different builds: a build of minor m is this code with     *)
(* PROTOCOL_MINOR = m and the capabilities that exist up to m.             *)
(*                                                                         *)
(* A message is its kind, its object (0 is the connection) and one small   *)
(* value per encoded field; a record is what the socket carries.  Each     *)
(* field is named by its width and by what the code demands of it, so a    *)
(* row lists the writes of an encoder, or the reads of a decoder, in order.*)
(***************************************************************************)
EXTENDS Integers, Sequences, FiniteSets, SequencesExt, TLC

CONSTANTS Minors,        \* the builds that may meet
          MaxInFlight    \* records under way at once

VARIABLES android, host, wire, fault

vars == <<android, host, wire, fault>>

Capability == [activation |-> 4, direct_input |-> 6, lazy_targets |-> 7,
               scene_presentation |-> 8, host_clock |-> 9]

Known(minor) == {c \in DOMAIN Capability : Capability[c] <= minor}

\* Width in bytes, and the values (classes of values) the code accepts;
\* what it refuses never becomes a record.
F(width, valid) == [width |-> width, valid |-> valid]

Field == [u8 |-> F(1, {0}), u16 |-> F(2, {0}), u32 |-> F(4, {0}),
          u64 |-> F(8, {0}), nz16 |-> F(2, {1}), nz32 |-> F(4, {1}),
          nz64 |-> F(8, {1}), bool |-> F(1, 0..1), enum |-> F(1, 0..1),
          range |-> F(4, {1}), name |-> F(0, {1}), dim |-> F(4, {1}),
          modifier |-> F(8, {1}), planes |-> F(1, 1..4),
          damage |-> F(2, {1}), bits |-> F(4, {1}), limit |-> F(4, {1}),
          formats |-> F(2, {1}), route |-> F(12, {1}), text |-> F(0, {1}),
          grant |-> F(24, {1}), event |-> F(0, 0..2), limits |-> F(12, {1})]

Row(opcode, scope, fields, roles) ==
    [opcode |-> opcode, scope |-> scope, fields |-> fields, roles |-> roles]

Buffer == <<"nz64", "dim", "dim", "u32", "modifier", "planes">>

EncodeAndroidSetup ==
    [ClientHello |-> Row(1, "connection", <<"range", "u64">>, <<>>),
     CreateTask |-> Row(2, "task", <<"nz64", "name">>, <<>>),
     DestroyTask |-> Row(3, "task", <<>>, <<>>),
     BindTimelines |-> Row(4, "task", <<>>, <<"AcquireTimeline", "ReleaseTimeline">>),
     AckConfigure |-> Row(5, "task", <<"nz32">>, <<>>),
     BindTask |-> Row(12, "task", <<"nz64">>, <<>>),
     BindInputChannel |-> Row(15, "connection", <<"nz64", "nz16">>, <<"InputChannel">>),
     BindInputRoute |-> Row(16, "task", <<"route">>, <<>>),
     RequestRenderTargets |-> Row(17, "task", <<"nz32">>, <<>>)]

EncodeAndroidFrames ==
    [RegisterBuffer |-> Row(6, "task", Buffer, <<"DmabufPlane">>),
     UnregisterBuffer |-> Row(7, "task", <<"nz64">>, <<>>),
     Present |-> Row(8, "task", <<"nz64", "nz64", "nz32", "nz64", "nz64", "damage">>, <<>>),
     SetContentState |-> Row(9, "task", <<"bits">>, <<>>),
     SetFrameRate |-> Row(10, "task", <<"limit">>, <<>>),
     Pong |-> Row(11, "connection", <<"u64">>, <<>>),
     BindLayerStream |-> Row(13, "task", <<>>, <<"LayerStream", "LayerStream">>),
     RequestActivation |-> Row(14, "task", <<>>, <<>>)]

EncodeAndroid == EncodeAndroidSetup @@ EncodeAndroidFrames

DecodeAndroidSetup ==
    [RequestRenderTargets |-> Row(17, "task", <<"nz32">>, <<>>),
     ClientHello |-> Row(1, "connection", <<"range", "u64">>, <<>>),
     CreateTask |-> Row(2, "task", <<"nz64", "name">>, <<>>),
     BindTask |-> Row(12, "task", <<"nz64">>, <<>>),
     DestroyTask |-> Row(3, "task", <<>>, <<>>),
     BindTimelines |-> Row(4, "task", <<>>, <<"AcquireTimeline", "ReleaseTimeline">>),
     AckConfigure |-> Row(5, "task", <<"nz32">>, <<>>),
     RegisterBuffer |-> Row(6, "task", Buffer, <<"DmabufPlane">>),
     UnregisterBuffer |-> Row(7, "task", <<"nz64">>, <<>>)]

DecodeAndroidFrames ==
    [Present |-> Row(8, "task", <<"nz64", "nz64", "nz32", "nz64", "nz64", "damage">>, <<>>),
     BindInputChannel |-> Row(15, "connection", <<"nz64", "nz16">>, <<"InputChannel">>),
     BindInputRoute |-> Row(16, "task", <<"route">>, <<>>),
     BindLayerStream |-> Row(13, "task", <<>>, <<"LayerStream", "LayerStream">>),
     SetContentState |-> Row(9, "task", <<"bits">>, <<>>),
     SetFrameRate |-> Row(10, "task", <<"limit">>, <<>>),
     RequestActivation |-> Row(14, "task", <<>>, <<>>),
     Pong |-> Row(11, "connection", <<"u64">>, <<>>)]

DecodeAndroid == DecodeAndroidSetup @@ DecodeAndroidFrames

Server(n) == 32768 + n

EncodeDenialSetup ==
    [ServerHello |-> Row(Server(1), "connection", <<"u16", "u16", "u64", "limits">>, <<>>),
     FormatFeedback |-> Row(Server(2), "task", <<"nz32", "formats">>, <<>>),
     Configure |-> Row(Server(3), "task", <<"nz32", "dim", "dim", "nz32", "nz32", "enum", "limit">>, <<>>),
     RegisterRenderTarget |-> Row(Server(12), "task", <<"nz32">> \o Buffer, <<"DmabufPlane">>),
     UnregisterRenderTarget |-> Row(Server(13), "task", <<"nz64">>, <<>>),
     DisplayPower |-> Row(Server(14), "connection", <<"bool">>, <<>>),
     RequestInputChannel |-> Row(Server(15), "connection", <<"nz64">>, <<>>)]

EncodeDenialEvents ==
    [Insets |-> Row(Server(4), "task", <<"u32", "u32", "u32", "u32">>, <<>>),
     Visibility |-> Row(Server(5), "task", <<"enum", "bool">>, <<>>),
     Close |-> Row(Server(6), "task", <<>>, <<>>),
     BufferReleased |-> Row(Server(7), "task", <<"nz64", "nz64", "nz64">>, <<>>),
     Presented |-> Row(Server(8), "task", <<"nz64", "u64", "nz64", "u64", "bits">>, <<>>),
     Input |-> Row(Server(9), "task", <<"nz64", "u64", "event">>, <<>>),
     Error |-> Row(Server(10), "either", <<"u16", "u16", "text">>, <<>>),
     Ping |-> Row(Server(11), "connection", <<"u64">>, <<>>),
     ScenePresented |-> Row(Server(16), "task", <<"nz64", "nz64", "nz64", "u64">>, <<>>),
     FrameGrant |-> Row(Server(17), "connection", <<"grant">>, <<>>)]

EncodeDenial == EncodeDenialSetup @@ EncodeDenialEvents

DecodeDenialSetup ==
    [ServerHello |-> Row(Server(1), "connection", <<"u16", "u16", "u64", "limits">>, <<>>),
     RequestInputChannel |-> Row(Server(15), "connection", <<"nz64">>, <<>>),
     DisplayPower |-> Row(Server(14), "connection", <<"bool">>, <<>>),
     FormatFeedback |-> Row(Server(2), "task", <<"nz32", "formats">>, <<>>),
     RegisterRenderTarget |-> Row(Server(12), "task", <<"nz32">> \o Buffer, <<"DmabufPlane">>),
     UnregisterRenderTarget |-> Row(Server(13), "task", <<"nz64">>, <<>>),
     Configure |-> Row(Server(3), "task", <<"nz32", "dim", "dim", "nz32", "nz32", "enum", "limit">>, <<>>)]

DecodeDenialEvents ==
    [Insets |-> Row(Server(4), "task", <<"u32", "u32", "u32", "u32">>, <<>>),
     Visibility |-> Row(Server(5), "task", <<"enum", "bool">>, <<>>),
     Close |-> Row(Server(6), "task", <<>>, <<>>),
     BufferReleased |-> Row(Server(7), "task", <<"nz64", "nz64", "nz64">>, <<>>),
     Presented |-> Row(Server(8), "task", <<"nz64", "u64", "nz64", "u64", "bits">>, <<>>),
     ScenePresented |-> Row(Server(16), "task", <<"nz64", "nz64", "nz64", "u64">>, <<>>),
     Input |-> Row(Server(9), "task", <<"nz64", "u64", "event">>, <<>>),
     Error |-> Row(Server(10), "either", <<"u16", "u16", "text">>, <<>>),
     Ping |-> Row(Server(11), "connection", <<"u64">>, <<>>),
     FrameGrant |-> Row(Server(17), "connection", <<"grant">>, <<>>)]

DecodeDenial == DecodeDenialSetup @@ DecodeDenialEvents

InScope(row, object) ==
    \/ row.scope = "either"
    \/ (row.scope = "connection") = (object = 0)

\* The roles of the attached descriptors; a buffer has one per plane.
Roles(row, args) ==
    IF row.roles = <<"DmabufPlane">>
    THEN [i \in 1..args[Len(args)] |-> "DmabufPlane"]
    ELSE row.roles

Valid(fields, args) ==
    /\ Len(args) = Len(fields)
    /\ \A i \in 1..Len(fields) : args[i] \in Field[fields[i]].valid

Widths(fields) == [i \in 1..Len(fields) |-> Field[fields[i]].width]

\* Mutant: every record carries the newest minor this build knows.
FinishPacketNewest(minor, opcode) == minor

\* Only an opcode that had to be negotiated raises the header's minor.
FinishPacket(minor, opcode) ==
    CASE opcode = 14 -> 4
      [] opcode = Server(14) -> 5
      [] opcode \in {15, 16, Server(15)} -> 6
      [] opcode = 17 -> 7
      [] opcode = Server(16) -> 8
      [] opcode = Server(17) -> 9
      [] OTHER -> 3

\* Every message of this kind its encoder accepts, with its hello contents.
Accepted(table, kind, hello) ==
    LET row == table[kind]
    IN  {[kind |-> kind, object |-> o, args |-> a, hello |-> hello] :
            o \in {x \in 0..1 : InScope(row, x)},
            a \in FoldLeft(LAMBDA done, f : {Append(x, v) : x \in done, v \in Field[f].valid},
                           {<<>>}, row.fields)}

Encoded(table, minor, m) ==
    LET row == table[m.kind]
    IN  [opcode |-> row.opcode, minor |-> FinishPacket(minor, row.opcode),
         object |-> m.object, widths |-> Widths(row.fields), args |-> m.args,
         fds |-> Roles(row, m.args), hello |-> m.hello]

\* parse_header, the read order, the end of the payload, the descriptors.
Decodes(table, minor, r) ==
    {k \in DOMAIN table :
        /\ r.minor <= minor
        /\ table[k].opcode = r.opcode
        /\ InScope(table[k], r.object)
        /\ Widths(table[k].fields) = r.widths
        /\ Valid(table[k].fields, r.args)
        /\ Roles(table[k], r.args) = r.fds}

NoHello == [minor |-> 0, caps |-> {}]

Init == \E a, h \in Minors :
    /\ android = [minor |-> a, phase |-> "new", caps |-> {}]
    /\ \E options \in SUBSET (Known(h) \cap {"activation", "host_clock"}) :
        host = [minor |-> h, ready |-> FALSE,
                caps |-> options \cup (Known(h) \ {"activation", "host_clock"})]
    /\ wire = [android |-> <<>>, host |-> <<>>]
    /\ fault = "none"

InFlight == Len(wire.android) + Len(wire.host)

Alive == fault = "none" /\ android.phase # "failed"

\* handshake: the only record Composer sends before it is ready.
ClientHello ==
    /\ Alive /\ android.phase = "new"
    /\ \E m \in Accepted(EncodeAndroid, "ClientHello",
                         [minor |-> 0, caps |-> Known(android.minor)]) :
        wire' = [wire EXCEPT !.host = Append(@, Encoded(EncodeAndroid, android.minor, m))]
    /\ android' = [android EXCEPT !.phase = "hello"]
    /\ UNCHANGED <<host, fault>>

\* Mutant: the host announces its own minor whatever was negotiated.
ServerMinorOwn(minor, caps) == minor

\* The minor the host announces follows what was negotiated.
ServerMinor(minor, caps) ==
    IF "host_clock" \in caps THEN minor
    ELSE IF "scene_presentation" \in caps THEN 8
    ELSE IF "lazy_targets" \in caps THEN 7 ELSE 6

\* What each kind needs before its sender may send it.
Needs ==
    [k \in DOMAIN EncodeAndroid \cup DOMAIN EncodeDenial |->
        CASE k = "RequestActivation" -> {"activation"}
          [] k \in {"BindInputChannel", "BindInputRoute", "RequestInputChannel"} -> {"direct_input"}
          [] k = "RequestRenderTargets" -> {"lazy_targets"}
          [] k = "ScenePresented" -> {"scene_presentation"}
          [] k = "FrameGrant" -> {"host_clock"}
          [] OTHER -> {}]

\* Mutant: fallback targets are asked for without the negotiated capability.
AndroidMaySendEager(kind) ==
    /\ kind # "ClientHello"
    /\ kind = "RequestRenderTargets" \/ Needs[kind] \subseteq android.caps

AndroidMaySend(kind) == kind # "ClientHello" /\ Needs[kind] \subseteq android.caps

AndroidSends ==
    /\ Alive /\ android.phase = "ready" /\ InFlight < MaxInFlight
    /\ \E kind \in DOMAIN EncodeAndroid :
        /\ AndroidMaySend(kind)
        /\ \E m \in Accepted(EncodeAndroid, kind, NoHello) :
            wire' = [wire EXCEPT !.host = Append(@, Encoded(EncodeAndroid, android.minor, m))]
    /\ UNCHANGED <<android, host, fault>>

\* Display power and key or touch records leave the host only on a
\* connection without direct input; nothing sends Insets, Ping or Error.
HostMaySend(kind) ==
    /\ kind \notin {"ServerHello", "Insets", "Ping", "Error"}
    /\ Needs[kind] \subseteq host.caps
    /\ kind \in {"DisplayPower", "Input"} => "direct_input" \notin host.caps

HostSends ==
    /\ Alive /\ host.ready /\ InFlight < MaxInFlight
    /\ \E kind \in DOMAIN EncodeDenial :
        /\ HostMaySend(kind)
        /\ \E m \in Accepted(EncodeDenial, kind, NoHello) :
            wire' = [wire EXCEPT !.android = Append(@, Encoded(EncodeDenial, host.minor, m))]
    /\ UNCHANGED <<android, host, fault>>

\* receive_action: the first record must be a hello and only the first; a
\* request that was not negotiated is an incompatible client.
HostReceives ==
    /\ Alive /\ wire.host # <<>>
    /\ LET r == Head(wire.host)
           kinds == Decodes(DecodeAndroid, host.minor, r)
           rest == [wire EXCEPT !.host = Tail(@)]
           shared == host.caps \cap r.hello.caps
       IN  IF kinds = {}
           THEN fault' = "host cannot decode" /\ wire' = rest /\ UNCHANGED host
           ELSE LET kind == CHOOSE k \in kinds : TRUE
                IN  IF host.ready = (kind = "ClientHello") \/ ~ (Needs[kind] \subseteq host.caps)
                    THEN fault' = "host refuses" /\ wire' = rest /\ UNCHANGED host
                    ELSE IF kind = "ClientHello"
                    THEN /\ host' = [host EXCEPT !.ready = TRUE, !.caps = shared]
                         /\ \E m \in Accepted(EncodeDenial, "ServerHello",
                                [minor |-> ServerMinor(host.minor, shared), caps |-> shared]) :
                              wire' = [rest EXCEPT !.android =
                                  Append(@, Encoded(EncodeDenial, host.minor, m))]
                         /\ UNCHANGED fault
                    ELSE wire' = rest /\ UNCHANGED <<host, fault>>
    /\ UNCHANGED android

\* handshake's answer, then event_loop: a second hello, a peer's error and
\* the retired input path end the connection.
AndroidReceives ==
    /\ Alive /\ wire.android # <<>>
    /\ LET r == Head(wire.android)
           kinds == Decodes(DecodeDenial, android.minor, r)
           hello == kinds = {"ServerHello"}
       IN  /\ wire' = [wire EXCEPT !.android = Tail(@)]
           /\ IF kinds = {} \/ (hello /\ r.hello.minor > android.minor)
              THEN fault' = "android cannot decode" /\ UNCHANGED android
              ELSE IF android.phase = "hello"
              THEN /\ android' = [android EXCEPT !.caps = r.hello.caps,
                        !.phase = IF hello /\ "direct_input" \in r.hello.caps
                                  THEN "ready" ELSE "failed"]
                   /\ UNCHANGED fault
              ELSE /\ fault' = IF kinds \subseteq {"ServerHello", "Error", "DisplayPower", "Input"}
                               THEN "android refuses" ELSE fault
                   /\ UNCHANGED android
    /\ UNCHANGED host

Next == ClientHello \/ AndroidSends \/ HostSends \/ HostReceives \/ AndroidReceives

Spec == Init /\ [][Next]_vars

(***************************************************************************)
(* Two builds that complete the hello never disconnect over the protocol:  *)
(* every record either of them sends decodes at the other, with the same   *)
(* descriptor roles, and names something the other negotiated.  Builds     *)
(* that differ in minor always do complete the hello.                      *)
(***************************************************************************)
PeersUnderstand ==
    /\ fault = "none"
    /\ android.phase # "failed"
    /\ android.phase = "ready" => android.caps = host.caps
=============================================================================
