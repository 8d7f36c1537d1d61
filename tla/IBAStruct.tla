------------------------------- MODULE IBAStruct -------------------------------
(* The wire layouts of src/rdma/IBA_struct.py: one row for every class.  A row *)
(* gives MAD_LENGTH, the MEMBERS in order and the statements of pack_into.     *)
(* unpack_from holds the same statements in the same order with the transfer   *)
(* reversed, so the one list stands for both.  A member is its width, its      *)
(* count and, when it is an object, its class; names and the constants that    *)
(* number classes and attributes are left out.                                 *)
EXTENDS Integers, Sequences

Member(bits, count, class) == [bits |-> bits, count |-> count, class |-> class]

\* Scalars, n scalars of one width, arrays, objects and arrays of objects.
V(widths) == [i \in DOMAIN widths |-> Member(widths[i], 1, "")]
Rep(n, bits) == [i \in 1..n |-> Member(bits, 1, "")]
A(count, bits) == <<Member(bits, count, "")>>
O(bits, class) == <<Member(bits, 1, class)>>
Os(count, bits, class) == <<Member(bits, count, class)>>

\* The characters of a struct format: each is a word of some bits; all hold one
\* member, but for W(n): an L of n members, put together by a _pack_*_32 property.
Word(bits, members) == [bits |-> bits, members |-> members]
B(n) == [i \in 1..n |-> Word(8, 1)]
H(n) == [i \in 1..n |-> Word(16, 1)]
L(n) == [i \in 1..n |-> Word(32, 1)]
Q(n) == [i \in 1..n |-> Word(64, 1)]
W(n) == <<Word(32, n)>>

\* The statements: self.m[k].pack_into(buffer, offset + at);
\* buffer[offset + at:offset + to] = self.m; pack_array8(buffer, offset + at,
\* mlen, count, self.m); struct.pack_into(words, buffer, offset + at, ...) with
\* the members from m on as arguments.
Sub1(m, k, at) == [op |-> "object", m |-> m, k |-> k, at |-> at]
Sub(m, at) == Sub1(m, 0, at)
Subs(m, n, at, size) == [i \in 1..n |-> Sub1(m, i - 1, at + (i - 1) * size)]
Bytes(m, at, to) == [op |-> "bytes", m |-> m, at |-> at, to |-> to]
Array(m, at, mlen, count) == [op |-> "array", m |-> m, at |-> at, mlen |-> mlen, count |-> count]
Fmt(at, m, words) == [op |-> "struct", m |-> m, at |-> at, words |-> words]

Struct(length, members, code) == [length |-> length, members |-> members, code |-> code]

\* Packet headers
HdrLRH == Struct(8, V(<<4, 4, 4, 2, 2, 16, 5, 11, 16>>), <<Fmt(0, 1, W(6) \o W(3))>>)
HdrRWH == Struct(4, V(<<16, 16>>), <<Fmt(0, 1, H(2))>>)
HdrGRH_Mutant == Struct(40, V(<<4, 8, 20, 16, 8, 8>>) \o O(128, "GID") \o O(128, "GID"),
    <<Sub(7, 8), Sub(8, 23), Fmt(0, 1, W(3) \o H(1) \o B(2))>>)
HdrGRH == Struct(40, V(<<4, 8, 20, 16, 8, 8>>) \o O(128, "GID") \o O(128, "GID"),
    <<Sub(7, 8), Sub(8, 24), Fmt(0, 1, W(3) \o H(1) \o B(2))>>)
HdrBTH == Struct(12, V(<<3, 5, 1, 1, 2, 4, 16, 8, 24, 1, 7, 24>>),
    <<Fmt(0, 1, W(7) \o W(2) \o W(3))>>)
HdrRDETH == Struct(4, V(<<8, 24>>), <<Fmt(0, 1, W(2))>>)
HdrDETH == Struct(8, V(<<32, 8, 24>>), <<Fmt(0, 1, L(1) \o W(2))>>)
HdrRETH == Struct(16, V(<<64, 32, 32>>), <<Fmt(0, 1, Q(1) \o L(2))>>)
HdrAtomicETH == Struct(28, V(<<64, 32, 64, 64>>), <<Fmt(0, 1, Q(1) \o L(1) \o Q(2))>>)
HdrAETH == Struct(4, V(<<8, 24>>), <<Fmt(0, 1, W(2))>>)
HdrAtomicAckETH == Struct(8, V(<<64>>), <<Fmt(0, 1, Q(1))>>)
HdrImmDt == Struct(4, V(<<32>>), <<Fmt(0, 1, L(1))>>)
HdrIETH == Struct(4, V(<<32>>), <<Fmt(0, 1, L(1))>>)
HdrFlowControl == Struct(4, V(<<4, 12, 4, 12>>), <<Fmt(0, 1, W(4))>>)

\* Communication management
CMFormat == Struct(256, V(<<8, 8, 8, 8, 16, 16, 64, 16, 16, 32, 1856>>),
    <<Bytes(11, 24, 256), Fmt(0, 1, B(4) \o H(2) \o Q(1) \o H(2) \o L(1))>>)
CMPath_Mutant == Struct(44,
    V(<<16, 16>>) \o O(128, "GID") \o O(128, "GID") \o V(<<20, 4, 2, 6, 8, 8, 4, 1, 3, 5, 3>>),
    <<Sub(3, 4), Sub(4, 20), Fmt(0, 1, H(2)), Fmt(36, 1, W(4) \o W(7))>>)
CMPath == Struct(44,
    V(<<16, 16>>) \o O(128, "GID") \o O(128, "GID") \o V(<<20, 4, 2, 6, 8, 8, 4, 1, 3, 5, 3>>),
    <<Sub(3, 4), Sub(4, 20), Fmt(0, 1, H(2)), Fmt(36, 5, W(4) \o W(7))>>)
CMREQ == Struct(232,
    V(<<32, 32, 64>>) \o O(64, "GUID") \o V(<<32, 32, 24, 8, 24, 8, 24, 5, 2, 1, 24, 5, 3, 16, 4,
      1, 3, 4, 4>>) \o O(352, "CMPath") \o O(352, "CMPath") \o V(<<736>>),
    <<Sub(4, 16), Sub(24, 52), Sub(25, 96), Bytes(26, 140, 232), Fmt(0, 1, L(2) \o Q(1)), Fmt(24,
      5, L(2) \o W(2) \o W(2) \o W(4) \o W(3) \o W(6))>>)
CMMRA == Struct(232, V(<<32, 32, 2, 6, 5, 3, 16, 1760>>),
    <<Bytes(8, 12, 232), Fmt(0, 1, L(2) \o W(5))>>)
CMREJ == Struct(232, V(<<32, 32, 2, 6, 7, 1, 16, 576, 1184>>),
    <<Bytes(8, 12, 84), Bytes(9, 84, 232), Fmt(0, 1, L(2) \o W(5))>>)
CMREP == Struct(232,
    V(<<32, 32, 32, 24, 8, 24, 8, 24, 8, 8, 8, 5, 2, 1, 3, 5>>) \o O(64, "GUID") \o V(<<1568>>),
    <<Sub(17, 28), Bytes(18, 36, 232), Fmt(0, 1, L(3) \o W(2) \o W(2) \o W(2) \o W(7))>>)
CMRTU == Struct(232, V(<<32, 32, 1792>>), <<Bytes(3, 8, 232), Fmt(0, 1, L(2))>>)
CMDREQ == Struct(232, V(<<32, 32, 24, 8, 1760>>), <<Bytes(5, 12, 232), Fmt(0, 1, L(2) \o W(2))>>)
CMDREP == Struct(232, V(<<32, 32, 1792>>), <<Bytes(3, 8, 232), Fmt(0, 1, L(2))>>)
CMLAP == Struct(232,
    V(<<32, 32, 32, 24, 5, 3, 32, 16, 16>>) \o O(128, "GID") \o O(128, "GID") \o V(<<20, 4, 8, 8,
      2, 6, 4, 1, 3, 5, 3, 1344>>),
    <<Sub(10, 24), Sub(11, 40), Bytes(23, 64, 232), Fmt(0, 1, L(3) \o W(3) \o L(1) \o H(2)),
      Fmt(56, 12, W(3) \o W(8))>>)
CMAPR == Struct(232, V(<<32, 32, 8, 8, 16, 576, 1184>>),
    <<Bytes(6, 12, 84), Bytes(7, 84, 232), Fmt(0, 1, L(2) \o B(2) \o H(1))>>)
CMSIDR_REQ == Struct(232, V(<<32, 32, 64, 1728>>), <<Bytes(4, 16, 232), Fmt(0, 1, L(2) \o Q(1))>>)
CMSIDR_REP == Struct(232, V(<<32, 24, 8, 64, 32>>) \o O(576, "MADClassPortInfo") \o V(<<1120>>),
    <<Sub(6, 20), Bytes(7, 92, 232), Fmt(0, 1, L(1) \o W(2) \o Q(1) \o L(1))>>)

\* Management datagrams and RMPP
MADHeader == Struct(24, V(<<8, 8, 8, 8, 16, 16, 64, 16, 16, 32>>),
    <<Fmt(0, 1, B(4) \o H(2) \o Q(1) \o H(2) \o L(1))>>)
MADHeaderDirected == Struct(24, V(<<8, 8, 8, 8, 1, 15, 8, 8, 64, 16, 16, 32>>),
    <<Fmt(0, 1, B(4) \o W(4) \o Q(1) \o H(2) \o L(1))>>)
MADClassPortInfo == Struct(72,
    V(<<8, 8, 16, 27, 5>>) \o O(128, "GID") \o V(<<8, 4, 20, 16, 16, 8, 24, 32>>) \o O(128, "GID")
      \o V(<<8, 4, 20, 16, 16, 8, 24, 32>>),
    <<Sub(6, 8), Sub(15, 40), Fmt(0, 1, B(2) \o H(1) \o W(2)), Fmt(24, 7, W(3) \o H(2) \o W(2)
      \o L(1)), Fmt(56, 16, W(3) \o H(2) \o W(2) \o L(1))>>)
MADInformInfo == Struct(36, O(128, "GID") \o V(<<16, 16, 16, 8, 8, 16, 16, 24, 3, 5, 8, 24>>),
    <<Sub(1, 0), Fmt(16, 2, H(3) \o B(2) \o H(2) \o W(3) \o W(2))>>)
RMPPHeader == Struct(36, O(192, "MADHeader") \o V(<<8, 8, 5, 3, 8, 32, 32>>),
    <<Sub(1, 0), Fmt(24, 2, W(5) \o L(2))>>)
RMPPShortHeader == Struct(28, O(192, "MADHeader") \o V(<<8, 8, 5, 3, 8>>),
    <<Sub(1, 0), Fmt(24, 2, W(5))>>)
RMPPData == Struct(256, O(224, "RMPPShortHeader") \o V(<<32, 32, 1760>>),
    <<Sub(1, 0), Bytes(4, 36, 256), Fmt(28, 2, L(2))>>)
RMPPAck == Struct(256, O(224, "RMPPShortHeader") \o V(<<32, 32, 1760>>),
    <<Sub(1, 0), Bytes(4, 36, 256), Fmt(28, 2, L(2))>>)
RMPPAbort == Struct(256, O(224, "RMPPShortHeader") \o V(<<32, 32, 1760>>),
    <<Sub(1, 0), Bytes(4, 36, 256), Fmt(28, 2, L(2))>>)
RMPPStop == Struct(256, O(224, "RMPPShortHeader") \o V(<<32, 32, 1760>>),
    <<Sub(1, 0), Bytes(4, 36, 256), Fmt(28, 2, L(2))>>)

\* Subnet management
SMPLIDPortBlock == Struct(4, V(<<16, 1, 3, 4, 8>>), <<Fmt(0, 1, W(5))>>)
SMPFormat == Struct(256,
    V(<<8, 8, 8, 8, 16, 16, 64, 16, 16, 32, 64, 256, 512, 1024>>),
    <<Bytes(12, 32, 64), Bytes(13, 64, 128), Bytes(14, 128, 256), Fmt(0, 1, B(4) \o H(2) \o Q(1)
      \o H(2) \o L(1) \o Q(1))>>)
SMPFormatDirected == Struct(256,
    V(<<8, 8, 8, 8, 1, 15, 8, 8, 64, 16, 16, 32, 64, 16, 16, 224, 512>>) \o A(64, 8) \o A(64, 8),
    <<Bytes(16, 36, 64), Bytes(17, 64, 128), Bytes(18, 128, 192), Bytes(19, 192, 256), Fmt(0, 1,
      B(4) \o W(4) \o Q(1) \o H(2) \o L(1) \o Q(1) \o H(2))>>)
SMPNodeDescription == Struct(64, A(64, 8), <<Bytes(1, 0, 64)>>)
SMPNodeInfo == Struct(40,
    Rep(4, 8) \o O(64, "GUID") \o O(64, "GUID") \o O(64, "GUID") \o V(<<16, 16, 32, 8, 24>>),
    <<Sub(5, 4), Sub(6, 12), Sub(7, 20), Fmt(0, 1, B(4)), Fmt(28, 8, H(2) \o L(1) \o W(2))>>)
SMPSwitchInfo == Struct(20,
    V(<<16, 16, 16, 16, 8, 8, 8, 5, 1, 2, 16, 16, 1, 1, 1, 1, 1, 3, 8, 16>>),
    <<Fmt(0, 1, H(4) \o W(6) \o H(2) \o W(8))>>)
SMPGUIDInfo == Struct(64, Os(8, 64, "GUID"), Subs(1, 8, 0, 8))
SMPPortInfo == Struct(64,
    V(<<64, 64, 16, 16, 32, 16, 16, 8, 8, 8, 8, 4, 4, 4, 4, 2, 3, 3, 4, 4, 4, 4, 4, 4, 8, 8, 8, 4,
      4, 3, 5, 4, 1, 1, 1, 1, 16, 16, 16, 8, 1, 2, 5, 3, 5, 4, 4, 16, 8, 24, 16, 4, 4, 3, 5>>),
    <<Fmt(0, 1, Q(2) \o H(2) \o L(1) \o H(2) \o B(4) \o W(9) \o W(6) \o W(10) \o H(2) \o W(5)
      \o W(5) \o W(2) \o W(5))>>)
SMPPKeyTable == Struct(64, A(32, 16), <<Fmt(0, 1, H(32))>>)
SMPSLToVLMappingTable == Struct(8, A(16, 4), <<Array(1, 0, 4, 16)>>)
SMPVLArbitrationTable == Struct(64, A(32, 16), <<Fmt(0, 1, H(32))>>)
SMPLinearForwardingTable == Struct(64, A(64, 8), <<Bytes(1, 0, 64)>>)
SMPRandomForwardingTable == Struct(64, Os(16, 32, "SMPLIDPortBlock"), Subs(1, 16, 0, 4))
SMPMulticastForwardingTable == Struct(64, A(32, 16), <<Fmt(0, 1, H(32))>>)
SMPSMInfo == Struct(24, O(64, "GUID") \o V(<<64, 32, 4, 4, 24>>),
    <<Sub(1, 0), Fmt(8, 2, Q(1) \o L(1) \o W(3))>>)
SMPVendorDiag == Struct(64, V(<<16, 16, 480>>), <<Bytes(3, 4, 64), Fmt(0, 1, H(2))>>)
SMPLedInfo == Struct(4, V(<<1, 31>>), <<Fmt(0, 1, W(2))>>)
SMPNoticeTrap == Struct(64, V(<<1, 7, 24, 16, 16, 1, 15, 16>>) \o A(26, 16),
    <<Fmt(0, 1, W(3) \o H(2) \o W(3) \o H(26))>>)

\* Subnet administration
SAHeader_Mutant == Struct(56,
    V(<<8, 8, 8, 8, 16, 16, 64, 16, 16, 32, 8, 8, 3, 5, 8, 32, 32, 64, 16, 16, 64>>),
    <<Fmt(0, 1, B(4) \o H(2) \o Q(1) \o H(2) \o L(1) \o W(5) \o L(2) \o Q(1) \o H(2) \o Q(1))>>)
SAHeader == Struct(56,
    V(<<8, 8, 8, 8, 16, 16, 64, 16, 16, 32, 8, 8, 5, 3, 8, 32, 32, 64, 16, 16, 64>>),
    <<Fmt(0, 1, B(4) \o H(2) \o Q(1) \o H(2) \o L(1) \o W(5) \o L(2) \o Q(1) \o H(2) \o Q(1))>>)
SAFormat == Struct(256,
    V(<<8, 8, 8, 8, 16, 16, 64, 16, 16, 32, 8, 8, 5, 3, 8, 32, 32, 64, 16, 16, 64, 1600>>),
    <<Bytes(22, 56, 256), Fmt(0, 1, B(4) \o H(2) \o Q(1) \o H(2) \o L(1) \o W(5) \o L(2) \o Q(1)
      \o H(2) \o Q(1))>>)
SANodeRecord == Struct(108,
    V(<<16, 16>>) \o O(320, "SMPNodeInfo") \o O(512, "SMPNodeDescription"),
    <<Sub(3, 4), Sub(4, 44), Fmt(0, 1, H(2))>>)
SAPortInfoRecord == Struct(68, V(<<16, 8, 8>>) \o O(512, "SMPPortInfo"),
    <<Sub(4, 4), Fmt(0, 1, H(1) \o B(2))>>)
SASLToVLMappingTableRecord == Struct(16, V(<<16, 8, 8, 32>>) \o O(64, "SMPSLToVLMappingTable"),
    <<Sub(5, 8), Fmt(0, 1, H(1) \o B(2) \o L(1))>>)
SASwitchInfoRecord == Struct(24, V(<<16, 16>>) \o O(160, "SMPSwitchInfo"),
    <<Sub(3, 4), Fmt(0, 1, H(2))>>)
SALinearForwardingTableRecord == Struct(72,
    V(<<16, 16, 32>>) \o O(512, "SMPLinearForwardingTable"),
    <<Sub(4, 8), Fmt(0, 1, H(2) \o L(1))>>)
SARandomForwardingTableRecord == Struct(72,
    V(<<16, 16, 32>>) \o O(512, "SMPRandomForwardingTable"),
    <<Sub(4, 8), Fmt(0, 1, H(2) \o L(1))>>)
SAMulticastForwardingTableRecord == Struct(72,
    V(<<16, 2, 4, 10, 32>>) \o O(512, "SMPMulticastForwardingTable"),
    <<Sub(6, 8), Fmt(0, 1, W(4) \o L(1))>>)
SAVLArbitrationTableRecord == Struct(72, V(<<16, 8, 8, 32>>) \o O(512, "SMPVLArbitrationTable"),
    <<Sub(5, 8), Fmt(0, 1, H(1) \o B(2) \o L(1))>>)
SASMInfoRecord == Struct(28, V(<<16, 16>>) \o O(192, "SMPSMInfo"), <<Sub(3, 4), Fmt(0, 1, H(2))>>)
SAInformInfoRecord == Struct(80,
    O(128, "GID") \o V(<<16, 16, 32>>) \o O(288, "MADInformInfo") \o V(<<160>>),
    <<Sub(1, 0), Sub(5, 24), Bytes(6, 60, 80), Fmt(16, 2, H(2) \o L(1))>>)
SALinkRecord == Struct(8, V(<<16, 8, 8, 16, 16>>), <<Fmt(0, 1, H(1) \o B(2) \o H(2))>>)
SAGUIDInfoRecord == Struct(72, V(<<16, 8, 8, 32>>) \o O(512, "SMPGUIDInfo"),
    <<Sub(5, 8), Fmt(0, 1, H(1) \o B(2) \o L(1))>>)
SAServiceRecord == Struct(176,
    V(<<64>>) \o O(128, "GID") \o V(<<16, 16, 32>>) \o O(128, "GID") \o A(64, 8) \o A(16, 8)
      \o A(8, 16) \o A(4, 32) \o A(2, 64),
    <<Sub(2, 8), Sub(6, 32), Bytes(7, 48, 112), Bytes(8, 112, 128), Array(11, 160, 64, 2), Fmt(0,
      1, Q(1)), Fmt(24, 3, H(2) \o L(1)), Fmt(128, 9, H(8) \o L(4))>>)
SAPKeyTableRecord == Struct(72, V(<<16, 16, 8, 24>>) \o O(512, "SMPPKeyTable"),
    <<Sub(5, 8), Fmt(0, 1, H(2) \o W(2))>>)
SAPathRecord == Struct(64,
    V(<<64>>) \o O(128, "GID") \o O(128, "GID") \o V(<<16, 16, 1, 3, 20, 8, 8, 1, 7, 16, 12, 4, 2,
      6, 2, 6, 2, 6, 8, 2, 14, 32>>),
    <<Sub(2, 8), Sub(3, 24), Fmt(0, 1, Q(1)), Fmt(40, 4, H(2) \o W(4) \o W(4) \o W(6) \o W(5)
      \o L(1))>>)
SAMCMemberRecord == Struct(52,
    O(128, "GID") \o O(128, "GID") \o V(<<32, 16, 2, 6, 8, 16, 2, 6, 2, 6, 4, 20, 8, 4, 4, 1,
      23>>),
    <<Sub(1, 0), Sub(2, 16), Fmt(32, 3, L(1) \o W(4) \o W(5) \o W(3) \o W(4))>>)
SATraceRecord == Struct(48, V(<<64, 16, 8, 8, 64, 64, 64, 64, 8, 8, 16>>),
    <<Fmt(0, 1, Q(1) \o H(1) \o B(2) \o Q(4) \o B(2) \o H(1))>>)
SAMultiPathRecord == Struct(40,
    V(<<1, 3, 20, 8, 8, 1, 7, 16, 12, 4, 2, 6, 2, 6, 2, 6, 8, 2, 6, 8, 8, 24, 32>>) \o O(128,
      "GID"),
    <<Sub(24, 24), Fmt(0, 1, W(4) \o W(4) \o W(6) \o W(6) \o W(2) \o L(1))>>)
SAServiceAssociationRecord == Struct(80, O(128, "GID") \o A(64, 8),
    <<Sub(1, 0), Bytes(2, 16, 80)>>)

\* Performance management
PMFormat == Struct(256, V(<<8, 8, 8, 8, 16, 16, 64, 16, 16, 32, 320, 1536>>),
    <<Bytes(11, 24, 64), Bytes(12, 64, 256), Fmt(0, 1, B(4) \o H(2) \o Q(1) \o H(2) \o L(1))>>)
PMPortSamplesCtl == Struct(192,
    V(<<8, 8, 8, 5, 3, 2, 3, 3, 3, 3, 3, 3, 3, 3, 3, 3, 1, 3, 3, 3, 3, 3, 8, 6, 2, 64, 64, 32, 32,
      16, 16, 16, 16, 16, 16, 16, 16, 16, 16, 16, 16, 16, 16, 16, 16, 32, 64, 896>>),
    <<Bytes(48, 80, 192), Fmt(0, 1, W(5) \o W(11) \o W(9) \o Q(2) \o L(2) \o H(16) \o L(1)
      \o Q(1))>>)
PMPortSamplesRes == Struct(64, V(<<16, 14, 2>>) \o A(15, 32), <<Fmt(0, 1, W(3) \o L(15))>>)
PMPortCounters == Struct(44,
    V(<<8, 8, 16, 16, 8, 8, 16, 16, 16, 16, 8, 8, 8, 4, 4, 16, 16, 32, 32, 32, 32, 32>>),
    <<Fmt(0, 1, B(2) \o H(2) \o B(2) \o H(4) \o W(5) \o H(2) \o L(5))>>)
PMPortRcvErrorDetails == Struct(16, V(<<8, 8, 16, 16, 16, 16, 16, 16, 16>>),
    <<Fmt(0, 1, B(2) \o H(7))>>)
PMPortXmitDiscardDetails == Struct(12, V(<<8, 8, 16, 16, 16, 16, 16>>),
    <<Fmt(0, 1, B(2) \o H(5))>>)
PMPortOpRcvCounters == Struct(12, V(<<8, 8, 16, 32, 32>>), <<Fmt(0, 1, B(2) \o H(1) \o L(2))>>)
PMPortFlowCtlCounters == Struct(12, V(<<8, 8, 16, 32, 32>>), <<Fmt(0, 1, B(2) \o H(1) \o L(2))>>)
PMPortVLOpPackets == Struct(36, V(<<8, 8, 16>>) \o A(16, 16), <<Fmt(0, 1, B(2) \o H(17))>>)
PMPortVLOpData == Struct(68, V(<<8, 8, 16>>) \o A(16, 32), <<Fmt(0, 1, B(2) \o H(1) \o L(16))>>)
PMPortVLXmitFlowCtlUpdateErrors == Struct(8, V(<<8, 8, 16>>) \o A(16, 2),
    <<Array(4, 4, 2, 16), Fmt(0, 1, B(2) \o H(1))>>)
PMPortVLXmitWaitCounters == Struct(36, V(<<8, 8, 16>>) \o A(16, 16), <<Fmt(0, 1, B(2) \o H(17))>>)
PMSwPortVLCongestion == Struct(36, V(<<8, 8, 16>>) \o A(16, 16), <<Fmt(0, 1, B(2) \o H(17))>>)
PMPortSamplesResExt == Struct(128, V(<<16, 14, 2, 2, 30>>) \o A(15, 64),
    <<Array(6, 8, 64, 15), Fmt(0, 1, W(3) \o W(2))>>)
PMPortCountersExt == Struct(72, V(<<8, 8, 16, 32, 64, 64, 64, 64, 64, 64, 64, 64>>),
    <<Fmt(0, 1, B(2) \o H(1) \o L(1) \o Q(8))>>)
PMPortXmitDataSL == Struct(68, V(<<8, 8, 16>>) \o A(16, 32), <<Fmt(0, 1, B(2) \o H(1) \o L(16))>>)
PMPortRcvDataSL == Struct(68, V(<<8, 8, 16>>) \o A(16, 32), <<Fmt(0, 1, B(2) \o H(1) \o L(16))>>)

\* Device management
DMFormat == Struct(256, V(<<8, 8, 8, 8, 16, 16, 64, 16, 16, 32, 320, 1536>>),
    <<Bytes(11, 24, 64), Bytes(12, 64, 256), Fmt(0, 1, B(4) \o H(2) \o Q(1) \o H(2) \o L(1))>>)
DMServiceEntry == Struct(48, A(40, 8) \o V(<<64>>), <<Bytes(1, 0, 40), Fmt(40, 2, Q(1))>>)
DMIOUnitInfo == Struct(132, V(<<16, 8, 6, 1, 1, 1024>>), <<Bytes(6, 4, 132), Fmt(0, 1, W(5))>>)
DMIOControllerProfile == Struct(128,
    O(64, "GUID") \o V(<<24, 8, 32, 16, 16, 24, 8, 32, 16, 16, 16, 16, 16, 16, 16, 8, 8, 32, 32,
      8, 8, 8, 8, 64>>) \o A(64, 8),
    <<Sub(1, 0), Bytes(26, 64, 128), Fmt(8, 2, W(2) \o L(1) \o H(2) \o W(2) \o L(1) \o H(7)
      \o B(2) \o L(2) \o B(4) \o Q(1))>>)
DMServiceEntries == Struct(192, Os(4, 384, "DMServiceEntry"), Subs(1, 4, 0, 48))
DMDiagnosticTimeout == Struct(4, V(<<32>>), <<Fmt(0, 1, L(1))>>)
DMPrepareToTest == Struct(0, <<>>, <<>>)
DMTestDeviceOnce == Struct(0, <<>>, <<>>)
DMTestDeviceLoop == Struct(0, <<>>, <<>>)
DMDiagCode == Struct(4, V(<<16, 16>>), <<Fmt(0, 1, H(2))>>)

\* SNMP tunnelling
SNMPFormat == Struct(256,
    V(<<8, 8, 8, 8, 16, 16, 64, 16, 16, 32, 256, 32, 8, 8, 16, 1536>>),
    <<Bytes(11, 24, 56), Bytes(16, 64, 256), Fmt(0, 1, B(4) \o H(2) \o Q(1) \o H(2) \o L(1)),
      Fmt(56, 12, L(1) \o B(2) \o H(1))>>)
SNMPCommunityInfo == Struct(64, A(64, 8), <<Bytes(1, 0, 64)>>)
SNMPPDUInfo == Struct(192, V(<<1536>>), <<Bytes(1, 0, 192)>>)

\* Vendor classes
VendFormat == Struct(256, V(<<8, 8, 8, 8, 16, 16, 64, 16, 16, 32, 1856>>),
    <<Bytes(11, 24, 256), Fmt(0, 1, B(4) \o H(2) \o Q(1) \o H(2) \o L(1))>>)
VendOUIFormat == Struct(256,
    V(<<8, 8, 8, 8, 16, 16, 64, 16, 16, 32, 8, 8, 5, 3, 8, 32, 32, 8, 24, 1728>>),
    <<Bytes(20, 40, 256), Fmt(0, 1, B(4) \o H(2) \o Q(1) \o H(2) \o L(1) \o W(5) \o L(2)
      \o W(2))>>)

\* The classes by name.
Layouts ==
    [HdrLRH |-> HdrLRH, HdrRWH |-> HdrRWH, HdrGRH |-> HdrGRH, HdrBTH |-> HdrBTH,
     HdrRDETH |-> HdrRDETH, HdrDETH |-> HdrDETH, HdrRETH |-> HdrRETH,
     HdrAtomicETH |-> HdrAtomicETH, HdrAETH |-> HdrAETH, HdrAtomicAckETH |-> HdrAtomicAckETH,
     HdrImmDt |-> HdrImmDt, HdrIETH |-> HdrIETH, HdrFlowControl |-> HdrFlowControl,
     CMFormat |-> CMFormat, CMPath |-> CMPath, CMREQ |-> CMREQ, CMMRA |-> CMMRA, CMREJ |-> CMREJ,
     CMREP |-> CMREP, CMRTU |-> CMRTU, CMDREQ |-> CMDREQ, CMDREP |-> CMDREP, CMLAP |-> CMLAP,
     CMAPR |-> CMAPR, CMSIDR_REQ |-> CMSIDR_REQ, CMSIDR_REP |-> CMSIDR_REP,
     MADHeader |-> MADHeader, MADHeaderDirected |-> MADHeaderDirected,
     MADClassPortInfo |-> MADClassPortInfo, MADInformInfo |-> MADInformInfo,
     RMPPHeader |-> RMPPHeader, RMPPShortHeader |-> RMPPShortHeader, RMPPData |-> RMPPData,
     RMPPAck |-> RMPPAck, RMPPAbort |-> RMPPAbort, RMPPStop |-> RMPPStop,
     SMPLIDPortBlock |-> SMPLIDPortBlock, SMPFormat |-> SMPFormat,
     SMPFormatDirected |-> SMPFormatDirected, SMPNodeDescription |-> SMPNodeDescription,
     SMPNodeInfo |-> SMPNodeInfo, SMPSwitchInfo |-> SMPSwitchInfo, SMPGUIDInfo |-> SMPGUIDInfo,
     SMPPortInfo |-> SMPPortInfo, SMPPKeyTable |-> SMPPKeyTable,
     SMPSLToVLMappingTable |-> SMPSLToVLMappingTable,
     SMPVLArbitrationTable |-> SMPVLArbitrationTable,
     SMPLinearForwardingTable |-> SMPLinearForwardingTable,
     SMPRandomForwardingTable |-> SMPRandomForwardingTable,
     SMPMulticastForwardingTable |-> SMPMulticastForwardingTable, SMPSMInfo |-> SMPSMInfo,
     SMPVendorDiag |-> SMPVendorDiag, SMPLedInfo |-> SMPLedInfo, SMPNoticeTrap |-> SMPNoticeTrap,
     SAHeader |-> SAHeader, SAFormat |-> SAFormat, SANodeRecord |-> SANodeRecord,
     SAPortInfoRecord |-> SAPortInfoRecord,
     SASLToVLMappingTableRecord |-> SASLToVLMappingTableRecord,
     SASwitchInfoRecord |-> SASwitchInfoRecord,
     SALinearForwardingTableRecord |-> SALinearForwardingTableRecord,
     SARandomForwardingTableRecord |-> SARandomForwardingTableRecord,
     SAMulticastForwardingTableRecord |-> SAMulticastForwardingTableRecord,
     SAVLArbitrationTableRecord |-> SAVLArbitrationTableRecord, SASMInfoRecord |-> SASMInfoRecord,
     SAInformInfoRecord |-> SAInformInfoRecord, SALinkRecord |-> SALinkRecord,
     SAGUIDInfoRecord |-> SAGUIDInfoRecord, SAServiceRecord |-> SAServiceRecord,
     SAPKeyTableRecord |-> SAPKeyTableRecord, SAPathRecord |-> SAPathRecord,
     SAMCMemberRecord |-> SAMCMemberRecord, SATraceRecord |-> SATraceRecord,
     SAMultiPathRecord |-> SAMultiPathRecord,
     SAServiceAssociationRecord |-> SAServiceAssociationRecord, PMFormat |-> PMFormat,
     PMPortSamplesCtl |-> PMPortSamplesCtl, PMPortSamplesRes |-> PMPortSamplesRes,
     PMPortCounters |-> PMPortCounters, PMPortRcvErrorDetails |-> PMPortRcvErrorDetails,
     PMPortXmitDiscardDetails |-> PMPortXmitDiscardDetails,
     PMPortOpRcvCounters |-> PMPortOpRcvCounters, PMPortFlowCtlCounters |-> PMPortFlowCtlCounters,
     PMPortVLOpPackets |-> PMPortVLOpPackets, PMPortVLOpData |-> PMPortVLOpData,
     PMPortVLXmitFlowCtlUpdateErrors |-> PMPortVLXmitFlowCtlUpdateErrors,
     PMPortVLXmitWaitCounters |-> PMPortVLXmitWaitCounters,
     PMSwPortVLCongestion |-> PMSwPortVLCongestion, PMPortSamplesResExt |-> PMPortSamplesResExt,
     PMPortCountersExt |-> PMPortCountersExt, PMPortXmitDataSL |-> PMPortXmitDataSL,
     PMPortRcvDataSL |-> PMPortRcvDataSL, DMFormat |-> DMFormat,
     DMServiceEntry |-> DMServiceEntry, DMIOUnitInfo |-> DMIOUnitInfo,
     DMIOControllerProfile |-> DMIOControllerProfile, DMServiceEntries |-> DMServiceEntries,
     DMDiagnosticTimeout |-> DMDiagnosticTimeout, DMPrepareToTest |-> DMPrepareToTest,
     DMTestDeviceOnce |-> DMTestDeviceOnce, DMTestDeviceLoop |-> DMTestDeviceLoop,
     DMDiagCode |-> DMDiagCode, SNMPFormat |-> SNMPFormat,
     SNMPCommunityInfo |-> SNMPCommunityInfo, SNMPPDUInfo |-> SNMPPDUInfo,
     VendFormat |-> VendFormat, VendOUIFormat |-> VendOUIFormat]

\* The attributes of the two subnet management formats.
SMPAttributes ==
    {"SMPNoticeTrap", "SMPNodeDescription", "SMPNodeInfo", "SMPSwitchInfo", "SMPGUIDInfo",
     "SMPPortInfo", "SMPPKeyTable", "SMPSLToVLMappingTable", "SMPVLArbitrationTable",
     "SMPLinearForwardingTable", "SMPRandomForwardingTable", "SMPMulticastForwardingTable",
     "SMPSMInfo", "SMPVendorDiag", "SMPLedInfo"}

\* ATTR_TO_STRUCT: the attribute structures carried by each format.
ATTR_TO_STRUCT ==
    [CMFormat |-> {"CMREQ", "CMMRA", "CMREJ", "CMREP", "CMRTU", "CMDREQ", "CMDREP", "CMSIDR_REQ",
       "CMSIDR_REP", "CMLAP", "CMAPR"},
     SMPFormat |-> SMPAttributes,
     SMPFormatDirected |-> SMPAttributes,
     SAFormat |-> {"MADClassPortInfo", "MADInformInfo", "SANodeRecord", "SAPortInfoRecord",
       "SASLToVLMappingTableRecord", "SASwitchInfoRecord", "SALinearForwardingTableRecord",
       "SARandomForwardingTableRecord", "SAMulticastForwardingTableRecord", "SASMInfoRecord",
       "SALinkRecord", "SAGUIDInfoRecord", "SAServiceRecord", "SAPKeyTableRecord", "SAPathRecord",
       "SAVLArbitrationTableRecord", "SAMCMemberRecord", "SATraceRecord", "SAMultiPathRecord",
       "SAServiceAssociationRecord", "SAInformInfoRecord"},
     PMFormat |-> {"MADClassPortInfo", "PMPortSamplesCtl", "PMPortSamplesRes", "PMPortCounters",
       "PMPortRcvErrorDetails", "PMPortXmitDiscardDetails", "PMPortOpRcvCounters",
       "PMPortFlowCtlCounters", "PMPortVLOpPackets", "PMPortVLOpData",
       "PMPortVLXmitFlowCtlUpdateErrors", "PMPortVLXmitWaitCounters", "PMPortCountersExt",
       "PMPortSamplesResExt", "PMSwPortVLCongestion", "PMPortXmitDataSL", "PMPortRcvDataSL"},
     DMFormat |-> {"MADClassPortInfo", "DMIOUnitInfo", "DMIOControllerProfile",
       "DMServiceEntries", "DMDiagnosticTimeout", "DMPrepareToTest", "DMTestDeviceOnce",
       "DMTestDeviceLoop", "DMDiagCode"},
     SNMPFormat |-> {"SNMPCommunityInfo", "SNMPPDUInfo"},
     VendFormat |-> {},
     VendOUIFormat |-> {}]

\* The member of each format that holds the packed attribute.
DataMember_Mutant ==
    [CMFormat |-> 11, SMPFormat |-> 12, SMPFormatDirected |-> 17, SAFormat |-> 22,
     PMFormat |-> 12, DMFormat |-> 12, SNMPFormat |-> 16, VendFormat |-> 11, VendOUIFormat |-> 20]
DataMember ==
    [CMFormat |-> 11, SMPFormat |-> 13, SMPFormatDirected |-> 17, SAFormat |-> 22,
     PMFormat |-> 12, DMFormat |-> 12, SNMPFormat |-> 16, VendFormat |-> 11, VendOUIFormat |-> 20]
================================================================================
