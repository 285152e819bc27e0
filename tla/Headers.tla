------------------------------- MODULE Headers -------------------------------
(***************************************************************************)
(* Map keys, and the byte counts of the encapsulation: struct sizes as the *)
(* compiler lays them out (bpf/headers/scion.h, Linux headers), and the    *)
(* lengths that tc_egress and xdp_ingress compute from them.               *)
(***************************************************************************)
EXTENDS Naturals

EthHdr == 14
IpHdr == 20
UdpHdr == 8
ScionHdr == 12
AddrHdr == 24       \* scion_addr_hdr_v4
MetaHdr == 7        \* scion_path_meta_hdr: bit fields do not cross bytes
InfoField == 8
HopField == 16      \* the 48 bits of the MAC start a word of their own
E2eExt == 8         \* cilium_e2e_ext

MaxPathLen == 256

\* What tc_egress opens for a path of this many bytes.
EncapLen(pathLen) == IpHdr + UdpHdr + ScionHdr + AddrHdr + pathLen + E2eExt

\* What xdp_ingress takes for the path of a packet, and strips with the rest.
PathHdrLen(numInf, numHf) == MetaHdr + numInf * InfoField + numHf * HopField

StripLen(ihl, numInf, numHf) ==
    ihl * 4 + UdpHdr + ScionHdr + AddrHdr + PathHdrLen(numInf, numHf) + E2eExt

\* 16-bit length fields of the outer headers, from the length of the frame.
OuterTotLen(frame) == (frame - EthHdr) % 65536

OuterUdpLen(frame) == (frame - EthHdr - IpHdr) % 65536

(***************************************************************************)
(* Map keys.  A pod's address, four bytes, is a 32-bit integer to Go and   *)
(* the same bytes in memory to the program, on a little-endian host.       *)
(***************************************************************************)
Byte == 0 .. 255

IPToKey(ip) == ip[1] + 256 * ip[2] + 65536 * ip[3] + 16777216 * ip[4]

IPFromKey(k) ==
    <<k % 256, (k \div 256) % 256, (k \div 65536) % 256, (k \div 16777216) % 256>>

=============================================================================
