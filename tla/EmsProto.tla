----------------------------- MODULE EmsProto -----------------------------
(* class EmsProto: the addresses of the bus and the sizes of its packed    *)
(* records, as the commands and the decoding of telegrams use them.        *)
EXTENDS Integers

UBA == 8
BC10 == 9
RC3x == 16
WM10 == 17
RC2xStandalone == 23
RC2xHK(n) == 23 + n
MM10HK(n) == 31 + n
SM10 == 48

DateRecordSize == 3
SystemTimeRecordSize == 8
ErrorRecordSize == 12
ScheduleEntrySize == 2
HolidayEntrySize == 3

\* A byte, as the int it was converted from or is converted to.
Byte(i) == i % 256
SignedByte(b) == IF b < 128 THEN b ELSE b - 256
=============================================================================
