---------------------------- MODULE MCAk7755Codec ----------------------------
(* Ak7755Codec with the three images in the order of ak7755_ram_images.    *)
EXTENDS Ak7755Codec

CONSTANTS PRAM, CRAM, OFREG

MCImages == {PRAM, CRAM, OFREG}
MCOrder == <<PRAM, CRAM, OFREG>>
OneImage == {PRAM}
OneOrder == <<PRAM>>
=============================================================================
