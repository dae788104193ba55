-------------------------------- MODULE Display --------------------------------
(***************************************************************************)
(* The framebuffer, the font and the terminal as the boot sequence sets    *)
(* them up (graphics/framebuffer.c, init/psf.c, init/iso_file.c,           *)
(* dev/terminal.c).  What the terminal does with text is in Terminal.      *)
(***************************************************************************)
EXTENDS Machine, SequencesExt

CONSTANTS
    FbResponses,      \* the framebuffers that the boot loader offers
    ModuleResponses,  \* the boot modules
    FontPath          \* the name asked for, a sequence of letters

VARIABLES
    initial_fb,       \* height and width; 0 before fb_init
    font,             \* header: the character size, NULL without memory; glyph_buffer
    term              \* height and width in characters, 0 before init_terminal

DisplayVars == <<initial_fb, font, term>>

PSF1_FONT_WIDTH == 8

FRAMEBUFFER == [height : Nat, width : Nat]

TERMINAL == [height : Nat, width : Nat]

\* A boot module, as far as it is read; the character size of a font is a byte, and one
\* of 0, by which init_terminal would divide, is no font.
LIMINE_FILE == [path : Seq(STRING), magic : BOOLEAN, character_size : 1..255]

ASSUME DisplayAssumption ==
    /\ ModuleResponses \subseteq Seq(LIMINE_FILE) \cup {NULL}
    /\ FbResponses \subseteq Seq(FRAMEBUFFER \cup {NULL}) \cup {NULL}
    /\ NULL \notin Seq(STRING) \cup LIMINE_FILE \cup FRAMEBUFFER \cup (1..255)

fb_init(response) ==
    /\ IF response = NULL \/ response = <<>>
       THEN halt("report") /\ UNCHANGED initial_fb
       ELSE /\ GoesOn
            /\ initial_fb' = IF response[1] = NULL THEN initial_fb ELSE response[1]
    /\ UNCHANGED <<font, term>>

\* check_string_ending compares from the end on and stops before the first letter of end.
check_string_ending(str, end) ==
    /\ Len(str) >= Len(end)
    /\ \A i \in 0..Len(end)-2 : str[Len(str) - i] = end[Len(end) - i]

get_iso_file(modules, name) ==
    LET i == SelectInSeq(modules, LAMBDA f : check_string_ending(f.path, name))
    IN  IF i = 0 THEN NULL ELSE modules[i]

\* psf1_font_init; memory says whether kmalloc finds any for the header.
psf1_font_init(response, memory) ==
    /\ IF response = NULL
       THEN halt("report") /\ UNCHANGED font
       ELSE IF ~memory
       THEN GoesOn /\ font' = [font EXCEPT !.header = NULL]
       ELSE LET file == get_iso_file(response, FontPath) IN
            IF file = NULL
            THEN halt("report") /\ font' = [font EXCEPT !.header = 0]
            ELSE /\ font' = [header |-> file.character_size,
                             glyph_buffer |-> IF file.magic THEN file.path ELSE NULL]
                 /\ IF file.magic THEN GoesOn ELSE halt("report")
    /\ UNCHANGED <<initial_fb, term>>

init_terminal ==
    /\ term' = IF font.header = NULL THEN term
               ELSE [height |-> initial_fb.height \div font.header,
                     width  |-> initial_fb.width \div PSF1_FONT_WIDTH]
    /\ GoesOn
    /\ UNCHANGED <<initial_fb, font>>

\* The screen has room for a character of the font.
HasRoom == initial_fb.height >= font.header /\ initial_fb.width >= PSF1_FONT_WIDTH

DisplayInit ==
    /\ initial_fb = [height |-> 0, width |-> 0]
    /\ font = [header |-> NULL, glyph_buffer |-> NULL]
    /\ term = [height |-> 0, width |-> 0]

=============================================================================
