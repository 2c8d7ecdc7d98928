------------------------------ MODULE MCOutput -------------------------------
\* Output for TLC: glyphs of 2x2 pixels; framebuffers with and without pixels
\* to spare at the right, at the bottom and in the pitch, and none.
EXTENDS Output

Screens == {[width |-> 5, height |-> 5, pitch |-> 6], [width |-> 3, height |-> 5, pitch |-> 3],
            [width |-> 6, height |-> 2, pitch |-> 6], NoFramebuffer}
Glyphs == {" ", "?", "1", "-"}  \* any other character is drawn as "?"
Strings == {<<"1">>, <<"BEL">>, <<"NL">>, <<"CR">>, <<"TAB">>, <<"BS">>, <<"1", "NL">>}
Calls == {<< <<"%", "d", "NL">>, <<-1>> >>,
          << <<"%", "s", "%", "%">>, << <<"1", "BS">> >> >>,
          << <<"%", "x">>, <<17>> >>}
=============================================================================
