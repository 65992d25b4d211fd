-------------------------------- MODULE MCTsh --------------------------------
EXTENDS Tsh

\* A command in the foreground and in the background, quit, quit in the background,
\* and two lines that name no command.
MCLines == {<<"prog">>, <<"prog", "&">>, <<"quit">>, <<"quit", "&">>, <<"&">>, <<>>}

=============================================================================
