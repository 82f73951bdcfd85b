SPECIFICATION Spec
CONSTANTS
    Page <- MCPage
    Dados <- MCDados
    Vazio = "vazio"
    NULL = "NULL"
    Capacidades = {1, 3, 4}
    MaxAcessos = 3
    Score <- MCScore
CONSTRAINT UmaPolitica
INVARIANTS
    TypeOK
    Inteira
PROPERTIES
    CacheSpec
    VitimaJusta
    UltimaFica
    RotacoesSaoProfundidade
    CaminhoPelaMetade
